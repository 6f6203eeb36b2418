--------------------------- MODULE BehaviorEngine ---------------------------
(***************************************************************************)
(* vitos-ai (ai/vitos_ai/service.py with features.py, anomaly.py and       *)
(* intent.py): one coroutine that reads the bus, keeps a window of events  *)
(* per (student, session), asks the language model about commands, scores  *)
(* and writes alerts; with what surrounds it: the bus, which drops a       *)
(* subscriber whose socket stays full, and systemd                         *)
(* (systemd/vitos-ai.service).                                             *)
(*                                                                         *)
(* An event is known by its number in the order of the bus.  The window's  *)
(* eight counters are left out: only the anomaly model reads them, and in  *)
(* this service no student ever has a model.                               *)
(***************************************************************************)
EXTENDS RiskScorer, Sequences, FiniteSets

CONSTANTS Keys,          \* (student_id, session_id) pairs
          NoKey,         \* the key of an event without both identities
          Feed,          \* Feed[n]: the records the n-th event may be
          Replies,       \* [label, conf] pairs the classifier may return
          AllowedTools, AllowedPorts,  \* the active scope; {} allows all
          Window,        \* FeatureExtractor's window
          SockCap,       \* lines that wait in the engine's socket and buffer
          MaxFaults,     \* bound: crashes of the engine and of the bus
          Lite           \* --lite: no classifier

\* An event: its key, its kind, a timestamp (NoTs when absent or malformed),
\* the tool or port it names (NoPort when absent) and whether it carries a
\* command.  A "garbage"
\* line is not JSON; a "broken" one is JSON the loop raises on (not an object,
\* a port that is no number).
NoTs == -1
NoPort == -1
Kind == {"shell_cmd", "tool_exec", "net_flow", "exec", "garbage", "broken"}

ASSUME KeysAssumption == NoKey \notin Keys
ASSUME FeedAssumption == 
    \A n \in DOMAIN Feed : \A e \in Feed[n] : 
      /\ e.key \in Keys \cup {NoKey} /\ e.kind \in Kind
      /\ e.ts \in Nat \cup {NoTs} /\ e.cmd \in BOOLEAN
ASSUME RepliesAssumption == Replies \subseteq [label : Label, conf : Int]
ASSUME NumbersAssumption == 
    /\ Feed \in Seq(SUBSET UNION {Feed[n] : n \in DOMAIN Feed})
    /\ Window \in Nat /\ SockCap \in Nat \ {0}
    /\ MaxFaults \in Nat /\ Lite \in BOOLEAN

VARIABLES busUp,    \* vitos-busd is running
          cast,     \* the events broadcast so far
          conn,     \* the engine's connection: "none", "up" or "eof"
          inq,      \* event numbers in its socket and buffer
          proc,     \* "connect", "recv", "classify", "stopped" or "dead"
          cur,      \* the event whose command is being classified, or 0
          win,      \* FeatureExtractor._events, as event numbers
          last,     \* last_score, 100 for an absent key
          trained,  \* AnomalyModel._models: the students that have one
          alerts,   \* alerts.jsonl
          isolated, \* the sessions whose network was asked to be cut
          faults,   \* crashes so far
          fed, done \* history: events ingested since start, all verdicts

busVars == <<busUp, cast>>
memVars == <<win, last, trained, fed>>
outVars == <<alerts, isolated, done>>
vars == <<busVars, conn, inq, proc, cur, memVars, outVars, faults>>

Student(k) == k[1]
Active == {"connect", "recv", "classify"}
Ev(n) == cast[n]

Init == /\ busUp = TRUE /\ cast = <<>>
        /\ conn = "none" /\ inq = <<>> /\ proc = "connect" /\ cur = 0
        /\ win = [k \in Keys |-> <<>>] /\ fed = [k \in Keys |-> <<>>]
        /\ last = [k \in Keys |-> 100] /\ trained = {}
        /\ alerts = <<>> /\ isolated = {} /\ done = <<>> /\ faults = 0

-----------------------------------------------------------------------------
(* One event through the engine.                                           *)

\* Before the cutoff of an event: ts < its ts - window.  Mutation: one off.
Stale_OffByOne(m, n) == Ev(m).ts <= Ev(n).ts - Window
Stale(m, n) == Ev(m).ts < Ev(n).ts - Window

\* FeatureExtractor.ingest: append, then drop from the left what is older
\* than this event's own timestamp allows.  An undated event is not kept.
Ingest(n) == 
    LET k == Ev(n).key
        q == Append(win[k], n)
        first == CHOOSE i \in 1..Len(q) : 
                   ~Stale(q[i], n) /\ \A j \in 1..(i - 1) : Stale(q[j], n)
    IN  IF Ev(n).ts = NoTs THEN UNCHANGED <<win, fed>>
        ELSE /\ win' = [win EXCEPT ![k] = SubSeq(q, first, Len(q))]
             /\ fed' = [fed EXCEPT ![k] = Append(@, n)]

\* A flow without a port is within any scope.
IsScopeBreach(e) == 
    \/ e.kind = "tool_exec" /\ AllowedTools # {} /\ e.what \notin AllowedTools
    \/ e.kind = "net_flow" /\ e.what # NoPort /\ AllowedPorts # {} 
         /\ e.what \notin AllowedPorts

\* Mutation: an untrained student is scored all the same.
AnomalyScores_Untrained(student) == {0, 100}

\* AnomalyModel.score(..., is_baseline=False).
AnomalyScores(student) == IF student \in trained THEN 0..100 ELSE {0}

NeedsClassifier(e) == ~Lite /\ e.kind \in {"shell_cmd", "tool_exec"} /\ e.cmd

\* From the scope check to the end of the loop body: score, suppress, alert,
\* isolate.  Mutation: only the remembered score counts.
Suppressed_ByLast(score, before) == before < 20
Suppressed(score, before) == score < 20 /\ before < 20
Judge(n, reply) == 
    \E anomaly \in AnomalyScores(Student(Ev(n).key)) : 
      LET k == Ev(n).key
          v == Score(anomaly, reply.label, reply.conf, IsScopeBreach(Ev(n)))
          verdict == [ev |-> n, cat |-> v.cat, score |-> v.score]
          silent == Suppressed(v.score, last[k])
      IN  /\ done' = Append(done, verdict)
          /\ last' = IF silent THEN last ELSE [last EXCEPT ![k] = v.score]
          /\ alerts' = IF ~silent /\ v.cat # "Normal" 
                       THEN Append(alerts, verdict) ELSE alerts
          /\ isolated' = IF ~silent /\ v.cat = "Critical" 
                         THEN isolated \cup {k} ELSE isolated

NoReply == [label |-> "UNKNOWN", conf |-> 0]

-----------------------------------------------------------------------------
(* The process.                                                            *)

\* Everything in memory is gone; a fresh process starts learning again.
Forget == /\ win' = [k \in Keys |-> <<>>] /\ fed' = [k \in Keys |-> <<>>]
          /\ last' = [k \in Keys |-> 100] /\ trained' = {}
          /\ inq' = <<>> /\ cur' = 0 /\ conn' = "none"

\* The connect loop retries every second until the bus is there.
Connect == /\ proc = "connect" /\ busUp
           /\ proc' = "recv" /\ conn' = "up"
           /\ UNCHANGED <<busVars, inq, cur, memVars, outVars, faults>>

\* A line that is not JSON or carries no student and session is skipped.
Skip == /\ proc = "recv" /\ inq # <<>>
        /\ \/ Ev(Head(inq)).kind = "garbage" 
           \/ Ev(Head(inq)).kind # "broken" /\ Ev(Head(inq)).key = NoKey
        /\ inq' = Tail(inq)
        /\ UNCHANGED <<busVars, conn, proc, cur, memVars, outVars, faults>>

\* Mutation: the loop goes on reading while a command is classified.
Taken_Concurrent(n) == 
    /\ proc \in {"recv", "classify"} /\ inq # <<>> /\ n = Head(inq)
    /\ Ev(n).kind \notin {"garbage", "broken"} /\ Ev(n).key # NoKey
    /\ inq' = Tail(inq)
    /\ Ingest(n)

Taken(n) == /\ proc = "recv" /\ inq # <<>> /\ n = Head(inq)
            /\ Ev(n).kind \notin {"garbage", "broken"} /\ Ev(n).key # NoKey
            /\ inq' = Tail(inq)
            /\ Ingest(n)

\* No command to classify: the event is judged in one go.
Process == \E n \in DOMAIN cast : 
             /\ Taken(n) /\ ~NeedsClassifier(Ev(n))
             /\ Judge(n, NoReply)
             /\ UNCHANGED <<busVars, conn, proc, cur, trained, faults>>

\* await run_in_executor(ic.classify): the loop reads nothing meanwhile.
AskClassifier == 
    \E n \in DOMAIN cast : 
      /\ Taken(n) /\ NeedsClassifier(Ev(n))
      /\ proc' = "classify" /\ cur' = n
      /\ UNCHANGED <<busVars, conn, last, trained, outVars, faults>>

\* An answer, or UNKNOWN with confidence 0 after an error or the 4 s timeout.
Classified == 
    /\ proc = "classify"
    /\ \E reply \in Replies \cup {NoReply} : Judge(cur, reply)
    /\ proc' = "recv" /\ cur' = 0
    /\ UNCHANGED <<busVars, conn, inq, win, trained, fed, faults>>

\* Mutation: the lines that came before the end of file are not processed.
Eof_Early == /\ proc = "recv" /\ conn = "eof"
             /\ proc' = "stopped"
             /\ Forget
             /\ UNCHANGED <<busVars, outVars, faults>>

\* End of file: the loop breaks and the process exits with status 0.
Eof == /\ proc = "recv" /\ inq = <<>> /\ conn = "eof"
       /\ proc' = "stopped"
       /\ Forget
       /\ UNCHANGED <<busVars, outVars, faults>>

\* A line the loop raises on, ...
Raise == /\ proc = "recv" /\ inq # <<>> /\ Ev(Head(inq)).kind = "broken"
         /\ proc' = "dead"
         /\ Forget
         /\ UNCHANGED <<busVars, outVars, faults>>

\* ... a reply classify() does not expect (an exception it does not catch),
\* or the process is killed.
Crash == /\ proc \in Active /\ faults < MaxFaults
         /\ faults' = faults + 1
         /\ proc' = "dead"
         /\ Forget
         /\ UNCHANGED <<busVars, outVars>>

\* Restart=on-failure, which an exit with status 0 is not.
Restart == /\ proc = "dead"
           /\ proc' = "connect"
           /\ UNCHANGED <<busVars, conn, inq, cur, memVars, outVars, faults>>

-----------------------------------------------------------------------------
(* The bus.                                                                *)

\* A broadcast reaches the engine, finds nobody, or drops an engine whose
\* socket stays full until the deadline.
Cast == 
    /\ busUp /\ Len(cast) < Len(Feed)
    /\ \E e \in Feed[Len(cast) + 1] : cast' = Append(cast, e)
    /\ \/ /\ conn # "up"
          /\ UNCHANGED <<conn, inq>>
       \/ /\ conn = "up" /\ Len(inq) < SockCap
          /\ inq' = Append(inq, Len(cast) + 1)
          /\ UNCHANGED conn
       \/ /\ conn = "up" /\ Len(inq) >= SockCap
          /\ conn' = "eof"
          /\ UNCHANGED inq
    /\ UNCHANGED <<busUp, proc, cur, memVars, outVars, faults>>

BusFails == /\ busUp /\ faults < MaxFaults
            /\ faults' = faults + 1
            /\ busUp' = FALSE
            /\ conn' = IF conn = "up" THEN "eof" ELSE conn
            /\ UNCHANGED <<cast, inq, proc, cur, memVars, outVars>>

\* systemd restarts busd and, for Requires=vitos-busd.service, the engine
\* with it if the engine is still running.
BusRestarts == 
    /\ ~busUp /\ busUp' = TRUE
    /\ IF proc \in Active 
       THEN proc' = "connect" /\ Forget
       ELSE UNCHANGED <<proc, conn, inq, cur, memVars>>
    /\ UNCHANGED <<cast, outVars, faults>>

-----------------------------------------------------------------------------
Loop == Connect \/ Skip \/ Process \/ AskClassifier \/ Classified \/ Eof 
          \/ Raise
Next == Loop \/ Crash \/ Restart \/ Cast \/ BusFails \/ BusRestarts

Spec == Init /\ [][Next]_vars

\* The coroutine runs while it can, classify() returns within its timeout,
\* systemd restarts what failed.  Nothing makes the bus broadcast.
Fairness == WF_vars(Loop) /\ WF_vars(Restart) /\ WF_vars(BusRestarts)
FairSpec == Spec /\ Fairness

-----------------------------------------------------------------------------
(* Properties.                                                             *)

Verdict == [ev : DOMAIN Feed, cat : Category, score : 0..100]

\* The type invariant.
TypeOK == 
    /\ busUp \in BOOLEAN /\ conn \in {"none", "up", "eof"}
    /\ proc \in Active \cup {"stopped", "dead"}
    /\ cast \in Seq(UNION {Feed[n] : n \in DOMAIN Feed})
    /\ inq \in Seq(DOMAIN Feed) /\ cur \in DOMAIN Feed \cup {0}
    /\ win \in [Keys -> Seq(DOMAIN Feed)] /\ fed \in [Keys -> Seq(DOMAIN Feed)]
    /\ last \in [Keys -> 0..100] /\ trained \subseteq {Student(k) : k \in Keys}
    /\ alerts \in Seq(Verdict) /\ done \in Seq(Verdict)
    /\ isolated \subseteq Keys
    /\ faults \in 0..MaxFaults

\* alerts.jsonl holds exactly the verdicts above Normal, each once and in the
\* order of the bus: the suppression by last_score, whatever it remembers of
\* the session and whenever a restart empties it, hides no alert and spares
\* none.
Entries(s) == {s[i] : i \in 1..Len(s)}
AlertPerFinding == 
    /\ Entries(alerts) = {v \in Entries(done) : v.cat # "Normal"}
    /\ \A i, j \in 1..Len(alerts) : i < j => alerts[i].ev < alerts[j].ev

\* Verdicts, and so alerts, come in the order of the bus and no event is
\* judged twice, across drops, crashes and restarts.
InBusOrder == \A i, j \in 1..Len(done) : i < j => done[i].ev < done[j].ev

\* The window is the end of what was ingested, and what it has dropped is
\* more than Window older than some event of the session: it misses nothing
\* within Window of the newest one, however late or early events arrive.
WindowComplete == 
    \A k \in Keys : 
      LET gone == Len(fed[k]) - Len(win[k])
      IN  /\ gone \in Nat
          /\ win[k] = SubSeq(fed[k], gone + 1, Len(fed[k]))
          /\ \A i \in 1..gone : \E j \in 1..Len(fed[k]) : 
               Ev(fed[k][i]).ts < Ev(fed[k][j]).ts - Window

\* As shipped the engine stays in its learning mode: with no anomaly score no
\* event, command or classifier reply raises a Critical alert or cuts a
\* session off.
LearningMode == /\ isolated = {}
                /\ \A i \in 1..Len(done) : done[i].cat # "Critical"

\* Every attributable event the engine has in its socket is eventually
\* judged, unless the engine crashes or is restarted with the bus before
\* that: an end of file is noticed only after the lines before it.
Attributable(n) == /\ Ev(n).kind \notin {"garbage", "broken"}
                   /\ Ev(n).key # NoKey
EventuallyJudged == 
    \A n \in DOMAIN Feed : 
      (\E i \in 1..Len(inq) : inq[i] = n /\ Attributable(n)) ~> 
         \/ \E i \in 1..Len(done) : done[i].ev = n
         \/ proc = "dead" \/ ~busUp

\* sp1 design, deliverable 4: the engine runs and consumes the event bus; as
\* long as the bus runs, the engine is there again and again.
EngineReturns == <>[]busUp => []<>(proc \in {"recv", "classify"})
=============================================================================
