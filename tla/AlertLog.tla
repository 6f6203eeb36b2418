------------------------------ MODULE AlertLog ------------------------------
(***************************************************************************)
(* alerts.jsonl: written by the AI engine (vitos_ai/service.py), read while *)
(* it is written by the console's alert stream (alerts.py), roster         *)
(* (students.py) and reports (reports.py, vitosctl), and deleted by the    *)
(* retention sweep.                                                        *)
(*                                                                         *)
(* A file is a sequence of chunks.  The line of alert a is <<a, "head">>,   *)
(* <<a, "rest">>, <<a, "nl">>: only head and rest together are JSON, and a *)
(* reader, a full disk or a crash may meet the line between any two.       *)
(***************************************************************************)
EXTENDS Naturals, Sequences, FiniteSets, SequencesExt

CONSTANTS Student, Tail_,   \* the students; the open alert streams
          MaxAlerts, MaxCrashes, MaxSweeps, \* bounds
          BackBuf,          \* chunks a stream reads back (8192 bytes)
          Back,             \* lines it replays of them (50)
          ReportRows        \* rows a Markdown report prints (20)

ASSUME SizesAssumption == 
    /\ {MaxAlerts, MaxCrashes, MaxSweeps, BackBuf, Back} \subseteq Nat
    /\ ReportRows \in Nat \ {0}

VARIABLES file,   \* the files there have been, also those without a name
          path,   \* the one named alerts.jsonl, or 0
          fd,     \* the one the engine writes to, or 0 if it does not run
          pend,   \* what is left to write of the engine's last alert
          who,    \* history: the student of each alert
          home,   \* history: the file each alert was meant for,
          cut,    \* and those the engine died in the middle of
          tail,   \* the streams
          crashes, sweeps

engine == <<fd, pend, who, home, cut, crashes>>
vars == <<file, path, engine, tail, sweeps>>

NoTail == [ino |-> 0, pos |-> 0, out |-> <<>>, 
           from |-> 0,   \* history: where the first replayed line begins,
           torn |-> {}]  \* and the alerts it met half written

Init == /\ file = <<>> /\ path = 0 /\ fd = 0 /\ pend = <<>>
        /\ who = <<>> /\ home = <<>> /\ cut = {}
        /\ tail = [t \in Tail_ |-> NoTail]
        /\ crashes = 0 /\ sweeps = 0

-----------------------------------------------------------------------------
(* Lines.                                                                  *)

IsNl(f, k) == f[k][2] = "nl"

\* The lines of chunks a to b of f; the last may lack its newline.
Lines(f, a, b) == 
    {r \in (a..b) \X (a..b) : 
       /\ r[1] <= r[2] /\ (r[1] = a \/ IsNl(f, r[1] - 1))
       /\ r[2] = b \/ IsNl(f, r[2])
       /\ \A k \in r[1]..(r[2] - 1) : ~IsNl(f, k)}

\* json.loads succeeds on line r of f.
IsJson(f, r) == /\ r[2] - r[1] = (IF IsNl(f, r[2]) THEN 2 ELSE 1)
                /\ f[r[1]] = <<f[r[1]][1], "head">>
                /\ f[r[1] + 1] = <<f[r[1]][1], "rest">>
AlertOf(f, r) == f[r[1]][1]

\* Positions from the first to the last.
InOrder(S) == CHOOSE q \in [1..Cardinality(S) -> S] : 
                \A i, j \in 1..Cardinality(S) : i < j => q[i] < q[j]

\* The alerts a reader gets out of some lines, in their order in the file.
Parsed(f, lines) == 
    LET heads == InOrder({r[1] : r \in {l \in lines : IsJson(f, l)}})
    IN  [i \in 1..Len(heads) |-> f[heads[i]][1]]

\* The last n of them.
LastLines(lines, n) == 
    {r \in lines : Cardinality({q \in lines : q[1] > r[1]}) < n}
LastOf(q, n) == SubSeq(q, IF Len(q) > n THEN Len(q) - n + 1 ELSE 1, Len(q))

-----------------------------------------------------------------------------
(* The engine and the sweep.                                               *)

\* open(alert_log, "a") by a new process, touch() by a stream.
Creat == IF path = 0 THEN /\ file' = Append(file, <<>>)
                          /\ path' = Len(file) + 1
                     ELSE UNCHANGED <<file, path>>

EngineStarts == /\ fd = 0 
                /\ Creat /\ fd' = path'
                /\ UNCHANGED <<pend, who, home, cut, crashes, tail, sweeps>>

Alert(s) == /\ fd # 0 /\ pend = <<>> /\ Len(who) < MaxAlerts
            /\ who' = Append(who, s) /\ home' = Append(home, fd)
            /\ pend' = [k \in 1..3 |-> 
                          <<Len(who) + 1, <<"head", "rest", "nl">>[k]>>]
            /\ UNCHANGED <<file, path, fd, cut, crashes, tail, sweeps>>

Write == /\ \E n \in 1..Len(pend) : 
              /\ file' = [file EXCEPT ![fd] = @ \o SubSeq(pend, 1, n)]
              /\ pend' = SubSeq(pend, n + 1, Len(pend))
         /\ UNCHANGED <<path, fd, who, home, cut, crashes, tail, sweeps>>

\* Killed, or ended by an exception: a disk that is full among them.
EngineDies == /\ fd # 0 /\ crashes < MaxCrashes
              /\ crashes' = crashes + 1 /\ fd' = 0 /\ pend' = <<>>
              /\ cut' = IF pend = <<>> THEN cut ELSE cut \cup {Len(who)}
              /\ UNCHANGED <<file, path, who, home, tail, sweeps>>

\* Nothing was written for a year: the name goes, the engine's file stays.
Sweep == /\ path # 0 /\ pend = <<>> /\ sweeps < MaxSweeps
         /\ sweeps' = sweeps + 1 /\ path' = 0
         /\ UNCHANGED <<file, engine, tail>>

-----------------------------------------------------------------------------
(* The alert stream.                                                       *)

\* The alert that a read of f up to chunk k cuts in two.
Cut(f, k) == IF k > 0 /\ f[k][2] = "head" THEN {f[k][1]} ELSE {}

\* _tail until its first readline(): what it replays is sent unchecked, and
\* a fragment is ignored by the page.  A name that the sweep takes between
\* exists() and open() makes the stream fail with nothing sent, and the page
\* asks again: a step that changes nothing.  Mutation: it does not read on from
\* where the replay ended.
Follows_Again(f) == IF Len(f) > BackBuf THEN Len(f) - BackBuf ELSE 0
Follows(f) == Len(f)
Open(t) == 
    /\ tail[t].ino = 0
    /\ Creat
    /\ LET f == file'[path']
           start == IF Len(f) > BackBuf THEN Len(f) - BackBuf + 1 ELSE 1
           lines == LastLines(Lines(f, start, Len(f)), Back)
       IN  tail' = [tail EXCEPT ![t] = 
             [ino |-> path', pos |-> Follows(f), out |-> Parsed(f, lines),
              from |-> IF lines = {} THEN Len(f) + 1 
                       ELSE CHOOSE x \in {r[1] : r \in lines} : 
                              \A r \in lines : x <= r[1],
              torn |-> Cut(f, Len(f))]]
    /\ UNCHANGED <<engine, sweeps>>

\* One readline(): to the next newline, or to the end of the file.
\* Mutations: the stream ends at what is no JSON; a newline is expected.
NextPos_Newline(f, r) == IF IsNl(f, r[2]) THEN r[2] ELSE r[2] + 1
NextPos_Ends(f, r) == IF IsJson(f, r) THEN r[2] ELSE r[1] - 1
NextPos(f, r) == r[2]
Follow(t) == 
    LET f == file[tail[t].ino]
        p == tail[t].pos
    IN  /\ tail[t].ino # 0 /\ p < Len(f)
        /\ \E r \in Lines(f, p + 1, Len(f)) : 
             /\ r[1] = p + 1
             /\ tail' = [tail EXCEPT 
                  ![t].pos = NextPos(f, r),
                  ![t].out = @ \o Parsed(f, {r}),
                  ![t].torn = @ \cup Cut(f, r[2])]
        /\ UNCHANGED <<file, path, engine, sweeps>>

-----------------------------------------------------------------------------
(* Readers of the whole file, each in one read: they change nothing, so    *)
(* what they show is an operator of the state.                             *)

\* _alerts_for, of the PDF, and the rows vitosctl prints of the same.
AlertsFor(s) == 
    IF path = 0 THEN <<>> 
    ELSE LET f == file[path]
         IN  Parsed(f, {r \in Lines(f, 1, Len(f)) : who[AlertOf(f, r)] = s})
ReportMd(s) == LastOf(AlertsFor(s), ReportRows)

\* _latest_alert_per_student, a loop of its own: a later line overwrites what
\* an earlier one put down for its student.  Mutation: the first one stays.
TheirLines(f, s) == 
    {r \in Lines(f, 1, Len(f)) : IsJson(f, r) /\ who[AlertOf(f, r)] = s}
Latest_First(s) == 
    IF path = 0 \/ TheirLines(file[path], s) = {} THEN 0
    ELSE LET f == file[path]
         IN  AlertOf(f, CHOOSE r \in TheirLines(f, s) : 
                          \A q \in TheirLines(f, s) : q[1] >= r[1])
Latest(s) == 
    IF path = 0 \/ TheirLines(file[path], s) = {} THEN 0
    ELSE LET f == file[path]
         IN  AlertOf(f, CHOOSE r \in TheirLines(f, s) : 
                          \A q \in TheirLines(f, s) : q[1] <= r[1])

Engine == EngineStarts \/ Write \/ EngineDies \/ \E s \in Student : Alert(s)
Next == Engine \/ Sweep \/ \E t \in Tail_ : Open(t) \/ Follow(t)
Spec == Init /\ [][Next]_vars

\* A stream polls its file for ever.
FairSpec == Spec /\ \A t \in Tail_ : WF_vars(Follow(t))

-----------------------------------------------------------------------------
(* Properties.                                                             *)

Chunk == (1..MaxAlerts) \X {"head", "rest", "nl"}
TailState == [ino : 0..Len(file), pos : Nat, out : Seq(1..Len(who)), 
              from : Nat, torn : SUBSET (1..Len(who))]
\* The type invariant.
TypeOK == 
    /\ file \in Seq(Seq(Chunk)) /\ {path, fd} \subseteq 0..Len(file)
    /\ pend \in Seq(Chunk) /\ who \in Seq(Student) /\ home \in Seq(1..Len(file))
    /\ cut \subseteq 1..Len(who)
    /\ tail \in [Tail_ -> TailState]
    /\ \A t \in Tail_ : 
         tail[t].ino # 0 => tail[t].pos <= Len(file[tail[t].ino])

\* A stream sends no alert twice nor out of order, where its replay ends as
\* elsewhere, and misses none it has passed: only one that it met half
\* written, or that a crash left without a line of its own.
Own(f, a) == {r \in Lines(f, 1, Len(f)) : IsJson(f, r) /\ AlertOf(f, r) = a}
TailExact == 
    \A t \in Tail_ : tail[t].ino # 0 => 
      LET f == file[tail[t].ino]
          out == tail[t].out
      IN  /\ \A i, j \in 1..Len(out) : i < j => out[i] < out[j]
          /\ \A i \in 1..Len(out) : home[out[i]] = tail[t].ino
          /\ \A a \in 1..Len(who) \ tail[t].torn : \A r \in Own(f, a) : 
               (r[1] >= tail[t].from /\ r[1] < tail[t].pos) => 
                 \E i \in 1..Len(out) : out[i] = a

\* The reports list what the engine has written to the file that is there
\* now, all of it and in order, and the roster agrees with them and shows the
\* newest of it, through restarts and sweeps.  Only an alert that a crash cut,
\* and the one written behind it, may be missing.
Written(a) == a < Len(who) \/ Len(pend) <= 1
Spoilt == cut \cup {a \in 1..Len(who) : a - 1 \in cut}
Sound(s) == {a \in 1..Len(who) \ Spoilt : 
               who[a] = s /\ home[a] = path /\ Written(a)}
ReadsCurrent == 
    \A s \in Student : 
      /\ \A i, j \in 1..Len(AlertsFor(s)) : 
           i < j => AlertsFor(s)[i] < AlertsFor(s)[j]
      /\ {AlertsFor(s)[i] : i \in 1..Len(AlertsFor(s))} \ Spoilt = Sound(s)
      /\ AlertsFor(s) # <<>> => Last(ReportMd(s)) = Latest(s)
      /\ \A a \in Sound(s) : a <= Latest(s)

\* An alert with a line of its own reaches every stream that follows its file,
\* unless the stream met it half written: garbage, heartbeats and fragments do
\* not end a stream.
Delivered == 
    \A t \in Tail_, a \in 1..MaxAlerts : 
      (/\ tail[t].ino # 0
       /\ \E r \in Own(file[tail[t].ino], a) : 
            IsNl(file[tail[t].ino], r[2]) /\ r[1] >= tail[t].from) ~> 
        (a \in tail[t].torn \/ \E i \in 1..Len(tail[t].out) : tail[t].out[i] = a)
=============================================================================
