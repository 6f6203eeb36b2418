------------------------------ MODULE EventBus ------------------------------
(***************************************************************************)
(* vitos-busd (packages/vitos-monitor/busd/main.go): a fan-out daemon on   *)
(* two Unix sockets.  Collectors connect to the publisher socket and write *)
(* lines; every line is appended to an on-disk ring of two files and then  *)
(* written to every registered subscriber, under one mutex.                *)
(*                                                                         *)
(* Processes: the main goroutine (Run), the two accept loops, one          *)
(* handlePub goroutine per publisher connection, the goroutine that runs   *)
(* Stop after a signal, the clients at the other end of the sockets, and   *)
(* systemd, which restarts a daemon that failed.  A connection identity is *)
(* used once, as a net.Conn is.  A line is the pair of its publisher and   *)
(* its number on that connection.  An unterminated fragment a dying        *)
(* publisher leaves is one more line (bufio.ScanLines returns it); one     *)
(* that a timed-out write leaves in a subscriber's socket is not: readers  *)
(* split at the newline and never see it.                                  *)
(***************************************************************************)
EXTENDS Naturals, Sequences, FiniteSets

CONSTANTS Pubs,      \* publisher connections
          Subs,      \* subscriber connections
          NoOne,     \* the value of a free mutex
          MaxLines,  \* bound: lines a publisher writes on one connection
          SockCap,   \* lines a subscriber's socket holds before Write blocks
          MaxLog,    \* b.maxBytes, in lines
          TooLong,   \* the lines longer than maxLineBytes
          Faults,    \* the failures a run may meet
          MaxBoots   \* bound: times the daemon is started

Line == Pubs \X (1..MaxLines)

ASSUME NoOneAssumption == NoOne \notin Pubs
ASSUME BoundsAssumption == /\ MaxLines \in Nat /\ MaxBoots \in Nat
                           /\ SockCap \in Nat \ {0} /\ MaxLog \in Nat
ASSUME TooLongAssumption == TooLong \subseteq Line
ASSUME FaultsAssumption == 
    Faults \subseteq {"boot", "pub", "sub", "write", "rename", "reopen", "crash", 
                      "stop"}

VARIABLES
    life,       \* main goroutine: "boot", "serve", "exited" or "failed"
    boots,      \* times systemd has started the daemon
    stopPc,     \* the next statement of Stop, "idle" before the signal
    listening,  \* which of the "pub" and "sub" listeners accept dials
    deaf,       \* of their accept loops, those an error has ended
    mu,         \* the broadcaster that holds b.mu, or NoOne
    logF,       \* b.logF: "open", "nil" or "closed"
    cur, old,   \* the log file and its ".1", as sequences of lines
    pubQ, subQ, \* the kernel's accept queues
    pst,        \* publisher connection / program counter of its handler
    pubs,       \* b.pubs
    written,    \* lines the publisher has written to its socket
    buffered,   \* of those, the lines the handler's scanner has read
    scanned,    \* of those, the lines the scanner has returned
    hung, cut,  \* publisher connections closed by the client, by Stop
    sst,        \* subscriber connection
    subs,       \* b.subs
    todo,       \* subscribers the current fan-out has still to write to
    left,       \* subscribers that closed their end
    received,   \* lines written to a subscriber's socket
    taken,      \* of those, the lines the subscriber has read
    sent, start \* history: all lines broadcast; Len(sent) at registration

daemonVars == <<life, boots, stopPc, listening, deaf>>
logVars == <<logF, cur, old>>
lineVars == <<written, buffered, scanned, hung, cut>>
pubVars == <<pubQ, pst, pubs, lineVars>>
flowVars == <<left, received, taken, start>>
subVars == <<subQ, sst, subs, flowVars>>
castVars == <<mu, todo, sent>>
vars == <<daemonVars, logVars, pubVars, subVars, castVars>>

PubState == {"idle", "backlog", "accepted", "scan", "have", "write",
             "rotate", "fanout", "close", "done"}
SubState == {"idle", "backlog", "accepted", "in", "closed"}
Holding == {"write", "rotate", "fanout"}

\* Mutation: the broadcast reads the scanner's buffer after it moved on.
CurrentLine_Aliased(p) == <<p, buffered[p]>>

CurrentLine(p) == <<p, scanned[p]>>
InFlight(s) == Len(received[s]) - taken[s]
Serving == life = "serve"

Init == 
    /\ life = "boot" /\ boots = 1 /\ stopPc = "idle" /\ listening = {}
    /\ deaf = {}
    /\ mu = NoOne /\ todo = {} /\ sent = <<>>
    /\ logF = "nil" /\ cur = <<>> /\ old = <<>>
    /\ pubQ = <<>> /\ subQ = <<>>
    /\ pst = [p \in Pubs |-> "idle"] /\ pubs = {} /\ hung = {} /\ cut = {}
    /\ written = [p \in Pubs |-> 0]
    /\ buffered = [p \in Pubs |-> 0]
    /\ scanned = [p \in Pubs |-> 0]
    /\ sst = [s \in Subs |-> "idle"] /\ subs = {} /\ left = {}
    /\ received = [s \in Subs |-> <<>>]
    /\ taken = [s \in Subs |-> 0]
    /\ start = [s \in Subs |-> 0]

-----------------------------------------------------------------------------
(* The life of the process: Run, main, systemd.                            *)

\* The process is gone: the kernel closes every socket, no goroutine runs.
\* Bytes already in a subscriber's socket stay readable.
ProcessGone == 
    /\ listening' = {} /\ deaf' = {} 
    /\ mu' = NoOne /\ todo' = {} /\ logF' = "nil"
    /\ pubQ' = <<>> /\ subQ' = <<>> /\ pubs' = {} /\ subs' = {}
    /\ pst' = [p \in Pubs |-> IF pst[p] = "idle" THEN "idle" ELSE "done"]
    /\ sst' = [s \in Subs |-> IF sst[s] = "idle" THEN "idle" ELSE "closed"]
    /\ UNCHANGED <<boots, stopPc, cur, old, lineVars, left, received, taken,
                   sent, start>>

\* Mutation: the log is opened with O_TRUNC.
Boot_Truncates == 
    /\ life = "boot" /\ life' = "serve" /\ listening' = {"pub", "sub"}
    /\ logF' = "open" /\ cur' = <<>>
    /\ UNCHANGED <<boots, stopPc, deaf, old, pubVars, subVars, castVars>>

\* Run up to "go b.acceptPubs()": both listeners and the log, opened to
\* append.  The signal may have come before.
Boot == /\ life = "boot"
        /\ life' = "serve"
        /\ listening' = {"pub", "sub"}
        /\ logF' = "open"
        /\ UNCHANGED <<boots, stopPc, deaf, cur, old, pubVars, subVars, castVars>>

\* net.Listen or OpenFile fails: log.Fatal.
BootFails == /\ "boot" \in Faults
             /\ life = "boot"
             /\ life' = "failed"
             /\ UNCHANGED <<boots, stopPc, listening, deaf, logVars, pubVars,
                            subVars, castVars>>

\* Run returns once b.stop is closed and main returns with it, whatever the
\* goroutine in Stop, a handler or a half-done broadcast has left to do.
Exit == /\ Serving /\ stopPc # "idle"
        /\ life' = "exited"
        /\ ProcessGone

\* A panic, an out-of-memory kill.
Crash == /\ "crash" \in Faults
         /\ Serving
         /\ life' = "failed"
         /\ ProcessGone

\* Restart=on-failure: neither a clean exit nor a daemon systemd itself is
\* stopping is started again.
Restart == /\ life = "failed" /\ boots < MaxBoots /\ stopPc = "idle"
           /\ life' = "boot"
           /\ boots' = boots + 1
           /\ UNCHANGED <<stopPc, listening, deaf, logVars, pubVars, subVars,
                          castVars>>

-----------------------------------------------------------------------------
(* Stop, one action per statement that another goroutine can observe.      *)

Alive == life \in {"boot", "serve"}

\* SIGTERM: close(b.stop).
Signal == /\ "stop" \in Faults
          /\ Alive /\ stopPc = "idle"
          /\ stopPc' = "pubL"
          /\ UNCHANGED <<life, boots, listening, deaf, logVars, pubVars,
                         subVars, castVars>>

\* b.pubL.Close(): connections still in the accept queue are reset.  Before
\* Boot the listener is nil and there is nothing to close.
StopPubL == 
    /\ Alive /\ stopPc = "pubL"
    /\ stopPc' = "subL"
    /\ listening' = listening \ {"pub"}
    /\ pubQ' = <<>>
    /\ pst' = [p \in Pubs |-> IF pst[p] = "backlog" THEN "done" ELSE pst[p]]
    /\ UNCHANGED <<life, boots, deaf, logVars, pubs, lineVars, subVars,
                   castVars>>

StopSubL == 
    /\ Alive /\ stopPc = "subL"
    /\ stopPc' = "sweep"
    /\ listening' = listening \ {"sub"}
    /\ subQ' = <<>>
    /\ sst' = [s \in Subs |-> IF sst[s] = "backlog" THEN "closed" ELSE sst[s]]
    /\ UNCHANGED <<life, boots, deaf, logVars, pubVars, subs, flowVars,
                   castVars>>

\* Mutation: subscribers are closed but stay in b.subs.
StopSweep_KeepsSubs == 
    /\ Alive /\ stopPc = "sweep" /\ mu = NoOne /\ stopPc' = "log"
    /\ cut' = cut \cup pubs /\ pubs' = {}
    /\ sst' = [s \in Subs |-> IF s \in subs THEN "closed" ELSE sst[s]]
    /\ UNCHANGED <<life, boots, listening, deaf, logVars, pubQ, pst, written,
                   buffered, scanned, hung, subQ, subs, flowVars, castVars>>

\* Under b.mu: close and forget every registered connection.
StopSweep == 
    /\ Alive /\ stopPc = "sweep"
    /\ mu = NoOne
    /\ stopPc' = "log"
    /\ cut' = cut \cup pubs /\ pubs' = {}
    /\ sst' = [s \in Subs |-> IF s \in subs THEN "closed" ELSE sst[s]]
    /\ subs' = {}
    /\ UNCHANGED <<life, boots, listening, deaf, logVars, pubQ, pst, written,
                   buffered, scanned, hung, subQ, flowVars, castVars>>

\* b.logF.Close(), outside b.mu: a broadcast may be between any two steps.
StopLog == /\ Alive /\ stopPc = "log"
           /\ stopPc' = "done"
           /\ logF' = IF logF = "open" THEN "closed" ELSE logF
           /\ UNCHANGED <<life, boots, listening, deaf, cur, old, pubVars,
                          subVars, castVars>>

-----------------------------------------------------------------------------
(* The accept loops: Accept returns, then the connection is registered     *)
(* under b.mu.                                                             *)

AcceptPub == 
    /\ Serving /\ "pub" \in listening \ deaf /\ pubQ # <<>>
    /\ \A p \in Pubs : pst[p] # "accepted"
    /\ pst' = [pst EXCEPT ![Head(pubQ)] = "accepted"]
    /\ pubQ' = Tail(pubQ)
    /\ UNCHANGED <<daemonVars, logVars, pubs, lineVars, subVars, castVars>>

RegisterPub(p) == 
    /\ Serving /\ pst[p] = "accepted" /\ mu = NoOne
    /\ pubs' = pubs \cup {p}
    /\ pst' = [pst EXCEPT ![p] = "scan"]
    /\ UNCHANGED <<daemonVars, logVars, pubQ, lineVars, subVars, castVars>>

AcceptSub == 
    /\ Serving /\ "sub" \in listening \ deaf /\ subQ # <<>>
    /\ \A s \in Subs : sst[s] # "accepted"
    /\ sst' = [sst EXCEPT ![Head(subQ)] = "accepted"]
    /\ subQ' = Tail(subQ)
    /\ UNCHANGED <<daemonVars, logVars, pubVars, subs, flowVars, castVars>>

RegisterSub(s) == 
    /\ Serving /\ sst[s] = "accepted" /\ mu = NoOne
    /\ subs' = subs \cup {s}
    /\ sst' = [sst EXCEPT ![s] = "in"]
    /\ start' = [start EXCEPT ![s] = Len(sent)]
    /\ UNCHANGED <<daemonVars, logVars, pubVars, subQ, left, received, taken,
                   castVars>>

\* Accept fails (no file descriptor is left): the loop returns for good, and
\* dials go on to be queued.
AcceptFails(l) == 
    /\ Serving /\ l \in (listening \ deaf) \cap Faults
    /\ l = "pub" => \A p \in Pubs : pst[p] # "accepted"
    /\ l = "sub" => \A s \in Subs : sst[s] # "accepted"
    /\ deaf' = deaf \cup {l}
    /\ UNCHANGED <<life, boots, stopPc, listening, logVars, pubVars, subVars,
                   castVars>>

-----------------------------------------------------------------------------
(* handlePub: the scanner and the deferred close.                          *)

\* The scanner reads the socket only when it holds no complete line, and
\* may read several at once.  They outlive a Close of the connection.
Fill(p) == 
    /\ Serving /\ pst[p] = "scan" /\ scanned[p] = buffered[p]
    /\ p \notin cut
    /\ \E n \in (buffered[p] + 1)..written[p] :
         buffered' = [buffered EXCEPT ![p] = n]
    /\ UNCHANGED <<daemonVars, logVars, pubQ, pst, pubs, written, scanned,
                   hung, cut, subVars, castVars>>

\* Mutation: one line more than was read.
Scan_OffByOne(p) == 
    /\ Serving /\ pst[p] = "scan" /\ scanned[p] <= buffered[p]
    /\ scanned' = [scanned EXCEPT ![p] = @ + 1]
    /\ pst' = [pst EXCEPT ![p] = "have"]
    /\ UNCHANGED <<daemonVars, logVars, pubQ, pubs, written, buffered, hung,
                   cut, subVars, castVars>>

Scan(p) == 
    /\ Serving /\ pst[p] = "scan" /\ scanned[p] < buffered[p]
    /\ <<p, scanned[p] + 1>> \notin TooLong
    /\ scanned' = [scanned EXCEPT ![p] = @ + 1]
    /\ pst' = [pst EXCEPT ![p] = "have"]
    /\ UNCHANGED <<daemonVars, logVars, pubQ, pubs, written, buffered, hung,
                   cut, subVars, castVars>>

\* sc.Scan() returns false: a line over maxLineBytes, end of file, or the
\* connection closed under the handler.
ScanEnds(p) == 
    /\ Serving /\ pst[p] = "scan"
    /\ \/ scanned[p] < buffered[p] /\ <<p, scanned[p] + 1>> \in TooLong
       \/ scanned[p] = buffered[p] /\ p \in cut
       \/ scanned[p] = buffered[p] /\ p \in hung /\ buffered[p] = written[p]
    /\ pst' = [pst EXCEPT ![p] = "close"]
    /\ UNCHANGED <<daemonVars, logVars, pubQ, pubs, lineVars, subVars,
                   castVars>>

Unregister(p) == 
    /\ Serving /\ pst[p] = "close" /\ mu = NoOne
    /\ pubs' = pubs \ {p}
    /\ pst' = [pst EXCEPT ![p] = "done"]
    /\ UNCHANGED <<daemonVars, logVars, pubQ, lineVars, subVars, castVars>>

-----------------------------------------------------------------------------
(* broadcast: one critical section of b.mu.                                *)

\* Mutation: broadcast without b.mu.Lock().
Lock_NoWait(p) == 
    /\ Serving /\ pst[p] = "have"
    /\ mu' = p
    /\ pst' = [pst EXCEPT ![p] = "write"]
    /\ UNCHANGED <<daemonVars, logVars, pubQ, pubs, lineVars, subVars, todo,
                   sent>>

Lock(p) == 
    /\ Serving /\ pst[p] = "have" /\ mu = NoOne
    /\ mu' = p
    /\ pst' = [pst EXCEPT ![p] = "write"]
    /\ UNCHANGED <<daemonVars, logVars, pubQ, pubs, lineVars, subVars, todo,
                   sent>>

\* The line goes to the log if the log is open and the write, whose error is
\* not looked at, works.  From here on it has its place in the order of the
\* bus.
WriteLog(p) == 
    /\ Serving /\ pst[p] = "write"
    /\ sent' = Append(sent, CurrentLine(p))
    /\ todo' = subs
    /\ \/ logF = "open" /\ cur' = Append(cur, CurrentLine(p))
       \/ (logF # "open" \/ "write" \in Faults) /\ UNCHANGED cur
    /\ pst' = [pst EXCEPT ![p] = IF logF = "open" /\ Len(cur') > MaxLog
                                 THEN "rotate" ELSE "fanout"]
    /\ UNCHANGED <<daemonVars, logF, old, pubQ, pubs, lineVars, subVars, mu>>

\* Close, rename to ".1" over the previous one, reopen; each may fail.
Rotate(p) == 
    /\ Serving /\ pst[p] = "rotate"
    /\ \/ old' = cur /\ cur' = <<>>
       \/ "rename" \in Faults /\ UNCHANGED <<old, cur>>
    /\ \/ logF' = "open"
       \/ "reopen" \in Faults /\ logF' = "nil"
    /\ pst' = [pst EXCEPT ![p] = "fanout"]
    /\ UNCHANGED <<daemonVars, pubQ, pubs, lineVars, subVars, castVars>>

SendTo(p, s) == 
    /\ Serving /\ pst[p] = "fanout" /\ s \in todo
    /\ s \notin left /\ InFlight(s) < SockCap
    /\ received' = [received EXCEPT ![s] = Append(@, CurrentLine(p))]
    /\ todo' = todo \ {s}
    /\ UNCHANGED <<daemonVars, logVars, pubVars, subQ, sst, subs, left, taken,
                   start, mu, sent>>

\* Mutations: a failed write ends the loop over b.subs; it leaves the
\* subscriber registered; there is no write deadline.
Drop_EndsLoop(p, s) == 
    /\ Serving /\ pst[p] = "fanout" /\ s \in todo
    /\ s \in left \/ InFlight(s) >= SockCap
    /\ subs' = subs \ {s} /\ sst' = [sst EXCEPT ![s] = "closed"]
    /\ todo' = {}
    /\ UNCHANGED <<daemonVars, logVars, pubVars, subQ, flowVars, mu, sent>>
Drop_Keeps(p, s) == 
    /\ Serving /\ pst[p] = "fanout" /\ s \in todo
    /\ s \in left \/ InFlight(s) >= SockCap
    /\ todo' = todo \ {s}
    /\ UNCHANGED <<daemonVars, logVars, pubVars, subVars, mu, sent>>
Drop_NoDeadline(p, s) == 
    /\ Serving /\ pst[p] = "fanout" /\ s \in todo /\ s \in left
    /\ subs' = subs \ {s} /\ sst' = [sst EXCEPT ![s] = "closed"]
    /\ todo' = todo \ {s}
    /\ UNCHANGED <<daemonVars, logVars, pubVars, subQ, flowVars, mu, sent>>

\* Write fails: the peer is gone, or its socket stayed full for 5 seconds.
Drop(p, s) == 
    /\ Serving /\ pst[p] = "fanout" /\ s \in todo
    /\ s \in left \/ InFlight(s) >= SockCap
    /\ subs' = subs \ {s}
    /\ sst' = [sst EXCEPT ![s] = "closed"]
    /\ todo' = todo \ {s}
    /\ UNCHANGED <<daemonVars, logVars, pubVars, subQ, flowVars, mu, sent>>

\* Mutation: no b.mu.Unlock().
Unlock_Forgotten(p) == 
    /\ Serving /\ pst[p] = "fanout" /\ todo = {}
    /\ pst' = [pst EXCEPT ![p] = "scan"]
    /\ UNCHANGED <<daemonVars, logVars, pubQ, pubs, lineVars, subVars,
                   castVars>>

Unlock(p) == 
    /\ Serving /\ pst[p] = "fanout" /\ todo = {}
    /\ mu' = NoOne
    /\ pst' = [pst EXCEPT ![p] = "scan"]
    /\ UNCHANGED <<daemonVars, logVars, pubQ, pubs, lineVars, subVars, todo,
                   sent>>

-----------------------------------------------------------------------------
(* The clients.                                                            *)

\* A dial succeeds as soon as the kernel queues the connection.
DialPub(p) == 
    /\ "pub" \in listening /\ pst[p] = "idle"
    /\ pubQ' = Append(pubQ, p)
    /\ pst' = [pst EXCEPT ![p] = "backlog"]
    /\ UNCHANGED <<daemonVars, logVars, pubs, lineVars, subVars, castVars>>

Publish(p) == 
    /\ pst[p] \notin {"idle", "done"} /\ p \notin hung \cup cut
    /\ written[p] < MaxLines
    /\ written' = [written EXCEPT ![p] = @ + 1]
    /\ UNCHANGED <<daemonVars, logVars, pubQ, pst, pubs, buffered, scanned,
                   hung, cut, subVars, castVars>>

HangUp(p) == 
    /\ pst[p] \notin {"idle", "done"} /\ p \notin hung
    /\ hung' = hung \cup {p}
    /\ UNCHANGED <<daemonVars, logVars, pubQ, pst, pubs, written, buffered,
                   scanned, cut, subVars, castVars>>

DialSub(s) == 
    /\ "sub" \in listening /\ sst[s] = "idle"
    /\ subQ' = Append(subQ, s)
    /\ sst' = [sst EXCEPT ![s] = "backlog"]
    /\ UNCHANGED <<daemonVars, logVars, pubVars, subs, flowVars, castVars>>

Receive(s) == 
    /\ s \notin left /\ InFlight(s) > 0
    /\ taken' = [taken EXCEPT ![s] = @ + 1]
    /\ UNCHANGED <<daemonVars, logVars, pubVars, subQ, sst, subs, left,
                   received, start, castVars>>

Leave(s) == 
    /\ sst[s] \notin {"idle", "closed"} /\ s \notin left
    /\ left' = left \cup {s}
    /\ UNCHANGED <<daemonVars, logVars, pubVars, subQ, sst, subs, received,
                   taken, start, castVars>>

-----------------------------------------------------------------------------
Broadcast(p) == \/ WriteLog(p) \/ Rotate(p) \/ Unlock(p)
                \/ \E s \in Subs : SendTo(p, s) \/ Drop(p, s)
Handle(p) == Fill(p) \/ Scan(p) \/ ScanEnds(p)
Process == Boot \/ BootFails \/ Exit \/ Crash \/ Restart
Stop == Signal \/ StopPubL \/ StopSubL \/ StopSweep \/ StopLog
PubClient(p) == DialPub(p) \/ Publish(p) \/ HangUp(p)
SubClient(s) == DialSub(s) \/ Receive(s) \/ Leave(s)

Next == 
    \/ Process \/ Stop
    \/ AcceptPub \/ AcceptSub \/ \E l \in listening : AcceptFails(l)
    \/ \E p \in Pubs : \/ RegisterPub(p) \/ Unregister(p) \/ Lock(p)
                       \/ Handle(p) \/ Broadcast(p) \/ PubClient(p)
    \/ \E s \in Subs : RegisterSub(s) \/ SubClient(s)

Spec == Init /\ [][Next]_vars

\* The scheduler runs every goroutine; a write's deadline passes (Drop is
\* part of Broadcast); sync.Mutex hands the lock to a starving waiter, so
\* whoever waits for it infinitely often finds it free and gets it.  The
\* clients promise nothing.
Fairness == 
    /\ WF_vars(Boot) /\ WF_vars(AcceptPub) /\ WF_vars(AcceptSub)
    /\ \A p \in Pubs : /\ WF_vars(Handle(p)) /\ WF_vars(Broadcast(p))
                       /\ SF_vars(RegisterPub(p)) /\ SF_vars(Unregister(p))
                       /\ SF_vars(Lock(p))
    /\ \A s \in Subs : SF_vars(RegisterSub(s))

FairSpec == Spec /\ Fairness

-----------------------------------------------------------------------------
(* Properties.                                                             *)

\* The type invariant of every variable above.
TypeOK == 
    /\ life \in {"boot", "serve", "exited", "failed"}
    /\ boots \in Nat
    /\ stopPc \in {"idle", "pubL", "subL", "sweep", "log", "done"}
    /\ listening \subseteq {"pub", "sub"} /\ deaf \subseteq {"pub", "sub"}
    /\ mu \in Pubs \cup {NoOne} /\ todo \subseteq Subs
    /\ sent \in Seq(Line) /\ cur \in Seq(Line) /\ old \in Seq(Line)
    /\ logF \in {"open", "nil", "closed"}
    /\ pubQ \in Seq(Pubs) /\ subQ \in Seq(Subs)
    /\ pst \in [Pubs -> PubState] /\ sst \in [Subs -> SubState]
    /\ pubs \subseteq Pubs /\ hung \subseteq Pubs /\ cut \subseteq Pubs
    /\ subs \subseteq Subs /\ left \subseteq Subs
    /\ written \in [Pubs -> 0..MaxLines]
    /\ buffered \in [Pubs -> 0..MaxLines] /\ scanned \in [Pubs -> 0..MaxLines]
    /\ \A p \in Pubs : /\ scanned[p] <= buffered[p]
                       /\ buffered[p] <= written[p]
                       /\ pst[p] \in {"have"} \cup Holding => scanned[p] > 0
    /\ received \in [Subs -> Seq(Line)]
    /\ start \in [Subs -> Nat] /\ taken \in [Subs -> Nat]

\* Every subscriber's stream is a stretch of the one order of the bus: from
\* the moment of its registration no line is lost, doubled or reordered,
\* whatever handlers, drops, Stop or crashes interleave with the fan-out.
SegmentOrder == 
    \A s \in Subs : 
      /\ start[s] + Len(received[s]) <= Len(sent)
      /\ \A i \in 1..Len(received[s]) : received[s][i] = sent[start[s] + i]

\* Why SegmentOrder and CaughtUp hold, and what the proofs need: one handler
\* at a time is in broadcast (Mutex); the line it writes is the last one
\* broadcast (Casting); only a broadcast leaves subscribers to write to
\* (Pending); whoever the loop over b.subs has not reached is exactly one
\* line behind and everybody else is level (Progress); nothing reaches a
\* connection before it is registered (Fresh), and an accept queue holds only
\* connections that wait in it, once (Queues).
Mutex == \A p \in Pubs : mu = p <=> pst[p] \in Holding
Casting == \A p \in Pubs : pst[p] \in {"rotate", "fanout"} => 
             Len(sent) > 0 /\ sent[Len(sent)] = CurrentLine(p)
Pending == /\ todo \subseteq subs
           /\ todo # {} => 
                \E p \in Pubs : mu = p /\ pst[p] \in {"rotate", "fanout"}
Progress == \A s \in subs : 
              start[s] + Len(received[s]) + (IF s \in todo THEN 1 ELSE 0)
                = Len(sent)
Fresh == \A s \in Subs : 
           /\ s \in subs <=> sst[s] = "in"
           /\ sst[s] \in {"idle", "backlog", "accepted"} => received[s] = <<>>
Queued(q, st) == 
  /\ \A i \in 1..Len(q) : st[q[i]] = "backlog"
  /\ \A i, j \in 1..Len(q) : q[i] = q[j] => i = j
Queues == Queued(pubQ, pst) /\ Queued(subQ, sst)

OrderInv == /\ TypeOK /\ Mutex /\ Casting /\ Pending /\ Progress /\ Fresh
            /\ Queues /\ SegmentOrder

\* When no broadcast holds b.mu, every registered subscriber has been
\* written all lines since it registered: nobody is skipped by the loop over
\* b.subs or by a registration that meets a broadcast.
CaughtUp == mu = NoOne => 
    \A s \in subs : start[s] + Len(received[s]) = Len(sent)

\* One connection's lines are broadcast in the order they were written,
\* none twice and none skipped (handlePub is the only reader of its
\* connection, and a line is broadcast before the next one is scanned).
PublisherFifo == 
    \A i \in 1..Len(sent) : 
      /\ \A j \in 1..(i - 1) : sent[j] # sent[i]
      /\ sent[i][2] > 1 => 
           \E j \in 1..(i - 1) : sent[j] = <<sent[i][1], sent[i][2] - 1>>

\* As long as every write, and every reopen after a rotation, worked and Stop
\* has not closed the log, the two files are the end of the broadcast order,
\* with no hole, across rotations, failed renames, crashes and restarts, and
\* they hold at least the last MaxLog + 1 lines.
Files == old \o cur
Ends(q, end) == 
    /\ Len(end) <= Len(q)
    /\ \A i \in 1..Len(end) : end[i] = q[Len(q) - Len(end) + i]
LogSuffix == 
    (Faults \cap {"write", "reopen"} = {} /\ stopPc # "done") => 
      Ends(sent, Files) /\ (Len(Files) = Len(sent) \/ Len(Files) > MaxLog)

\* The bus implements the abstract broadcast log.
Phase(s) == IF s \in subs THEN "in"
            ELSE IF sst[s] = "closed" THEN "left" ELSE "out"
BL == INSTANCE BroadcastLog 
        WITH Reader <- Subs, phase <- [s \in Subs |-> Phase(s)]
ImplementsLog == BL!BSpec

\* A subscriber that stops reading cannot keep the mutex from the others:
\* every broadcast ends (the write deadline drops the stalled reader).
BroadcastEnds == \A p \in Pubs : mu = p ~> mu # p

\* A written line is eventually broadcast, on disk or not, unless the daemon
\* stops or fails, an over-long line ended the connection at or before it, or
\* an error ended the loop that had still to accept the connection.
LineIsBroadcast == 
    \A p \in Pubs : \A n \in 1..MaxLines : 
      written[p] >= n ~> 
        \/ \E i \in 1..Len(sent) : sent[i] = <<p, n>>
        \/ ~Serving \/ stopPc # "idle" 
        \/ "pub" \in deaf /\ pst[p] = "backlog"
        \/ \E k \in 1..n : <<p, k>> \in TooLong
=============================================================================
