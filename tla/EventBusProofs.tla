-------------------------- MODULE EventBusProofs --------------------------
(***************************************************************************)
(* Proofs about EventBus for any number of connections, any bounds and any *)
(* set of faults: types, the order every subscriber sees, that the bus     *)
(* implements BroadcastLog, the order in which one connection's lines are  *)
(* broadcast, and the two files of the log.                                *)
(***************************************************************************)
EXTENDS EventBus, SequenceTheorems, TLAPS

USE NoOneAssumption, BoundsAssumption

(* Type correctness, one step per action.                                  *)

LEMMA InitType == Init => TypeOK
  BY DEF Init, TypeOK, PubState, SubState, Holding

\* TypeOK in three parts, so that a step need only be followed in the part
\* it changes.
DaemonType == 
    /\ life \in {"boot", "serve", "exited", "failed"}
    /\ boots \in Nat
    /\ stopPc \in {"idle", "pubL", "subL", "sweep", "log", "done"}
    /\ listening \subseteq {"pub", "sub"} /\ deaf \subseteq {"pub", "sub"}
    /\ mu \in Pubs \cup {NoOne} /\ todo \subseteq Subs
    /\ sent \in Seq(Line) /\ cur \in Seq(Line) /\ old \in Seq(Line)
    /\ logF \in {"open", "nil", "closed"}
PubType == 
    /\ pubQ \in Seq(Pubs) /\ pst \in [Pubs -> PubState]
    /\ pubs \subseteq Pubs /\ hung \subseteq Pubs /\ cut \subseteq Pubs
    /\ written \in [Pubs -> 0..MaxLines]
    /\ buffered \in [Pubs -> 0..MaxLines] /\ scanned \in [Pubs -> 0..MaxLines]
    /\ \A p \in Pubs : /\ scanned[p] <= buffered[p]
                       /\ buffered[p] <= written[p]
                       /\ pst[p] \in {"have"} \cup Holding => scanned[p] > 0
SubType == 
    /\ subQ \in Seq(Subs) /\ sst \in [Subs -> SubState]
    /\ subs \subseteq Subs /\ left \subseteq Subs
    /\ received \in [Subs -> Seq(Line)]
    /\ start \in [Subs -> Nat] /\ taken \in [Subs -> Nat]

LEMMA TypeParts == 
  /\ TypeOK => DaemonType /\ PubType /\ SubType
  /\ DaemonType' /\ PubType' /\ SubType' => TypeOK'
  BY DEF TypeOK, DaemonType, PubType, SubType

LEMMA DaemonFrame == 
  DaemonType /\ UNCHANGED <<daemonVars, logVars, castVars>> => DaemonType'
  BY DEF DaemonType, daemonVars, logVars, castVars
LEMMA PubFrame == PubType /\ UNCHANGED pubVars => PubType'
  BY DEF PubType, pubVars, lineVars
LEMMA SubFrame == SubType /\ UNCHANGED subVars => SubType'
  BY DEF SubType, subVars, flowVars

\* A handler that moves on without having read a line keeps its type.
LEMMA HandlerMoves == 
  ASSUME PubType, NEW p \in Pubs, NEW to \in PubState,
         to \notin {"have"} \cup Holding,
         pst' = [pst EXCEPT ![p] = to], UNCHANGED lineVars,
         pubQ' \in Seq(Pubs), pubs' \subseteq Pubs
  PROVE  PubType'
  <1>1. pst' \in [Pubs -> PubState]
    BY DEF PubType
  <1>2. \A q \in Pubs : pst'[q] \in {"have"} \cup Holding => scanned[q] > 0
    <2> SUFFICES ASSUME NEW q \in Pubs, pst'[q] \in {"have"} \cup Holding
                 PROVE  scanned[q] > 0
      OBVIOUS
    <2>1. q # p /\ pst'[q] = pst[q]
      BY DEF PubType
    <2> QED BY <2>1 DEF PubType
  <1> QED BY <1>1, <1>2 DEF PubType, lineVars

\* So does one that has, and goes on to broadcast it.
LEMMA HolderMoves == 
  ASSUME PubType, NEW p \in Pubs, NEW to \in PubState,
         pst[p] \in {"have"} \cup Holding, pst' = [pst EXCEPT ![p] = to],
         UNCHANGED <<lineVars, pubQ, pubs>>
  PROVE  PubType'
  BY DEF PubType, lineVars

\* What a broadcast does to the program counters when it has written its line.
LEMMA WriteStep == 
  ASSUME TypeOK, NEW p \in Pubs, WriteLog(p)
  PROVE  /\ pst[p] = "write" /\ todo' = subs
         /\ sent' = Append(sent, CurrentLine(p))
         /\ UNCHANGED <<life, stopPc, logF, old, scanned, mu, subs, pubQ>>
         /\ pst'[p] \in {"rotate", "fanout"}
         /\ \A q \in Pubs \ {p} : pst'[q] = pst[q]
  <1>1. PICK to \in {"rotate", "fanout"} : pst' = [pst EXCEPT ![p] = to]
    BY DEF WriteLog
  <1>2. pst \in [Pubs -> PubState]
    BY DEF TypeOK
  <1>3. /\ pst'[p] \in {"rotate", "fanout"}
        /\ \A q \in Pubs \ {p} : pst'[q] = pst[q]
    BY <1>1, <1>2
  <1> QED BY <1>3 DEF WriteLog, daemonVars, lineVars, subVars

\* An accept loop that ends changes nothing else.
LEMMA AcceptFailsFrame == 
  ASSUME NEW l \in listening, AcceptFails(l)
  PROVE  /\ UNCHANGED <<life, boots, stopPc, listening, mu, todo, sent, logF,
                       cur, old, pubVars, subVars>>
         /\ deaf' = deaf \cup {l}
  BY DEF AcceptFails, logVars, castVars

LEMMA AcceptFailsType == 
  ASSUME TypeOK, NEW l \in listening, AcceptFails(l) PROVE TypeOK'
  <1>1. DaemonType'
    BY AcceptFailsFrame DEF TypeOK, DaemonType
  <1>2. PubType' /\ SubType'
    BY AcceptFailsFrame, TypeParts, PubFrame, SubFrame
  <1> QED BY <1>1, <1>2, TypeParts

LEMMA ProcessType == TypeOK /\ (Process \/ Stop) => TypeOK'
  <1> SUFFICES ASSUME TypeOK, Process \/ Stop PROVE TypeOK'
    OBVIOUS
  <1>1. DaemonType /\ PubType /\ SubType
    BY TypeParts
  <1>2. DaemonType'
    BY <1>1 DEF Process, Stop, Boot, BootFails, Exit, Crash, ProcessGone, 
                Restart, Signal, StopPubL, StopSubL, StopSweep, StopLog, 
                DaemonType, logVars, castVars
  <1>3. CASE Boot \/ BootFails \/ Restart \/ Signal \/ StopLog
    <2>1. UNCHANGED <<pubVars, subVars>>
      BY <1>3 DEF Boot, BootFails, Restart, Signal, StopLog
    <2> QED BY <1>1, <1>2, <2>1, TypeParts, PubFrame, SubFrame
  <1>4. CASE ProcessGone
    <2>1. PubType'
      BY <1>1, <1>4 DEF ProcessGone, PubType, PubState, Holding, lineVars
    <2>2. SubType'
      BY <1>1, <1>4 DEF ProcessGone, SubType, SubState
    <2> QED BY <1>2, <2>1, <2>2, TypeParts
  <1>5. CASE StopPubL
    <2>1. PubType'
      BY <1>1, <1>5 DEF StopPubL, PubType, PubState, Holding, lineVars
    <2>2. SubType'
      BY <1>1, <1>5, SubFrame DEF StopPubL
    <2> QED BY <1>2, <2>1, <2>2, TypeParts
  <1>6. CASE StopSubL
    <2>1. SubType'
      BY <1>1, <1>6 DEF StopSubL, SubType, SubState, flowVars
    <2>2. PubType'
      BY <1>1, <1>6, PubFrame DEF StopSubL
    <2> QED BY <1>2, <2>1, <2>2, TypeParts
  <1>7. CASE StopSweep
    <2>1. PubType'
      BY <1>1, <1>7 DEF StopSweep, PubType
    <2>2. SubType'
      BY <1>1, <1>7 DEF StopSweep, SubType, SubState, flowVars
    <2> QED BY <1>2, <2>1, <2>2, TypeParts
  <1> QED BY <1>3, <1>4, <1>5, <1>6, <1>7 DEF Process, Stop, Exit, Crash

LEMMA HandlerType == 
  ASSUME TypeOK, NEW p \in Pubs,
         RegisterPub(p) \/ Unregister(p) \/ Lock(p) \/ Handle(p)
  PROVE  TypeOK'
  <1>1. DaemonType /\ PubType /\ SubType
    BY TypeParts
  <1>2. DaemonType'
    <2>1. CASE Lock(p)
      BY <1>1, <2>1 DEF Lock, DaemonType, daemonVars, logVars
    <2>2. CASE ~Lock(p)
      BY <1>1, <2>2, DaemonFrame DEF RegisterPub, Unregister, Handle, Fill, 
                                     Scan, ScanEnds
    <2> QED BY <2>1, <2>2
  <1>3. SubType'
    BY <1>1, SubFrame DEF RegisterPub, Unregister, Lock, Handle, Fill, Scan, 
                          ScanEnds
  <1>4. PubType'
    <2>1. pubQ \in Seq(Pubs) /\ pubs \subseteq Pubs
      BY <1>1 DEF PubType
    <2>2. CASE RegisterPub(p)
      BY <1>1, <2>1, <2>2, HandlerMoves DEF RegisterPub, PubState, Holding
    <2>3. CASE Unregister(p)
      BY <1>1, <2>1, <2>3, HandlerMoves DEF Unregister, PubState, Holding
    <2>4. CASE ScanEnds(p)
      BY <1>1, <2>1, <2>4, HandlerMoves DEF ScanEnds, PubState, Holding
    <2>5. CASE Lock(p)
      BY <1>1, <2>5, HolderMoves DEF Lock, PubState, Holding
    <2>6. CASE Fill(p)
      <3>1. PICK n \in (buffered[p] + 1)..written[p] : 
              buffered' = [buffered EXCEPT ![p] = n]
        BY <2>6 DEF Fill
      <3>2. n \in 0..MaxLines /\ scanned[p] <= n /\ n <= written[p]
        BY <1>1, <2>6, <3>1 DEF Fill, PubType
      <3> QED BY <1>1, <2>6, <3>1, <3>2 DEF Fill, PubType
    <2>7. CASE Scan(p)
      <3>1. scanned[p] + 1 \in 1..MaxLines /\ scanned[p] + 1 <= buffered[p]
        BY <1>1, <2>7 DEF Scan, PubType
      <3> QED BY <1>1, <2>7, <3>1 DEF Scan, PubType, PubState, Holding
    <2> QED BY <2>2, <2>3, <2>4, <2>5, <2>6, <2>7 DEF Handle
  <1> QED BY <1>2, <1>3, <1>4, TypeParts

LEMMA BroadcastType == 
  ASSUME TypeOK, NEW p \in Pubs, Broadcast(p)
  PROVE  TypeOK'
  <1>1. DaemonType /\ PubType /\ SubType
    BY TypeParts
  <1>2. pst[p] \in Holding => CurrentLine(p) \in Line
    <2> SUFFICES ASSUME pst[p] \in Holding PROVE scanned[p] \in 1..MaxLines
      BY DEF CurrentLine, Line
    <2> QED BY <1>1 DEF PubType
  <1>3. CASE WriteLog(p)
    <2>1. CurrentLine(p) \in Line
      BY <1>2, <1>3 DEF WriteLog, Holding
    <2>2. sent' \in Seq(Line) /\ cur' \in Seq(Line) /\ todo' \subseteq Subs
      <3>1. /\ Append(sent, CurrentLine(p)) \in Seq(Line)
            /\ Append(cur, CurrentLine(p)) \in Seq(Line) /\ cur \in Seq(Line)
        BY <1>1, <2>1 DEF DaemonType
      <3>2. cur' = Append(cur, CurrentLine(p)) \/ cur' = cur
        BY <1>3 DEF WriteLog
      <3> QED BY <1>1, <1>3, <3>1, <3>2 DEF WriteLog, SubType
    <2>3. DaemonType'
      BY <1>1, <1>3, <2>2 DEF WriteLog, DaemonType, daemonVars
    <2>4. PubType'
      BY <1>1, <1>3, HolderMoves DEF WriteLog, PubState, Holding
    <2> QED BY <1>1, <1>3, <2>3, <2>4, SubFrame, TypeParts DEF WriteLog
  <1>4. CASE Rotate(p)
    <2>1. <<>> \in Seq(Line)
      OBVIOUS
    <2>2. DaemonType'
      BY <1>1, <1>4, <2>1 DEF Rotate, DaemonType, daemonVars, castVars
    <2>3. PubType'
      BY <1>1, <1>4, HolderMoves DEF Rotate, PubState, Holding
    <2> QED BY <1>1, <1>4, <2>2, <2>3, SubFrame, TypeParts DEF Rotate
  <1>5. CASE Unlock(p)
    <2>1. DaemonType'
      BY <1>1, <1>5 DEF Unlock, DaemonType, daemonVars, logVars
    <2>2. PubType'
      BY <1>1, <1>5, HolderMoves DEF Unlock, PubState, Holding
    <2> QED BY <1>1, <1>5, <2>1, <2>2, SubFrame, TypeParts DEF Unlock
  <1>6. ASSUME NEW s \in Subs, SendTo(p, s) PROVE TypeOK'
    <2>1. CurrentLine(p) \in Line
      BY <1>2, <1>6 DEF SendTo, Holding
    <2>2. DaemonType'
      BY <1>1, <1>6 DEF SendTo, DaemonType, daemonVars, logVars
    <2>3. SubType'
      BY <1>1, <1>6, <2>1 DEF SendTo, SubType
    <2> QED BY <1>1, <1>6, <2>2, <2>3, PubFrame, TypeParts DEF SendTo
  <1>7. ASSUME NEW s \in Subs, Drop(p, s) PROVE TypeOK'
    <2>1. DaemonType'
      BY <1>1, <1>7 DEF Drop, DaemonType, daemonVars, logVars
    <2>2. SubType'
      BY <1>1, <1>7 DEF Drop, SubType, SubState, flowVars
    <2> QED BY <1>1, <1>7, <2>1, <2>2, PubFrame, TypeParts DEF Drop
  <1> QED BY <1>3, <1>4, <1>5, <1>6, <1>7 DEF Broadcast

LEMMA ClientType == 
  ASSUME TypeOK,
         \/ AcceptPub \/ AcceptSub
         \/ \E p \in Pubs : PubClient(p)
         \/ \E s \in Subs : RegisterSub(s) \/ SubClient(s)
  PROVE  TypeOK'
  <1>1. DaemonType /\ PubType /\ SubType
    BY TypeParts
  <1>2. DaemonType'
    BY <1>1, DaemonFrame DEF AcceptPub, AcceptSub, PubClient, DialPub, 
         Publish, HangUp, RegisterSub, SubClient, DialSub, Receive, Leave
  <1>3. CASE AcceptPub
    <2>1. Head(pubQ) \in Pubs /\ Tail(pubQ) \in Seq(Pubs)
      BY <1>1, <1>3 DEF AcceptPub, PubType
    <2>2. PubType'
      BY <1>1, <1>3, <2>1, HandlerMoves 
         DEF AcceptPub, PubType, PubState, Holding
    <2> QED BY <1>1, <1>2, <1>3, <2>2, SubFrame, TypeParts DEF AcceptPub
  <1>4. CASE AcceptSub
    <2>1. Head(subQ) \in Subs /\ Tail(subQ) \in Seq(Subs)
      BY <1>1, <1>4 DEF AcceptSub, SubType
    <2>2. SubType'
      BY <1>1, <1>4, <2>1 DEF AcceptSub, SubType, SubState, flowVars
    <2> QED BY <1>1, <1>2, <1>4, <2>2, PubFrame, TypeParts DEF AcceptSub
  <1>5. ASSUME NEW p \in Pubs, PubClient(p) PROVE TypeOK'
    <2>1. CASE DialPub(p)
      <3>1. pubQ' \in Seq(Pubs) /\ pubs' \subseteq Pubs
        BY <1>1, <2>1 DEF DialPub, PubType
      <3> QED BY <1>1, <1>2, <2>1, <3>1, HandlerMoves, SubFrame, TypeParts 
              DEF DialPub, PubState, Holding
    <2>2. CASE Publish(p)
      <3>1. written[p] + 1 \in 0..MaxLines
        BY <1>1, <2>2, BoundsAssumption DEF Publish, PubType
      <3>2. PubType'
        BY <1>1, <2>2, <3>1 DEF Publish, PubType
      <3> QED BY <1>1, <1>2, <2>2, <3>2, SubFrame, TypeParts DEF Publish
    <2>3. CASE HangUp(p)
      <3>1. PubType'
        BY <1>1, <2>3 DEF HangUp, PubType
      <3> QED BY <1>1, <1>2, <2>3, <3>1, SubFrame, TypeParts DEF HangUp
    <2> QED BY <1>5, <2>1, <2>2, <2>3 DEF PubClient
  <1>6. ASSUME NEW s \in Subs, RegisterSub(s) \/ SubClient(s) PROVE TypeOK'
    <2>1. sent \in Seq(Line) /\ Len(sent) \in Nat
      BY <1>1 DEF DaemonType
    <2>2. SubType'
      <3>1. CASE RegisterSub(s)
        BY <1>1, <2>1, <3>1 DEF RegisterSub, SubType, SubState
      <3>2. CASE DialSub(s)
        BY <1>1, <3>2 DEF DialSub, SubType, SubState, flowVars
      <3>3. CASE Receive(s)
        BY <1>1, <3>3 DEF Receive, SubType
      <3>4. CASE Leave(s)
        BY <1>1, <3>4 DEF Leave, SubType
      <3> QED BY <1>6, <3>1, <3>2, <3>3, <3>4 DEF SubClient
    <2>3. PubType'
      BY <1>1, <1>6, PubFrame DEF RegisterSub, SubClient, DialSub, Receive, 
                                  Leave
    <2> QED BY <1>2, <2>2, <2>3, TypeParts
  <1> QED BY <1>3, <1>4, <1>5, <1>6

\* Every variable of the daemon, its sockets and its files keeps its type.
THEOREM TypeCorrect == Spec => []TypeOK
  <1>1. TypeOK /\ [Next]_vars => TypeOK'
    <2>1. CASE UNCHANGED vars
      BY <2>1 DEF vars, TypeOK, daemonVars, logVars, pubVars, lineVars,
                  subVars, flowVars, castVars
    <2> QED BY <2>1, ProcessType, HandlerType, BroadcastType, ClientType,
               AcceptFailsType DEF Next
  <1> QED BY InitType, <1>1, PTL DEF Spec

-----------------------------------------------------------------------------
(* The order of the bus: OrderInv is inductive.  First what an accept      *)
(* queue keeps, and which changes leave each conjunct alone.               *)

LEMMA QueuedFrame == 
  ASSUME NEW S, NEW q \in Seq(S), NEW st, NEW st2, Queued(q, st),
         \A x \in S : st[x] = "backlog" => st2[x] = "backlog"
  PROVE  Queued(q, st2)
  BY DEF Queued

LEMMA QueuedAppend == 
  ASSUME NEW S, NEW q \in Seq(S), NEW st, NEW st2, Queued(q, st),
         NEW x \in S, st[x] # "backlog", st2[x] = "backlog",
         \A y \in S \ {x} : st2[y] = st[y]
  PROVE  Queued(Append(q, x), st2)
  <1>1. \A i \in 1..Len(q) : q[i] \in S /\ q[i] # x
    BY DEF Queued
  <1> QED BY <1>1 DEF Queued

LEMMA QueuedTail == 
  ASSUME NEW S, NEW q \in Seq(S), NEW st, NEW st2, Queued(q, st), q # <<>>,
         \A y \in S \ {Head(q)} : st2[y] = st[y]
  PROVE  Queued(Tail(q), st2) /\ Head(q) \in S /\ st[Head(q)] = "backlog"
  <1>1. \A i \in 1..Len(Tail(q)) : /\ i + 1 \in 1..Len(q) 
                                  /\ Tail(q)[i] = q[i + 1]
    OBVIOUS
  <1>2. \A i \in 1..Len(q) : q[i] \in S
    OBVIOUS
  <1>3. Head(q) = q[1] /\ 1 \in 1..Len(q)
    OBVIOUS
  <1>4. \A i \in 1..Len(Tail(q)) : Tail(q)[i] # Head(q)
    BY <1>1, <1>3 DEF Queued
  <1>5. \A i \in 1..Len(Tail(q)) : st2[Tail(q)[i]] = "backlog"
    BY <1>1, <1>2, <1>4 DEF Queued
  <1>6. \A i, j \in 1..Len(Tail(q)) : Tail(q)[i] = Tail(q)[j] => i = j
    BY <1>1 DEF Queued
  <1> QED BY <1>2, <1>3, <1>5, <1>6 DEF Queued

LEMMA QueuedEmpty == ASSUME NEW st PROVE Queued(<<>>, st)
  BY DEF Queued

\* A step outside broadcast: it changes no handler that holds b.mu.
LEMMA CastFrame == 
  ASSUME UNCHANGED <<mu, todo, sent, subs>>,
         \A p \in Pubs : 
           \/ pst'[p] = pst[p] /\ scanned'[p] = scanned[p]
           \/ pst[p] \notin Holding /\ pst'[p] \notin Holding
  PROVE  /\ Mutex => Mutex'
         /\ Casting => Casting'
         /\ Pending => Pending'
  BY DEF Mutex, Casting, Pending, Holding, CurrentLine

\* A step that writes to no subscriber and registers none.
LEMMA StreamFrame == 
  ASSUME UNCHANGED <<todo, sent, subs, received, start>>
  PROVE  /\ Progress => Progress'
         /\ SegmentOrder => SegmentOrder'
         /\ UNCHANGED sst => (Fresh => Fresh')
  BY DEF Progress, SegmentOrder, Fresh

-----------------------------------------------------------------------------
(* One step per action; TypeOK' comes from the lemmas above.               *)

LEMMA ProcessOrder == 
  ASSUME OrderInv, TypeOK', Process \/ Stop PROVE OrderInv'
  <1> USE DEF OrderInv, Queues, daemonVars, logVars, pubVars, lineVars,
              subVars, flowVars, castVars
  <1>1. CASE Boot BY <1>1, CastFrame, StreamFrame DEF Boot
  <1>2. CASE BootFails BY <1>2, CastFrame, StreamFrame DEF BootFails
  <1>3. ASSUME ProcessGone PROVE OrderInv'
    <2>1. Mutex' /\ Casting'
      BY <1>3 DEF ProcessGone, Mutex, Casting, Holding
    <2>2. Pending' /\ Progress' /\ SegmentOrder'
      BY <1>3 DEF ProcessGone, Pending, Progress, SegmentOrder
    <2>3. Fresh'
      BY <1>3 DEF ProcessGone, Fresh
    <2>4. Queued(pubQ', pst') /\ Queued(subQ', sst')
      BY <1>3, QueuedEmpty DEF ProcessGone
    <2> QED BY <2>1, <2>2, <2>3, <2>4
  <1>4. CASE Exit BY <1>4, <1>3 DEF Exit
  <1>5. CASE Crash BY <1>5, <1>3 DEF Crash
  <1>6. CASE Restart BY <1>6, CastFrame, StreamFrame DEF Restart
  <1>7. CASE Signal BY <1>7, CastFrame, StreamFrame DEF Signal
  <1>8. CASE StopPubL
    <2>1. Mutex' /\ Casting' /\ Pending'
      BY <1>8, CastFrame DEF StopPubL, TypeOK, Holding
    <2>2. Queued(pubQ', pst')
      BY <1>8, QueuedEmpty DEF StopPubL
    <2> QED BY <1>8, <2>1, <2>2, StreamFrame DEF StopPubL
  <1>9. CASE StopSubL
    <2>1. Fresh'
      BY <1>9 DEF StopSubL, Fresh, TypeOK
    <2>2. Queued(subQ', sst')
      BY <1>9, QueuedEmpty DEF StopSubL
    <2> QED BY <1>9, <2>1, <2>2, StreamFrame, CastFrame DEF StopSubL
  <1>10. CASE StopSweep
    <2>1. todo = {}
      BY <1>10, NoOneAssumption DEF StopSweep, Pending
    <2>2. Mutex' /\ Casting'
      BY <1>10 DEF StopSweep, Mutex, Casting, CurrentLine
    <2>3. Pending' /\ Progress' /\ SegmentOrder'
      BY <1>10, <2>1 DEF StopSweep, Pending, Progress, SegmentOrder
    <2>4. Fresh'
      BY <1>10 DEF StopSweep, Fresh, TypeOK
    <2>5. \A s \in Subs : sst[s] = "backlog" => sst'[s] = "backlog"
      BY <1>10 DEF StopSweep, Fresh
    <2>6. Queued(subQ, sst')
      BY <2>5, QueuedFrame DEF TypeOK
    <2> QED BY <1>10, <2>2, <2>3, <2>4, <2>6 DEF StopSweep
  <1>11. CASE StopLog BY <1>11, CastFrame, StreamFrame DEF StopLog
  <1> QED BY <1>1, <1>2, <1>4, <1>5, <1>6, <1>7, <1>8, <1>9, <1>10, <1>11
          DEF Process, Stop

LEMMA HandlerOrder == 
  ASSUME OrderInv, TypeOK', NEW p \in Pubs,
         RegisterPub(p) \/ Unregister(p) \/ Handle(p) \/ Lock(p)
  PROVE  OrderInv'
  <1> USE DEF OrderInv, Queues, daemonVars, logVars, pubVars, lineVars,
              subVars, flowVars, castVars
  <1>1. ASSUME \A q \in Pubs : pst[q] = "backlog" => pst'[q] = "backlog",
               UNCHANGED pubQ
        PROVE  Queued(pubQ', pst')
    <2>1. pubQ \in Seq(Pubs) /\ Queued(pubQ, pst)
      BY DEF TypeOK
    <2> QED BY <1>1, <2>1, QueuedFrame
  <1>2. CASE RegisterPub(p)
    <2>1. Mutex' /\ Casting' /\ Pending'
      BY <1>2, CastFrame DEF RegisterPub, TypeOK, Holding
    <2>2. Queued(pubQ', pst')
      BY <1>2, <1>1 DEF RegisterPub, TypeOK
    <2> QED BY <1>2, <2>1, <2>2, StreamFrame DEF RegisterPub
  <1>3. CASE Unregister(p)
    <2>1. Mutex' /\ Casting' /\ Pending'
      BY <1>3, CastFrame DEF Unregister, TypeOK, Holding
    <2>2. Queued(pubQ', pst')
      BY <1>3, <1>1 DEF Unregister, TypeOK
    <2> QED BY <1>3, <2>1, <2>2, StreamFrame DEF Unregister
  <1>4. CASE Fill(p)
    <2>1. Mutex' /\ Casting' /\ Pending'
      BY <1>4, CastFrame DEF Fill, TypeOK, Holding
    <2>2. Queued(pubQ', pst')
      BY <1>4, <1>1 DEF Fill, TypeOK
    <2> QED BY <1>4, <2>1, <2>2, StreamFrame DEF Fill
  <1>5. CASE Scan(p)
    <2>1. Mutex' /\ Casting' /\ Pending'
      BY <1>5, CastFrame DEF Scan, TypeOK, Holding
    <2>2. Queued(pubQ', pst')
      BY <1>5, <1>1 DEF Scan, TypeOK
    <2> QED BY <1>5, <2>1, <2>2, StreamFrame DEF Scan
  <1>6. CASE ScanEnds(p)
    <2>1. Mutex' /\ Casting' /\ Pending'
      BY <1>6, CastFrame DEF ScanEnds, TypeOK, Holding
    <2>2. Queued(pubQ', pst')
      BY <1>6, <1>1 DEF ScanEnds, TypeOK
    <2> QED BY <1>6, <2>1, <2>2, StreamFrame DEF ScanEnds
  <1>7. CASE Lock(p)
    <2>1. Mutex'
      BY <1>7 DEF Lock, Mutex, Holding, TypeOK
    <2>2. Casting'
      BY <1>7 DEF Lock, Casting, CurrentLine, TypeOK
    <2>3. Pending'
      BY <1>7, NoOneAssumption DEF Lock, Pending
    <2>4. Queued(pubQ', pst')
      BY <1>7, <1>1 DEF Lock, TypeOK
    <2> QED BY <1>7, <2>1, <2>2, <2>3, <2>4, StreamFrame DEF Lock
  <1> QED BY <1>2, <1>3, <1>4, <1>5, <1>6, <1>7 DEF Handle

LEMMA BroadcastOrder == 
  ASSUME OrderInv, TypeOK', NEW p \in Pubs, Broadcast(p)
  PROVE  OrderInv'
  <1> USE DEF OrderInv, Queues, daemonVars, logVars, pubVars, lineVars,
              subVars, flowVars, castVars
  <1>1. ASSUME \A q \in Pubs : pst[q] = "backlog" => pst'[q] = "backlog",
               UNCHANGED pubQ
        PROVE  Queued(pubQ', pst')
    <2>1. pubQ \in Seq(Pubs) /\ Queued(pubQ, pst)
      BY DEF TypeOK
    <2> QED BY <1>1, <2>1, QueuedFrame
  <1>2. ASSUME pst[p] \in Holding
        PROVE  mu = p /\ \A q \in Pubs : q # p => pst[q] \notin Holding
    BY <1>2 DEF Mutex
  <1>3. CASE WriteLog(p)
    <2>1. mu = p /\ \A q \in Pubs : q # p => pst[q] \notin Holding
      BY <1>2, <1>3 DEF WriteLog, Holding
    <2>2. todo = {}
      BY <1>3, <2>1 DEF WriteLog, Pending
    <2>3. Mutex'
      BY <1>3, <2>1 DEF WriteLog, Mutex, Holding, TypeOK
    <2>4. Casting'
      <3>1. Len(sent') = Len(sent) + 1 /\ sent'[Len(sent')] = CurrentLine(p)
        BY <1>3 DEF WriteLog, TypeOK
      <3> QED BY <1>3, <2>1, <3>1 DEF WriteLog, Casting, Holding, CurrentLine,
                                      TypeOK
    <2>5. Pending'
      <3>1. todo' = subs' /\ mu' = p /\ pst'[p] \in {"rotate", "fanout"}
        BY <1>3, <2>1, WriteStep
      <3> QED BY <3>1 DEF Pending
    <2>6. Progress'
      <3>1. /\ todo' = subs /\ Len(sent') = Len(sent) + 1
            /\ UNCHANGED <<subs, start, received>>
        BY <1>3 DEF WriteLog, TypeOK
      <3>2. /\ Len(sent) \in Nat
            /\ \A s \in subs : start[s] \in Nat /\ Len(received[s]) \in Nat
        <4>1. sent \in Seq(Line) /\ start \in [Subs -> Nat] /\ subs \subseteq Subs
          BY DEF TypeOK
        <4>2. \A s \in Subs : received[s] \in Seq(Line)
          BY DEF TypeOK
        <4> QED BY <4>1, <4>2
      <3>3. \A s \in subs : start[s] + Len(received[s]) = Len(sent)
        BY <2>2, <3>2 DEF Progress
      <3> QED BY <3>1, <3>2, <3>3 DEF Progress
    <2>7. SegmentOrder'
      <3>1. /\ Len(sent') = Len(sent) + 1
            /\ \A i \in 1..Len(sent) : sent'[i] = sent[i]
        BY <1>3 DEF WriteLog, TypeOK
      <3>2. /\ Len(sent) \in Nat
            /\ \A s \in Subs : start[s] \in Nat /\ Len(received[s]) \in Nat
        <4>1. sent \in Seq(Line) /\ start \in [Subs -> Nat]
          BY DEF TypeOK
        <4>2. \A s \in Subs : received[s] \in Seq(Line)
          BY DEF TypeOK
        <4> QED BY <4>1, <4>2
      <3>3. UNCHANGED <<start, received>>
        BY <1>3 DEF WriteLog
      <3>4. ASSUME NEW s \in Subs 
            PROVE  /\ start'[s] + Len(received'[s]) =< Len(sent')
                   /\ \A i \in 1..Len(received'[s]) : 
                        received'[s][i] = sent'[start'[s] + i]
        <4>1. /\ start[s] + Len(received[s]) =< Len(sent)
              /\ \A i \in 1..Len(received[s]) : 
                   received[s][i] = sent[start[s] + i]
          BY <3>4 DEF SegmentOrder
        <4>2. start'[s] = start[s] /\ received'[s] = received[s]
          BY <3>3
        <4>3. start'[s] + Len(received'[s]) =< Len(sent')
          BY <3>1, <3>2, <4>1, <4>2
        <4>4. ASSUME NEW i \in 1..Len(received[s])
              PROVE  received[s][i] = sent'[start[s] + i]
          <5>1. start[s] + i \in 1..Len(sent)
            BY <3>2, <4>1
          <5> QED BY <3>1, <4>1, <5>1
        <4> QED BY <4>2, <4>3, <4>4
      <3> QED BY <3>4 DEF SegmentOrder
    <2>8. Queued(pubQ', pst')
      BY <1>1, <1>3 DEF WriteLog, TypeOK
    <2>9. Fresh'
      BY <1>3 DEF WriteLog, Fresh
    <2> QED BY <1>3, <2>3, <2>4, <2>5, <2>6, <2>7, <2>8, <2>9 DEF WriteLog
  <1>4. CASE Rotate(p)
    <2>1. Mutex'
      BY <1>4 DEF Rotate, Mutex, Holding, TypeOK
    <2>2. Casting'
      BY <1>4 DEF Rotate, Casting, CurrentLine, TypeOK
    <2>3. Pending'
      BY <1>4 DEF Rotate, Pending, TypeOK
    <2>4. Queued(pubQ', pst')
      BY <1>1, <1>4 DEF Rotate, TypeOK
    <2> QED BY <1>4, <2>1, <2>2, <2>3, <2>4, StreamFrame DEF Rotate
  <1>5. CASE Unlock(p)
    <2>1. mu = p /\ \A q \in Pubs : q # p => pst[q] \notin Holding
      BY <1>2, <1>5 DEF Unlock, Holding
    <2>2. Mutex'
      BY <1>5, <2>1, NoOneAssumption DEF Unlock, Mutex, Holding, TypeOK
    <2>3. Casting'
      BY <1>5 DEF Unlock, Casting, CurrentLine, TypeOK
    <2>4. Pending'
      BY <1>5 DEF Unlock, Pending
    <2>5. Queued(pubQ', pst')
      BY <1>1, <1>5 DEF Unlock, TypeOK
    <2> QED BY <1>5, <2>2, <2>3, <2>4, <2>5, StreamFrame DEF Unlock
  <1>6. ASSUME NEW s \in Subs, SendTo(p, s) PROVE OrderInv'
    <2>1. s \in subs /\ start[s] + Len(received[s]) + 1 = Len(sent)
      BY <1>6 DEF SendTo, Pending, Progress
    <2>2. sent[Len(sent)] = CurrentLine(p)
      BY <1>6 DEF SendTo, Casting
    <2>3. /\ received'[s] = Append(received[s], CurrentLine(p))
          /\ \A r \in Subs : r # s => received'[r] = received[r]
      BY <1>6 DEF SendTo, TypeOK
    <2>4. received[s] \in Seq(Line) /\ received'[s] \in Seq(Line)
      BY DEF TypeOK
    <2>5. /\ Len(received'[s]) = Len(received[s]) + 1
          /\ \A i \in 1..Len(received'[s]) : 
               received'[s][i] = IF i = Len(received[s]) + 1 
                                 THEN CurrentLine(p) ELSE received[s][i]
      BY <2>3, <2>4
    <2>6. Mutex' /\ Casting'
      BY <1>6 DEF SendTo, Mutex, Casting, CurrentLine
    <2>7. Pending'
      BY <1>6 DEF SendTo, Pending
    <2>8. Progress'
      <3>1. UNCHANGED <<start, sent, subs>> /\ todo' = todo \ {s} /\ s \in todo
        BY <1>6 DEF SendTo
      <3>2. \A r \in Subs : start[r] \in Nat /\ Len(received[r]) \in Nat
        BY DEF TypeOK
      <3>3. \A r \in subs : r \in Subs
        BY DEF TypeOK
      <3>4. ASSUME NEW r \in subs
            PROVE  start[r] + Len(received'[r]) 
                     + (IF r \in todo' THEN 1 ELSE 0) = Len(sent)
        <4>1. start[r] + Len(received[r]) + (IF r \in todo THEN 1 ELSE 0)
                = Len(sent)
          BY <3>4 DEF Progress
        <4>2. CASE r = s
          BY <2>1, <2>5, <3>1, <3>2, <3>3, <4>2
        <4>3. CASE r # s
          BY <2>3, <3>1, <3>3, <4>1, <4>3
        <4> QED BY <4>2, <4>3
      <3> QED BY <3>1, <3>4 DEF Progress
    <2>9. SegmentOrder'
      <3>1. UNCHANGED <<start, sent>>
        BY <1>6 DEF SendTo
      <3>2. start[s] \in Nat /\ Len(received[s]) \in Nat
        BY DEF TypeOK
      <3>3. /\ start[s] + Len(received'[s]) <= Len(sent)
            /\ \A i \in 1..Len(received'[s]) : 
                 received'[s][i] = sent[start[s] + i]
        <4>1. \A i \in 1..Len(received[s]) : 
                received[s][i] = sent[start[s] + i]
          BY DEF SegmentOrder
        <4>2. ASSUME NEW i \in 1..Len(received'[s])
              PROVE  received'[s][i] = sent[start[s] + i]
          <5>1. CASE i = Len(received[s]) + 1
            <6>1. start[s] + i = Len(sent)
              BY <2>1, <3>2, <5>1
            <6> QED BY <2>2, <2>5, <5>1, <6>1
          <5>2. CASE i # Len(received[s]) + 1
            <6>1. i \in 1..Len(received[s])
              BY <2>5, <3>2, <5>2
            <6> QED BY <2>5, <4>1, <5>2, <6>1
          <5> QED BY <5>1, <5>2
        <4>3. start[s] + Len(received'[s]) <= Len(sent)
          BY <2>1, <2>5, <3>2
        <4> QED BY <4>2, <4>3
      <3>4. ASSUME NEW r \in Subs
            PROVE  /\ start[r] + Len(received'[r]) <= Len(sent)
                   /\ \A i \in 1..Len(received'[r]) : 
                        received'[r][i] = sent[start[r] + i]
        <4>1. CASE r = s BY <3>3, <4>1
        <4>2. CASE r # s BY <2>3, <4>2 DEF SegmentOrder
        <4> QED BY <4>1, <4>2
      <3> QED BY <3>1, <3>4 DEF SegmentOrder
    <2>10. Fresh'
      BY <1>6, <2>1, <2>3 DEF SendTo, Fresh
    <2> QED BY <1>6, <2>6, <2>7, <2>8, <2>9, <2>10 DEF SendTo
  <1>7. ASSUME NEW s \in Subs, Drop(p, s) PROVE OrderInv'
    <2>1. Mutex' /\ Casting'
      BY <1>7 DEF Drop, Mutex, Casting, CurrentLine
    <2>2. Pending' /\ Progress' /\ SegmentOrder'
      BY <1>7 DEF Drop, Pending, Progress, SegmentOrder
    <2>3. Fresh' /\ sst[s] = "in"
      BY <1>7 DEF Drop, Fresh, TypeOK, Pending
    <2>4. Queued(subQ, sst')
      <3>1. \A r \in Subs : sst[r] = "backlog" => sst'[r] = "backlog"
        BY <1>7, <2>3 DEF Drop, TypeOK
      <3> QED BY <3>1, QueuedFrame DEF TypeOK
    <2> QED BY <1>7, <2>1, <2>2, <2>3, <2>4 DEF Drop
  <1> QED BY <1>3, <1>4, <1>5, <1>6, <1>7 DEF Broadcast

LEMMA ClientOrder == 
  ASSUME OrderInv, TypeOK',
         \/ AcceptPub \/ AcceptSub
         \/ \E p \in Pubs : PubClient(p)
         \/ \E s \in Subs : RegisterSub(s) \/ SubClient(s)
  PROVE  OrderInv'
  <1> USE DEF OrderInv, Queues, daemonVars, logVars, pubVars, lineVars,
              subVars, flowVars, castVars
  <1>1. CASE AcceptPub
    <2>1. /\ pubQ # <<>> /\ pubQ \in Seq(Pubs) /\ pubQ' = Tail(pubQ)
          /\ \A q \in Pubs \ {Head(pubQ)} : pst'[q] = pst[q]
      BY <1>1 DEF AcceptPub, TypeOK
    <2>2. /\ Queued(pubQ', pst') /\ Head(pubQ) \in Pubs
          /\ pst[Head(pubQ)] = "backlog"
      BY <2>1, QueuedTail
    <2>3. pst'[Head(pubQ)] = "accepted"
      BY <1>1, <2>2 DEF AcceptPub, TypeOK
    <2>4. Mutex' /\ Casting' /\ Pending'
      BY <1>1, <2>1, <2>2, <2>3, CastFrame DEF AcceptPub, Holding
    <2> QED BY <1>1, <2>2, <2>4, StreamFrame DEF AcceptPub
  <1>2. CASE AcceptSub
    <2>1. /\ subQ # <<>> /\ subQ \in Seq(Subs) /\ subQ' = Tail(subQ)
          /\ \A r \in Subs \ {Head(subQ)} : sst'[r] = sst[r]
      BY <1>2 DEF AcceptSub, TypeOK
    <2>2. /\ Queued(subQ', sst') /\ Head(subQ) \in Subs
          /\ sst[Head(subQ)] = "backlog"
      BY <2>1, QueuedTail
    <2>3. sst'[Head(subQ)] = "accepted"
      BY <1>2, <2>2 DEF AcceptSub, TypeOK
    <2>4. Fresh'
      BY <1>2, <2>1, <2>2, <2>3 DEF AcceptSub, Fresh
    <2> QED BY <1>2, <2>2, <2>4, CastFrame, StreamFrame DEF AcceptSub
  <1>3. ASSUME NEW p \in Pubs, DialPub(p) PROVE OrderInv'
    <2>1. Mutex' /\ Casting' /\ Pending'
      BY <1>3, CastFrame DEF DialPub, TypeOK, Holding
    <2>2. Queued(pubQ', pst')
      <3>1. /\ pst'[p] = "backlog" /\ pst[p] # "backlog"
            /\ \A q \in Pubs \ {p} : pst'[q] = pst[q]
            /\ pubQ' = Append(pubQ, p) /\ pubQ \in Seq(Pubs)
        BY <1>3 DEF DialPub, TypeOK
      <3> QED BY <3>1, QueuedAppend
    <2> QED BY <1>3, <2>1, <2>2, StreamFrame DEF DialPub
  <1>4. ASSUME NEW p \in Pubs, Publish(p) \/ HangUp(p) PROVE OrderInv'
    BY <1>4, CastFrame, StreamFrame DEF Publish, HangUp
  <1>5. ASSUME NEW s \in Subs, RegisterSub(s) PROVE OrderInv'
    <2>1. todo = {}
      BY <1>5, NoOneAssumption DEF RegisterSub, Pending
    <2>2. received[s] = <<>> /\ start'[s] = Len(sent) /\ s \notin subs
      BY <1>5 DEF RegisterSub, Fresh, TypeOK
    <2>3. \A r \in Subs : r # s => start'[r] = start[r]
      BY <1>5 DEF RegisterSub, TypeOK
    <2>4. Progress'
      BY <1>5, <2>1, <2>2, <2>3 DEF RegisterSub, Progress, TypeOK
    <2>5. SegmentOrder'
      <3>1. UNCHANGED <<sent, received>> /\ Len(sent) \in Nat
        BY <1>5 DEF RegisterSub, TypeOK
      <3> QED BY <2>2, <2>3, <3>1 DEF SegmentOrder
    <2>6. Fresh'
      BY <1>5 DEF RegisterSub, Fresh, TypeOK
    <2>7. Mutex' /\ Casting' /\ Pending'
      BY <1>5, <2>1 DEF RegisterSub, Mutex, Casting, Pending, CurrentLine
    <2>8. Queued(subQ, sst')
      <3>1. \A r \in Subs : sst[r] = "backlog" => sst'[r] = "backlog"
        BY <1>5 DEF RegisterSub, TypeOK
      <3> QED BY <3>1, QueuedFrame DEF TypeOK
    <2> QED BY <1>5, <2>4, <2>5, <2>6, <2>7, <2>8 DEF RegisterSub
  <1>6. ASSUME NEW s \in Subs, DialSub(s) PROVE OrderInv'
    <2>1. Fresh'
      BY <1>6 DEF DialSub, Fresh, TypeOK
    <2>2. Queued(subQ', sst')
      <3>1. /\ sst'[s] = "backlog" /\ sst[s] # "backlog"
            /\ \A r \in Subs \ {s} : sst'[r] = sst[r]
            /\ subQ' = Append(subQ, s) /\ subQ \in Seq(Subs)
        BY <1>6 DEF DialSub, TypeOK
      <3> QED BY <3>1, QueuedAppend
    <2> QED BY <1>6, <2>1, <2>2, CastFrame, StreamFrame DEF DialSub
  <1>7. ASSUME NEW s \in Subs, Receive(s) \/ Leave(s) PROVE OrderInv'
    BY <1>7, CastFrame, StreamFrame DEF Receive, Leave
  <1> QED BY <1>1, <1>2, <1>3, <1>4, <1>5, <1>6, <1>7 
          DEF PubClient, SubClient

LEMMA AcceptFailsOrder == 
  ASSUME OrderInv, TypeOK', NEW l \in listening, AcceptFails(l)
  PROVE  OrderInv'
  <1>1. UNCHANGED <<mu, todo, sent, pubVars, subVars>>
    BY AcceptFailsFrame
  <1> QED BY <1>1, CastFrame, StreamFrame
          DEF OrderInv, Queues, pubVars, lineVars, subVars, flowVars

\* The bus never forgets a waiting process, misses a registered subscriber or
\* counts a line twice: the invariant that SegmentOrder and CaughtUp rest on.
THEOREM OrderInvariant == Spec => []OrderInv
  <1>1. Init => OrderInv
    <2>1. Init => Queued(pubQ, pst) /\ Queued(subQ, sst)
      BY QueuedEmpty DEF Init
    <2>2. Init => Mutex /\ Casting /\ Pending /\ Progress /\ Fresh
      BY NoOneAssumption 
         DEF Init, Mutex, Casting, Pending, Progress, Fresh, Holding
    <2>3. Init => SegmentOrder
      BY DEF Init, SegmentOrder
    <2> QED BY <2>1, <2>2, <2>3, InitType DEF OrderInv, Queues
  <1>2. TypeOK /\ [Next]_vars => TypeOK'
    <2>1. CASE UNCHANGED vars
      BY <2>1 DEF vars, TypeOK, daemonVars, logVars, pubVars, lineVars,
                  subVars, flowVars, castVars
    <2> QED BY <2>1, ProcessType, HandlerType, BroadcastType, ClientType,
               AcceptFailsType DEF Next
  <1>3. OrderInv /\ [Next]_vars => OrderInv'
    <2>1. CASE UNCHANGED vars
      BY <1>2, <2>1, CastFrame, StreamFrame 
         DEF vars, OrderInv, Queues, daemonVars, logVars, pubVars, lineVars,
             subVars, flowVars, castVars
    <2>2. CASE Next
      BY <1>2, <2>2, ProcessOrder, HandlerOrder, BroadcastOrder, ClientOrder,
         AcceptFailsOrder DEF Next, OrderInv
    <2> QED BY <2>1, <2>2
  <1> QED BY <1>1, <1>3, PTL DEF Spec

\* Every subscriber's stream is a stretch of the one order of the bus.
THEOREM SegmentOrderCorrect == Spec => []SegmentOrder
  <1>1. OrderInv => SegmentOrder
    BY DEF OrderInv
  <1> QED BY <1>1, OrderInvariant, PTL

\* Whenever no broadcast is under way, no registered subscriber is behind.
THEOREM CaughtUpCorrect == Spec => []CaughtUp
  <1>1. OrderInv => CaughtUp
    <2> SUFFICES ASSUME OrderInv, mu = NoOne, NEW s \in subs
                 PROVE  start[s] + Len(received[s]) = Len(sent)
      BY DEF CaughtUp
    <2>1. s \notin todo
      BY NoOneAssumption DEF OrderInv, Pending
    <2> QED BY <2>1 DEF OrderInv, Progress, TypeOK
  <1> QED BY <1>1, OrderInvariant, PTL

-----------------------------------------------------------------------------
(* The bus implements BroadcastLog.                                        *)

\* A step that broadcasts, delivers and registers nothing and closes no
\* subscriber is a stutter of the abstract log.
LEMMA Stutter == 
  ASSUME UNCHANGED <<sent, start, received, subs>>,
         \A s \in Subs : sst'[s] = "closed" <=> sst[s] = "closed"
  PROVE  UNCHANGED BL!bvars
  BY DEF BL!bvars, Phase

\* A step after which the subscribers in R are closed and the others are as
\* they were is a Leave of the abstract log.
LEMMA Closing == 
  ASSUME UNCHANGED <<sent, start, received>>, 
         NEW R \in SUBSET Subs, subs' \cap R = {},
         \A s \in R : sst'[s] = "closed",
         \A s \in Subs \ R : /\ s \in subs' <=> s \in subs
                             /\ sst'[s] = "closed" <=> sst[s] = "closed"
  PROVE  BL!BNext
  <1>1. \A s \in Subs : Phase(s)' = IF s \in R THEN "left" ELSE Phase(s)
    BY DEF Phase
  <1>2. BL!Leave(R)
    BY <1>1 DEF BL!Leave
  <1> QED BY <1>2 DEF BL!BNext

LEMMA StepImplements == 
  ASSUME OrderInv, TypeOK', Next
  PROVE  BL!BNext \/ UNCHANGED BL!bvars
  <1> USE DEF daemonVars, logVars, pubVars, lineVars, subVars, flowVars,
              castVars
  <1> TypeOK /\ Fresh /\ Progress /\ Pending /\ SegmentOrder
    BY DEF OrderInv
  <1>1. CASE \/ Boot \/ BootFails \/ Restart \/ Signal \/ StopPubL \/ StopLog
             \/ AcceptPub
             \/ \E p \in Pubs : \/ RegisterPub(p) \/ Unregister(p) \/ Lock(p)
                                \/ Handle(p) \/ Rotate(p) \/ Unlock(p)
                                \/ PubClient(p)
             \/ \E s \in Subs : Receive(s) \/ Leave(s)
    <2>1. UNCHANGED <<sent, start, received, subs, sst>>
      BY <1>1 DEF Boot, BootFails, Restart, Signal, StopPubL, StopLog,
                  AcceptPub, RegisterPub, Unregister, Lock, Handle, Fill, Scan,
                  ScanEnds, Rotate, Unlock, PubClient, DialPub, Publish,
                  HangUp, Receive, Leave
    <2> QED BY <2>1, Stutter
  <1>2. CASE AcceptSub
    <2>1. Head(subQ) \in Subs /\ sst[Head(subQ)] = "backlog"
      BY <1>2, QueuedTail DEF AcceptSub, OrderInv, Queues, TypeOK
    <2>2. \A s \in Subs : sst'[s] = "closed" <=> sst[s] = "closed"
      BY <1>2, <2>1 DEF AcceptSub, TypeOK
    <2> QED BY <1>2, <2>2, Stutter DEF AcceptSub
  <1>3. ASSUME NEW s \in Subs, DialSub(s) PROVE UNCHANGED BL!bvars
    <2>1. \A r \in Subs : sst'[r] = "closed" <=> sst[r] = "closed"
      BY <1>3 DEF DialSub, TypeOK
    <2> QED BY <1>3, <2>1, Stutter DEF DialSub
  <1>4. CASE Exit \/ Crash
    <2> DEFINE R == {s \in Subs : sst[s] # "idle"}
    <2>1. ProcessGone
      BY <1>4 DEF Exit, Crash
    <2>2. /\ subs' \cap R = {} 
          /\ \A s \in R : sst'[s] = "closed"
          /\ \A s \in Subs \ R : sst'[s] = sst[s] /\ s \notin subs
      BY <2>1 DEF ProcessGone, Fresh
    <2> QED BY <2>1, <2>2, Closing DEF ProcessGone
  <1>5. CASE StopSubL
    <2> DEFINE R == {s \in Subs : sst[s] = "backlog"}
    <2>1. /\ subs' \cap R = {} 
          /\ \A s \in R : sst'[s] = "closed"
          /\ \A s \in Subs \ R : sst'[s] = sst[s]
      BY <1>5 DEF StopSubL, Fresh
    <2> QED BY <1>5, <2>1, Closing DEF StopSubL
  <1>6. CASE StopSweep
    <2>1. /\ subs \in SUBSET Subs /\ subs' = {}
          /\ \A s \in subs : sst'[s] = "closed"
          /\ \A s \in Subs \ subs : sst'[s] = sst[s]
      BY <1>6 DEF StopSweep, TypeOK
    <2> QED BY <1>6, <2>1, Closing DEF StopSweep
  <1>7. ASSUME NEW p \in Pubs, NEW s \in Subs, Drop(p, s) PROVE BL!BNext
    <2>1. /\ subs' = subs \ {s} /\ sst'[s] = "closed"
          /\ \A r \in Subs \ {s} : sst'[r] = sst[r]
      BY <1>7 DEF Drop, TypeOK
    <2> QED BY <1>7, <2>1, Closing DEF Drop
  <1>8. ASSUME NEW p \in Pubs, WriteLog(p) PROVE BL!BNext
    <2>1. CurrentLine(p) \in Line
      <3>1. scanned[p] \in 1..MaxLines
        BY <1>8, BoundsAssumption DEF WriteLog, TypeOK, Holding
      <3> QED BY <3>1 DEF CurrentLine, Line
    <2>2. BL!Publish(CurrentLine(p))
      BY <1>8 DEF WriteLog, BL!Publish, Phase
    <2> QED BY <2>1, <2>2 DEF BL!BNext
  <1>9. ASSUME NEW s \in Subs, RegisterSub(s) PROVE BL!BNext
    <2>1. /\ Phase(s) = "out" /\ Phase(s)' = "in"
          /\ \A r \in Subs \ {s} : Phase(r)' = Phase(r)
      BY <1>9 DEF RegisterSub, Phase, Fresh, TypeOK
    <2>2. BL!Join(s)
      BY <1>9, <2>1 DEF RegisterSub, BL!Join
    <2> QED BY <2>2 DEF BL!BNext
  <1>10. ASSUME NEW p \in Pubs, NEW s \in Subs, SendTo(p, s) PROVE BL!BNext
    <2>1. s \in subs /\ start[s] + Len(received[s]) + 1 = Len(sent)
      BY <1>10 DEF SendTo, Pending, Progress
    <2>2. sent[Len(sent)] = CurrentLine(p)
      BY <1>10 DEF SendTo, OrderInv, Casting
    <2>3. UNCHANGED <<sent, start, subs, sst>>
      BY <1>10 DEF SendTo
    <2>4. BL!Deliver(s)
      <3>1. /\ start[s] + Len(received[s]) + 1 <= Len(sent)
            /\ sent[start[s] + Len(received[s]) + 1] = CurrentLine(p)
        <4>1. Len(sent) \in Nat
          BY DEF TypeOK
        <4> QED BY <2>1, <2>2, <4>1
      <3>2. [r \in Subs |-> Phase(r)][s] = "in"
        <4>1. Phase(s) = "in"
          BY <2>1 DEF Phase
        <4> QED BY <4>1
      <3>3. UNCHANGED [r \in Subs |-> Phase(r)]
        BY <2>3 DEF Phase
      <3>4. received' = [received EXCEPT ![s] = Append(@, CurrentLine(p))]
        BY <1>10 DEF SendTo
      <3> QED BY <2>3, <3>1, <3>2, <3>3, <3>4 DEF BL!Deliver
    <2> QED BY <2>4 DEF BL!BNext
  <1>11. ASSUME NEW l \in listening, AcceptFails(l) PROVE UNCHANGED BL!bvars
    BY <1>11, AcceptFailsFrame, Stutter
  <1> QED BY <1>1, <1>2, <1>3, <1>4, <1>5, <1>6, <1>7, <1>8, <1>9, <1>10, 
             <1>11 DEF Next, Process, Stop, Broadcast, SubClient

\* busd implements the abstract broadcast log: with any number of clients,
\* lines, faults and restarts, every step of the daemon is a publication, the
\* delivery of the next line to one subscriber, a join, a departure, or
\* invisible.
THEOREM Implementation == Spec => ImplementsLog
  <1>1. Init => BL!BInit
    BY DEF Init, BL!BInit, Phase
  <1>2. OrderInv /\ OrderInv' /\ [Next]_vars => [BL!BNext]_(BL!bvars)
    <2>1. CASE Next
      BY <2>1, StepImplements DEF OrderInv
    <2>2. CASE UNCHANGED vars
      BY <2>2, Stutter DEF vars, subVars, flowVars, castVars
    <2> QED BY <2>1, <2>2
  <1> QED BY <1>1, <1>2, OrderInvariant, PTL DEF Spec, ImplementsLog, BL!BSpec

-----------------------------------------------------------------------------
(* One connection's lines.                                                 *)

\* The lines of p whose turn in the broadcast order has come.
Passed(p) == IF pst[p] \in {"have", "write"} THEN scanned[p] - 1
                                             ELSE scanned[p]
OnAir(p, n) == \E i \in 1..Len(sent) : sent[i] = <<p, n>>

\* What makes PublisherFifo inductive: while a connection lives, the lines
\* that were broadcast are exactly those before its handler's current one.
UpToDate == \A p \in Pubs : \A n \in 1..MaxLines : 
              /\ OnAir(p, n) => n <= Passed(p)
              /\ n <= Passed(p) /\ pst[p] # "done" => OnAir(p, n)
FifoInv == PublisherFifo /\ UpToDate

\* A step that broadcasts nothing and moves no handler past its line, unless
\* the connection ends with it.
LEMMA FifoFrame == 
  ASSUME FifoInv, TypeOK, TypeOK', UNCHANGED sent,
         \A p \in Pubs : \/ Passed(p)' = Passed(p) 
                         \/ pst'[p] = "done" /\ Passed(p)' >= Passed(p),
         \A p \in Pubs : pst[p] = "done" => pst'[p] = "done"
  PROVE  FifoInv'
  <1>1. PublisherFifo'
    BY DEF FifoInv, PublisherFifo
  <1>2. UpToDate'
    <2> SUFFICES ASSUME NEW p \in Pubs, NEW n \in 1..MaxLines
                 PROVE  /\ OnAir(p, n)' => n <= Passed(p)'
                        /\ n <= Passed(p)' /\ pst'[p] # "done" => OnAir(p, n)'
      BY DEF UpToDate
    <2>1. OnAir(p, n)' <=> OnAir(p, n)
      BY DEF OnAir
    <2>2. Passed(p) \in Nat /\ Passed(p)' \in Nat
      <3>1. /\ scanned[p] \in Nat
            /\ pst[p] \in {"have", "write"} => scanned[p] > 0
        BY DEF TypeOK, Holding
      <3>2. /\ scanned'[p] \in Nat
            /\ pst'[p] \in {"have", "write"} => scanned'[p] > 0
        BY DEF TypeOK, Holding
      <3> QED BY <3>1, <3>2 DEF Passed
    <2>3. /\ OnAir(p, n) => n <= Passed(p)
          /\ n <= Passed(p) /\ pst[p] # "done" => OnAir(p, n)
      BY DEF FifoInv, UpToDate
    <2> QED BY <2>1, <2>2, <2>3
  <1> QED BY <1>1, <1>2 DEF FifoInv

LEMMA FifoProcess == 
  ASSUME FifoInv, TypeOK, TypeOK', Process \/ Stop PROVE FifoInv'
  <1> USE DEF logVars, pubVars, lineVars, castVars
  <1>1. CASE ProcessGone
    <2>1. UNCHANGED sent
      BY <1>1 DEF ProcessGone
    <2>2. \A p \in Pubs : pst[p] = "done" => pst'[p] = "done"
      BY <1>1 DEF ProcessGone
    <2>3. ASSUME NEW p \in Pubs
          PROVE  \/ Passed(p)' = Passed(p)
                 \/ pst'[p] = "done" /\ Passed(p)' >= Passed(p)
      <3>1. scanned' = scanned /\ scanned[p] \in Nat
        BY <1>1 DEF ProcessGone, TypeOK
      <3>2. pst'[p] = IF pst[p] = "idle" THEN "idle" ELSE "done"
        BY <1>1 DEF ProcessGone
      <3> QED BY <3>1, <3>2 DEF Passed
    <2> QED BY <2>1, <2>2, <2>3, FifoFrame
  <1>2. CASE StopPubL
    BY <1>2, FifoFrame DEF StopPubL, Passed, TypeOK
  <1>3. CASE UNCHANGED <<pst, scanned, sent>>
    BY <1>3, FifoFrame DEF Passed
  <1> QED BY <1>1, <1>2, <1>3 
          DEF Process, Stop, Boot, BootFails, Exit, Crash, Restart, Signal, 
              StopSubL, StopSweep, StopLog

\* A handler's step from one program counter to another.
LEMMA FifoMoves == 
  ASSUME FifoInv, TypeOK, TypeOK', UNCHANGED sent, NEW p \in Pubs, NEW to,
         pst[p] # "done", pst' = [pst EXCEPT ![p] = to],
         \/ UNCHANGED scanned /\ (pst[p] \in {"have", "write"} 
                                    <=> to \in {"have", "write"})
         \/ /\ pst[p] = "scan" /\ to = "have" 
            /\ scanned' = [scanned EXCEPT ![p] = @ + 1]
  PROVE  FifoInv'
  <1>1. ASSUME NEW q \in Pubs PROVE Passed(q)' = Passed(q)
    <2>1. pst'[q] = IF q = p THEN to ELSE pst[q]
      BY DEF TypeOK
    <2>2. CASE UNCHANGED scanned /\ (pst[p] \in {"have", "write"} 
                                       <=> to \in {"have", "write"})
      BY <2>1, <2>2 DEF Passed
    <2>3. CASE /\ pst[p] = "scan" /\ to = "have" 
               /\ scanned' = [scanned EXCEPT ![p] = @ + 1]
      <3>1. /\ scanned[q] \in Nat
            /\ scanned'[q] = IF q = p THEN scanned[q] + 1 ELSE scanned[q]
        BY <2>3 DEF TypeOK
      <3> QED BY <2>1, <2>3, <3>1 DEF Passed
    <2> QED BY <2>2, <2>3
  <1>2. \A q \in Pubs : pst[q] = "done" => pst'[q] = "done"
    BY DEF TypeOK
  <1> QED BY <1>1, <1>2, FifoFrame

LEMMA FifoWrite == 
  ASSUME FifoInv, TypeOK, TypeOK', NEW p \in Pubs, WriteLog(p)
  PROVE  FifoInv'
  <1> DEFINE new == CurrentLine(p)
  <1>1. /\ pst[p] = "write" /\ sent' = Append(sent, new)
        /\ pst'[p] \in {"rotate", "fanout"}
        /\ UNCHANGED scanned /\ \A q \in Pubs \ {p} : pst'[q] = pst[q]
    BY WriteStep
  <1>2. scanned[p] \in 1..MaxLines /\ new = <<p, scanned[p]>>
    <2>1. scanned[p] \in 0..MaxLines /\ (pst[p] \in Holding => scanned[p] > 0)
      BY DEF TypeOK
    <2>2. scanned[p] > 0
      BY <1>1, <2>1 DEF Holding
    <2> QED BY <2>1, <2>2, BoundsAssumption DEF CurrentLine
  <1>3. /\ Passed(p) = scanned[p] - 1 /\ Passed(p)' = scanned[p]
        /\ \A q \in Pubs \ {p} : Passed(q)' = Passed(q)
    BY <1>1 DEF Passed
  <1>4. sent \in Seq(Line) /\ Len(sent) \in Nat
    BY DEF TypeOK
  <1>5. /\ Len(sent') = Len(sent) + 1 /\ sent'[Len(sent')] = new
        /\ \A i \in 1..Len(sent) : sent'[i] = sent[i]
    BY <1>1, <1>4
  <1>6. \A i \in 1..Len(sent) : sent[i] # new
    <2>1. ~OnAir(p, scanned[p])
      BY <1>2, <1>3 DEF FifoInv, UpToDate
    <2> QED BY <1>2, <2>1 DEF OnAir
  <1>7. scanned[p] > 1 => \E j \in 1..Len(sent) : sent[j] = <<p, scanned[p] - 1>>
    <2> SUFFICES ASSUME scanned[p] > 1 PROVE OnAir(p, scanned[p] - 1)
      BY DEF OnAir
    <2>1. scanned[p] - 1 \in 1..MaxLines /\ scanned[p] - 1 <= Passed(p)
      BY <1>2, <1>3, BoundsAssumption
    <2>2. \A n \in 1..MaxLines : n <= Passed(p) => OnAir(p, n)
      BY <1>1 DEF FifoInv, UpToDate
    <2> QED BY <2>1, <2>2
  <1>8. PublisherFifo'
    <2> SUFFICES ASSUME NEW i \in 1..(Len(sent) + 1)
                 PROVE  /\ \A j \in 1..(i - 1) : sent'[j] # sent'[i]
                        /\ sent'[i][2] > 1 => 
                             \E j \in 1..(i - 1) : 
                               sent'[j] = <<sent'[i][1], sent'[i][2] - 1>>
      BY <1>5 DEF PublisherFifo
    <2>1. CASE i \in 1..Len(sent)
      <3>1. sent'[i] = sent[i] /\ \A j \in 1..(i - 1) : sent'[j] = sent[j]
        BY <1>4, <1>5, <2>1
      <3> QED BY <2>1, <3>1 DEF FifoInv, PublisherFifo
    <2>2. CASE i = Len(sent) + 1
      <3>1. i - 1 = Len(sent) /\ sent'[i] = new
        BY <1>4, <1>5, <2>2
      <3>2. sent'[i][1] = p /\ sent'[i][2] = scanned[p]
        BY <1>2, <3>1
      <3> QED BY <1>5, <1>6, <1>7, <3>1, <3>2
    <2> QED BY <1>4, <2>1, <2>2
  <1>9. UpToDate'
    <2> SUFFICES ASSUME NEW q \in Pubs, NEW n \in 1..MaxLines
                 PROVE  /\ OnAir(q, n)' => n <= Passed(q)'
                        /\ n <= Passed(q)' /\ pst'[q] # "done" => OnAir(q, n)'
      BY DEF UpToDate
    <2>1. OnAir(q, n)' <=> OnAir(q, n) \/ (q = p /\ n = scanned[p])
      <3>1. \A i : i \in 1..Len(sent') <=> 
                     i \in 1..Len(sent) \/ i = Len(sent) + 1
        BY <1>4, <1>5
      <3>2. OnAir(q, n)' <=> OnAir(q, n) \/ sent'[Len(sent')] = <<q, n>>
        BY <1>5, <3>1 DEF OnAir
      <3> QED BY <1>2, <1>5, <3>2
    <2>2. /\ OnAir(q, n) => n <= Passed(q)
          /\ n <= Passed(q) /\ pst[q] # "done" => OnAir(q, n)
      BY DEF FifoInv, UpToDate
    <2>3. CASE q = p
      BY <1>1, <1>2, <1>3, <2>1, <2>2, <2>3
    <2>4. CASE q # p
      BY <1>1, <1>3, <2>1, <2>2, <2>4
    <2> QED BY <2>3, <2>4
  <1> QED BY <1>8, <1>9 DEF FifoInv

LEMMA FifoHandler == 
  ASSUME FifoInv, TypeOK, TypeOK', NEW p \in Pubs,
         RegisterPub(p) \/ Unregister(p) \/ Lock(p) \/ Handle(p) \/ Broadcast(p)
  PROVE  FifoInv'
  <1> USE DEF pubVars, lineVars, castVars
  <1>1. CASE RegisterPub(p)
    BY <1>1, FifoMoves DEF RegisterPub
  <1>2. CASE Unregister(p)
    BY <1>2, FifoMoves DEF Unregister
  <1>3. CASE Lock(p)
    BY <1>3, FifoMoves DEF Lock
  <1>4. CASE Fill(p)
    BY <1>4, FifoFrame DEF Fill, Passed
  <1>5. CASE Scan(p)
    BY <1>5, FifoMoves DEF Scan
  <1>6. CASE ScanEnds(p)
    BY <1>6, FifoMoves DEF ScanEnds
  <1>7. CASE WriteLog(p)
    BY <1>7, FifoWrite
  <1>8. CASE Rotate(p)
    BY <1>8, FifoMoves DEF Rotate
  <1>9. CASE Unlock(p)
    BY <1>9, FifoMoves DEF Unlock
  <1>10. CASE \E s \in Subs : SendTo(p, s) \/ Drop(p, s)
    <2>1. UNCHANGED <<pst, scanned, sent>>
      BY <1>10 DEF SendTo, Drop
    <2> QED BY <2>1, FifoFrame DEF Passed
  <1> QED BY <1>1, <1>2, <1>3, <1>4, <1>5, <1>6, <1>7, <1>8, <1>9, <1>10
          DEF Handle, Broadcast

LEMMA FifoClient == 
  ASSUME FifoInv, OrderInv, TypeOK',
         \/ AcceptPub \/ AcceptSub
         \/ \E p \in Pubs : PubClient(p)
         \/ \E s \in Subs : RegisterSub(s) \/ SubClient(s)
  PROVE  FifoInv'
  <1> USE DEF pubVars, lineVars, castVars
  <1>1. TypeOK
    BY DEF OrderInv
  <1>2. CASE AcceptPub
    <2>1. Head(pubQ) \in Pubs /\ pst[Head(pubQ)] = "backlog"
      BY <1>1, <1>2, QueuedTail DEF AcceptPub, OrderInv, Queues, TypeOK
    <2> QED BY <1>1, <1>2, <2>1, FifoMoves DEF AcceptPub
  <1>3. ASSUME NEW p \in Pubs, DialPub(p) PROVE FifoInv'
    BY <1>1, <1>3, FifoMoves DEF DialPub
  <1>4. CASE UNCHANGED <<pst, scanned, sent>>
    BY <1>1, <1>4, FifoFrame DEF Passed
  <1> QED BY <1>2, <1>3, <1>4 
          DEF AcceptSub, PubClient, Publish, HangUp, RegisterSub, SubClient,
              DialSub, Receive, Leave

\* No line of a connection is broadcast twice, before its predecessor, or
\* without it (handlePub), whatever other handlers, Stop, crashes and
\* restarts do in between.
THEOREM PublisherFifoCorrect == Spec => []PublisherFifo
  <1>1. Init => FifoInv
    BY DEF Init, FifoInv, PublisherFifo, UpToDate, OnAir, Passed
  <1>2. FifoInv /\ OrderInv /\ OrderInv' /\ [Next]_vars => FifoInv'
    <2> SUFFICES ASSUME FifoInv, OrderInv, OrderInv', [Next]_vars
                 PROVE  FifoInv'
      OBVIOUS
    <2>1. TypeOK /\ TypeOK'
      BY DEF OrderInv
    <2>2. CASE UNCHANGED vars
      BY <2>1, <2>2, FifoFrame DEF vars, pubVars, lineVars, castVars, Passed
    <2>3. ASSUME NEW l \in listening, AcceptFails(l) PROVE FifoInv'
      <3>1. UNCHANGED <<pst, scanned, sent>>
        BY <2>3, AcceptFailsFrame DEF pubVars, lineVars
      <3> QED BY <2>1, <3>1, FifoFrame DEF Passed
    <2>4. CASE Next
      BY <2>1, <2>3, <2>4, FifoProcess, FifoHandler, FifoClient DEF Next
    <2> QED BY <2>2, <2>4
  <1>3. FifoInv => PublisherFifo
    BY DEF FifoInv
  <1> QED BY <1>1, <1>2, <1>3, OrderInvariant, PTL DEF Spec

-----------------------------------------------------------------------------
(* The two files of the log.                                               *)

\* What makes LogSuffix inductive: the log is open for every broadcast
\* (unless a write or a reopen may fail, or Stop closed it), and a file is
\* rotated away only when it alone holds more than MaxLog lines.
LogSafe == Faults \cap {"write", "reopen"} = {}
LogOpen == LogSafe /\ stopPc # "done" /\ Serving => logF = "open"
Full == \A p \in Pubs : pst[p] = "rotate" => Len(cur) > MaxLog
LogInv == LogSuffix /\ LogOpen /\ Full

\* Two sequences that grow by the same line.
LEMMA EndsAppend == 
  ASSUME NEW S, NEW q \in Seq(S), NEW end \in Seq(S), NEW x \in S, Ends(q, end)
  PROVE  Ends(Append(q, x), Append(end, x))
  <1>1. PICK m \in Nat, n \in Nat : m = Len(q) /\ n = Len(end)
    OBVIOUS
  <1>2. n <= m /\ \A j \in 1..n : end[j] = q[m - n + j]
    BY <1>1 DEF Ends
  <1>3. PICK q2 \in Seq(S), end2 \in Seq(S) : 
          q2 = Append(q, x) /\ end2 = Append(end, x)
    BY AppendProperties
  <1>4. /\ Len(q2) = m + 1 /\ Len(end2) = n + 1 
        /\ q2[m + 1] = x /\ end2[n + 1] = x
        /\ \A j \in 1..m : q2[j] = q[j]
        /\ \A j \in 1..n : end2[j] = end[j]
    BY <1>1, <1>3, AppendProperties
  <1>5. ASSUME NEW i \in 1..(n + 1)
        PROVE  end2[i] = q2[(m + 1) - (n + 1) + i]
    <2>1. CASE i = n + 1
      <3>1. (m + 1) - (n + 1) + i = m + 1
        BY <1>2, <2>1
      <3> QED BY <1>4, <2>1, <3>1
    <2>2. CASE i # n + 1
      <3>1. i \in 1..n /\ m - n + i \in 1..m
        BY <1>2, <2>2
      <3>2. (m + 1) - (n + 1) + i = m - n + i
        BY <1>2, <3>1
      <3> QED BY <1>2, <1>4, <3>1, <3>2
    <2> QED BY <2>1, <2>2
  <1>6. n + 1 <= m + 1
    BY <1>2
  <1>7. Ends(q2, end2)
    BY <1>4, <1>5, <1>6 DEF Ends
  <1> QED BY <1>3, <1>7

\* The end of an end.
LEMMA EndsConcat == 
  ASSUME NEW S, NEW q \in Seq(S), NEW a \in Seq(S), NEW b \in Seq(S),
         Ends(q, a \o b)
  PROVE  Ends(q, b)
  <1>1. /\ Len(q) \in Nat /\ Len(a) \in Nat /\ Len(b) \in Nat
        /\ Len(a \o b) = Len(a) + Len(b) /\ Len(a) + Len(b) <= Len(q)
    BY DEF Ends
  <1>2. ASSUME NEW i \in 1..Len(b) PROVE b[i] = q[Len(q) - Len(b) + i]
    <2>1. PICK k \in Nat : k = Len(a) + i
      BY <1>1
    <2>2. k \in 1..Len(a \o b) /\ k > Len(a) /\ k - Len(a) = i
      BY <1>1, <2>1
    <2>3. (a \o b)[k] = b[i]
      BY <1>1, <2>2, ConcatProperties
    <2>4. (a \o b)[k] = q[Len(q) - Len(a \o b) + k]
      BY <2>2 DEF Ends
    <2>5. Len(q) - Len(a \o b) + k = Len(q) - Len(b) + i
      BY <1>1, <2>1
    <2> QED BY <2>3, <2>4, <2>5
  <1> QED BY <1>1, <1>2 DEF Ends

LEMMA FilesType == 
  TypeOK => Files \in Seq(Line) /\ Len(Files) = Len(old) + Len(cur)
  BY DEF TypeOK, Files

\* A step that touches no file and no order, and does not reopen a log.
LEMMA LogFrame == 
  ASSUME LogInv, UNCHANGED <<cur, old, sent>>,
         stopPc' # "done" => stopPc # "done",
         Serving' /\ stopPc' # "done" => logF' = "open" 
                                         \/ (Serving /\ UNCHANGED logF),
         \A p \in Pubs : pst'[p] = "rotate" => pst[p] = "rotate"
  PROVE  LogInv'
  BY DEF LogInv, LogSuffix, LogOpen, LogSafe, Full, Files

LEMMA LogProcess == 
  ASSUME LogInv, TypeOK, Process \/ Stop PROVE LogInv'
  <1> USE DEF logVars, pubVars, lineVars, castVars, Serving
  <1>1. CASE Boot BY <1>1, LogFrame DEF Boot
  <1>2. CASE BootFails BY <1>2, LogFrame DEF BootFails
  <1>3. CASE Restart BY <1>3, LogFrame DEF Restart
  <1>4. CASE Exit
    BY <1>4, LogFrame DEF Exit, ProcessGone
  <1>5. CASE Crash
    BY <1>5, LogFrame DEF Crash, ProcessGone
  <1>6. CASE Signal BY <1>6, LogFrame DEF Signal
  <1>7. CASE StopPubL
    BY <1>7, LogFrame DEF StopPubL
  <1>8. CASE StopSubL BY <1>8, LogFrame DEF StopSubL
  <1>9. CASE StopSweep BY <1>9, LogFrame DEF StopSweep
  <1>10. CASE StopLog BY <1>10, LogFrame DEF StopLog
  <1> QED BY <1>1, <1>2, <1>3, <1>4, <1>5, <1>6, <1>7, <1>8, <1>9, <1>10
          DEF Process, Stop

\* The line goes to both ends; who rotates next holds a full file.
LEMMA LogWrite == 
  ASSUME LogInv, OrderInv, NEW p \in Pubs, WriteLog(p) PROVE LogInv'
  <1>1. TypeOK /\ Mutex
    BY DEF OrderInv
  <1>2. /\ Serving /\ pst[p] = "write" /\ sent' = Append(sent, CurrentLine(p))
        /\ UNCHANGED <<life, stopPc, logF, old>>
        /\ \/ logF = "open" /\ cur' = Append(cur, CurrentLine(p))
           \/ (logF # "open" \/ ~LogSafe) /\ UNCHANGED cur
        /\ pst' = [pst EXCEPT ![p] = IF logF = "open" /\ Len(cur') > MaxLog
                                     THEN "rotate" ELSE "fanout"]
    BY DEF WriteLog, daemonVars, LogSafe
  <1>3. CurrentLine(p) \in Line
    <2>1. scanned[p] \in 1..MaxLines
      BY <1>1, <1>2, BoundsAssumption DEF TypeOK, Holding
    <2> QED BY <2>1 DEF CurrentLine, Line
  <1>4. sent \in Seq(Line) /\ cur \in Seq(Line) /\ old \in Seq(Line)
    BY <1>1 DEF TypeOK
  <1>5. LogOpen'
    BY <1>2 DEF LogInv, LogOpen, Serving
  <1>6. Full'
    <2> SUFFICES ASSUME NEW q \in Pubs, pst'[q] = "rotate"
                 PROVE  Len(cur') > MaxLog
      BY DEF Full
    <2>1. q = p
      <3>1. pst[q] # "rotate" \/ q = p
        BY <1>1, <1>2, NoOneAssumption DEF Mutex, Holding
      <3>2. q # p => pst'[q] = pst[q]
        BY <1>1, <1>2 DEF TypeOK
      <3> QED BY <3>1, <3>2
    <2> QED BY <1>1, <1>2, <2>1 DEF TypeOK
  <1>7. LogSuffix'
    <2> SUFFICES ASSUME LogSafe, stopPc # "done"
                 PROVE  /\ Ends(sent', Files')
                        /\ Len(Files') = Len(sent') \/ Len(Files') > MaxLog
      BY <1>2 DEF LogSuffix, LogSafe
    <2>1. cur' = Append(cur, CurrentLine(p))
      BY <1>2 DEF LogInv, LogOpen
    <2>2. Files' = Append(Files, CurrentLine(p))
      BY <1>2, <1>3, <1>4, <2>1 DEF Files
    <2>3. Files \in Seq(Line)
      BY <1>1, FilesType
    <2>4. Ends(sent, Files) /\ (Len(Files) = Len(sent) \/ Len(Files) > MaxLog)
      BY DEF LogInv, LogSuffix, LogSafe
    <2>5. Ends(sent', Files')
      BY <1>2, <1>3, <1>4, <2>2, <2>3, <2>4, EndsAppend
    <2>6. Len(Files') = Len(Files) + 1 /\ Len(sent') = Len(sent) + 1
      BY <1>2, <1>3, <1>4, <2>2, <2>3
    <2>7. Len(Files) \in Nat /\ Len(sent) \in Nat /\ MaxLog \in Nat
      BY <1>4, <2>3, BoundsAssumption
    <2> QED BY <2>4, <2>5, <2>6, <2>7
  <1> QED BY <1>5, <1>6, <1>7 DEF LogInv

\* What a rotation drops is older than what it keeps, and what it keeps is
\* more than MaxLog lines.
LEMMA LogRotate == 
  ASSUME LogInv, OrderInv, NEW p \in Pubs, Rotate(p) PROVE LogInv'
  <1>1. TypeOK /\ Mutex
    BY DEF OrderInv
  <1>2. /\ Serving /\ pst[p] = "rotate" /\ UNCHANGED <<life, stopPc, sent>>
        /\ (old' = cur /\ cur' = <<>>) \/ UNCHANGED <<old, cur>>
        /\ logF' = "open" \/ ~LogSafe
        /\ pst' = [pst EXCEPT ![p] = "fanout"]
    BY DEF Rotate, daemonVars, castVars, LogSafe
  <1>3. LogOpen'
    BY <1>2 DEF LogOpen
  <1>4. Full'
    <2> SUFFICES ASSUME NEW q \in Pubs PROVE pst'[q] # "rotate"
      BY DEF Full
    <2>1. CASE q = p
      BY <1>1, <1>2, <2>1 DEF TypeOK
    <2>2. CASE q # p
      <3>1. pst'[q] = pst[q] 
        BY <1>1, <1>2, <2>2 DEF TypeOK
      <3>2. pst[q] # "rotate"
        BY <1>1, <1>2, <2>2 DEF Mutex, Holding
      <3> QED BY <3>1, <3>2
    <2> QED BY <2>1, <2>2
  <1>5. LogSuffix'
    <2> SUFFICES ASSUME LogSafe, stopPc # "done"
                 PROVE  /\ Ends(sent, Files')
                        /\ Len(Files') = Len(sent) \/ Len(Files') > MaxLog
      BY <1>2 DEF LogSuffix, LogSafe
    <2>1. Ends(sent, Files) /\ (Len(Files) = Len(sent) \/ Len(Files) > MaxLog)
      BY DEF LogInv, LogSuffix, LogSafe
    <2>2. CASE UNCHANGED <<old, cur>>
      BY <2>1, <2>2 DEF Files
    <2>3. CASE old' = cur /\ cur' = <<>>
      <3>1. sent \in Seq(Line) /\ cur \in Seq(Line) /\ old \in Seq(Line)
        BY <1>1 DEF TypeOK
      <3>2. Files' = cur
        BY <2>3, <3>1 DEF Files
      <3>3. Ends(sent, cur)
        BY <2>1, <3>1, EndsConcat DEF Files
      <3>4. Len(cur) > MaxLog
        BY <1>2 DEF LogInv, Full
      <3> QED BY <3>2, <3>3, <3>4
    <2> QED BY <1>2, <2>2, <2>3
  <1> QED BY <1>3, <1>4, <1>5 DEF LogInv

LEMMA LogHandler == 
  ASSUME LogInv, OrderInv, NEW p \in Pubs,
         \/ RegisterPub(p) \/ Unregister(p) \/ Lock(p) \/ Handle(p)
         \/ Broadcast(p) \/ PubClient(p)
  PROVE  LogInv'
  <1> USE DEF daemonVars, logVars, pubVars, castVars, Serving
  <1>1. pst \in [Pubs -> PubState]
    BY DEF OrderInv, TypeOK
  <1>2. ASSUME UNCHANGED <<life, stopPc, logVars, sent>>,
               \/ UNCHANGED pst
               \/ \E to \in PubState \ {"rotate"} : pst' = [pst EXCEPT ![p] = to]
        PROVE  LogInv'
    <2>1. \A q \in Pubs : pst'[q] = "rotate" => pst[q] = "rotate"
      BY <1>1, <1>2
    <2> QED BY <1>2, <2>1, LogFrame
  <1>3. CASE WriteLog(p)
    BY <1>3, LogWrite
  <1>4. CASE Rotate(p)
    BY <1>4, LogRotate
  <1>5. CASE RegisterPub(p) \/ Unregister(p) \/ Lock(p) \/ Handle(p)
    BY <1>2, <1>5 DEF RegisterPub, Unregister, Lock, Handle, Fill, Scan,
                      ScanEnds, PubState
  <1>6. CASE Unlock(p) \/ \E s \in Subs : SendTo(p, s) \/ Drop(p, s)
    BY <1>2, <1>6 DEF Unlock, SendTo, Drop, PubState
  <1>7. CASE PubClient(p)
    BY <1>2, <1>7 DEF PubClient, DialPub, Publish, HangUp, PubState
  <1> QED BY <1>3, <1>4, <1>5, <1>6, <1>7 DEF Broadcast

\* If no write and no reopen ever fails, then until Stop closes the log the two files are
\* the end of the broadcast order and hold all of it or more than MaxLog of
\* its lines (broadcast, Run), whatever renames fail and whatever crashes.
THEOREM LogSuffixCorrect == Spec => []LogSuffix
  <1>1. Init => LogInv
    BY DEF Init, LogInv, LogSuffix, LogOpen, Full, Files, Ends, Serving
  <1>2. LogInv /\ OrderInv /\ [Next]_vars => LogInv'
    <2> SUFFICES ASSUME LogInv, OrderInv, [Next]_vars PROVE LogInv'
      OBVIOUS
    <2>1. CASE UNCHANGED vars
      BY <2>1, LogFrame DEF vars, daemonVars, logVars, pubVars, castVars, Serving
    <2>2. CASE AcceptPub
      <3>1. \A p \in Pubs : pst'[p] = "rotate" => pst[p] = "rotate"
        BY <2>2 DEF AcceptPub, OrderInv, TypeOK
      <3> QED BY <2>2, <3>1, LogFrame DEF AcceptPub, daemonVars, logVars, 
                                          castVars, Serving
    <2>3. CASE AcceptSub \/ \E s \in Subs : RegisterSub(s) \/ SubClient(s)
      BY <2>3, LogFrame DEF AcceptSub, RegisterSub, SubClient, DialSub,
           Receive, Leave, daemonVars, logVars, pubVars, castVars, Serving
    <2>4. ASSUME NEW l \in listening, AcceptFails(l) PROVE LogInv'
      <3>1. UNCHANGED <<life, stopPc, logF, cur, old, pst, sent>>
        BY <2>4, AcceptFailsFrame DEF pubVars
      <3> QED BY <3>1, LogFrame DEF Serving
    <2> QED BY <2>1, <2>2, <2>3, <2>4, LogProcess, LogHandler 
            DEF Next, OrderInv
  <1>3. LogInv => LogSuffix
    BY DEF LogInv
  <1> QED BY <1>1, <1>2, <1>3, OrderInvariant, PTL DEF Spec
=============================================================================
