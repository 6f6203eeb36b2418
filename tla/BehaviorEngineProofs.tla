------------------------ MODULE BehaviorEngineProofs ------------------------
(***************************************************************************)
(* Proofs about BehaviorEngine for any students and sessions, any events,  *)
(* clocks and scopes, whatever the classifier answers, and for any crashes *)
(* and restarts of the engine and of the bus.                              *)
(***************************************************************************)
EXTENDS BehaviorEngine, RiskScorerLemmas, SequenceTheorems, 
        WellFoundedInduction

-----------------------------------------------------------------------------
(* Types.                                                                  *)

\* The events cast are among those fed, and the one being classified is one
\* of them and has a session.
TypeInv == /\ TypeOK /\ Len(cast) <= Len(Feed)
           /\ proc = "classify" => cur \in DOMAIN cast /\ Ev(cur).key \in Keys

LEMMA FeedDomain == Feed \in Seq(SUBSET UNION {Feed[n] : n \in DOMAIN Feed})
                      /\ Len(Feed) \in Nat /\ DOMAIN Feed = 1..Len(Feed)
  BY NumbersAssumption

LEMMA CastEvents == 
  ASSUME TypeInv
  PROVE  /\ cast \in Seq(UNION {Feed[n] : n \in DOMAIN Feed})
         /\ DOMAIN cast = 1..Len(cast) /\ Len(cast) \in Nat
         /\ DOMAIN cast \subseteq DOMAIN Feed
         /\ \A n \in DOMAIN cast : 
              /\ Ev(n).key \in Keys \cup {NoKey} /\ Ev(n).cmd \in BOOLEAN
              /\ Ev(n).ts \in Nat \cup {NoTs}
  <1>1. /\ cast \in Seq(UNION {Feed[n] : n \in DOMAIN Feed})
        /\ DOMAIN cast = 1..Len(cast) /\ Len(cast) \in Nat
    BY DEF TypeInv, TypeOK
  <1>2. DOMAIN cast \subseteq DOMAIN Feed
    BY <1>1, FeedDomain DEF TypeInv
  <1>3. ASSUME NEW n \in DOMAIN cast
        PROVE  /\ Ev(n).key \in Keys \cup {NoKey} /\ Ev(n).cmd \in BOOLEAN
               /\ Ev(n).ts \in Nat \cup {NoTs}
    <2>1. PICK m \in DOMAIN Feed : cast[n] \in Feed[m]
      BY <1>1
    <2> QED BY <2>1, FeedAssumption DEF Ev
  <1> QED BY <1>1, <1>2, <1>3

LEMMA ReplyType == 
  /\ Replies \cup {NoReply} \subseteq [label : Label, conf : Int]
  BY RepliesAssumption DEF NoReply, Label

\* What one verdict does.
LEMMA JudgeEffect == 
  ASSUME TypeInv, NEW n \in DOMAIN cast, Ev(n).key \in Keys, 
         NEW reply \in [label : Label, conf : Int], Judge(n, reply)
  PROVE  \E v \in Verdict : 
           /\ v.ev = n /\ done' = Append(done, v)
           /\ alerts' = IF v.cat # "Normal" THEN Append(alerts, v) ELSE alerts
           /\ last' \in [Keys -> 0..100] /\ isolated' \subseteq Keys
           /\ trained = {} => v.cat # "Critical" /\ isolated' = isolated
  <1> DEFINE k == Ev(n).key
  <1>1. PICK a \in AnomalyScores(Student(k)) : 
          LET s == Score(a, reply.label, reply.conf, IsScopeBreach(Ev(n)))
              verdict == [ev |-> n, cat |-> s.cat, score |-> s.score]
              silent == Suppressed(s.score, last[k])
          IN  /\ done' = Append(done, verdict)
              /\ last' = IF silent THEN last ELSE [last EXCEPT ![k] = s.score]
              /\ alerts' = IF ~silent /\ s.cat # "Normal" 
                           THEN Append(alerts, verdict) ELSE alerts
              /\ isolated' = IF ~silent /\ s.cat = "Critical" 
                             THEN isolated \cup {k} ELSE isolated
    BY DEF Judge
  <1> DEFINE s == Score(a, reply.label, reply.conf, IsScopeBreach(Ev(n)))
             v == [ev |-> n, cat |-> s.cat, score |-> s.score]
  <1>2. a \in 0..100 /\ (trained = {} => a = 0)
    BY DEF AnomalyScores
  <1>3. IsScopeBreach(Ev(n)) \in BOOLEAN
    BY DEF IsScopeBreach
  <1>4. s.score \in 0..100 /\ s.cat \in Category
        /\ (s.cat = "Critical" => a > 70) /\ (s.score < 20 => s.cat = "Normal")
    <2>1. reply.label \in Label /\ reply.conf \in Int /\ a \in Int
      BY <1>2
    <2>2. /\ s.score \in 0..100 /\ (s.cat = "Critical" => a > 70)
          /\ s.score < 20 => s.cat = "Normal"
      BY <1>3, <2>1, BandsOfScore, HardRuleOfScore
    <2>3. s.cat \in Category
      BY DEF Score, Category
    <2> QED BY <2>2, <2>3
  <1>5. v \in Verdict /\ v.ev = n /\ v.cat = s.cat
    BY <1>4, CastEvents DEF Verdict
  <1>6. trained = {} => s.cat # "Critical"
    BY <1>2, <1>4
  <1>7. last \in [Keys -> 0..100] /\ isolated \subseteq Keys
    BY DEF TypeInv, TypeOK
  <1>8. last' \in [Keys -> 0..100] /\ isolated' \subseteq Keys
    BY <1>1, <1>4, <1>7
  <1>9. /\ done' = Append(done, v) 
        /\ alerts' = IF s.cat # "Normal" THEN Append(alerts, v) ELSE alerts
    BY <1>1, <1>4 DEF Suppressed
  <1>10. trained = {} => isolated' = isolated
    BY <1>1, <1>6
  <1> HIDE DEF v
  <1> QED BY <1>5, <1>6, <1>8, <1>9, <1>10

\* Every nonempty set of naturals has a least member.
LEMMA Least == 
  ASSUME NEW T \in SUBSET Nat, T # {}
  PROVE  \E i \in T : \A j \in T : i <= j
  <1>1. PICK i \in T : \A j \in T : <<j, i>> \notin OpToRel(<, Nat)
    BY NatLessThanWellFounded, WFMin
  <1>2. \A j \in T : ~(j < i)
    BY <1>1 DEF OpToRel
  <1> QED BY <1>2

\* An event is never out of date beside itself: there is a first that is not.
LEMMA FirstKept == 
  ASSUME TypeInv, NEW n \in DOMAIN cast, Ev(n).ts # NoTs, 
         NEW w \in Seq(DOMAIN Feed)
  PROVE  LET q == Append(w, n) IN
         \E i \in 1..Len(q) : ~Stale(q[i], n) /\ \A j \in 1..(i - 1) : Stale(q[j], n)
  <1> DEFINE q == Append(w, n)
             T == {i \in 1..Len(q) : ~Stale(q[i], n)}
  <1>1. Len(q) = Len(w) + 1 /\ q[Len(q)] = n /\ Len(w) \in Nat
    OBVIOUS
  <1>2. Ev(n).ts \in Nat /\ Window \in Nat
    BY CastEvents, NumbersAssumption DEF NoTs
  <1>3. ~Stale(n, n)
    BY <1>2 DEF Stale
  <1> HIDE DEF q
  <1>4. Len(q) \in T /\ T \in SUBSET Nat
    BY <1>1, <1>3
  <1> HIDE DEF T
  <1>5. PICK i \in T : \A j \in T : i <= j
    BY <1>4, Least
  <1>6. i \in 1..Len(q) /\ ~Stale(q[i], n)
    BY <1>5 DEF T
  <1>7. ASSUME NEW j \in 1..(i - 1) PROVE Stale(q[j], n)
    <2>1. j \in 1..Len(q) /\ ~(i <= j)
      BY <1>1, <1>6
    <2> QED BY <1>5, <2>1 DEF T
  <1> QED BY <1>6, <1>7 DEF q

\* What ingest does: an event without a timestamp is not kept, and from the
\* others only those in front of the first one recent enough are dropped.
LEMMA IngestEffect == 
  ASSUME TypeInv, NEW n \in DOMAIN cast, Ev(n).key \in Keys, Ingest(n)
  PROVE  \/ UNCHANGED <<win, fed>>
         \/ LET k == Ev(n).key
                q == Append(win[k], n)
            IN  \E f \in 1..Len(q) : 
                  /\ \A j \in 1..(f - 1) : Stale(q[j], n)
                  /\ win' = [win EXCEPT ![k] = SubSeq(q, f, Len(q))]
                  /\ fed' = [fed EXCEPT ![k] = Append(@, n)]
  <1> DEFINE k == Ev(n).key
             q == Append(win[k], n)
             first == CHOOSE i \in 1..Len(q) : 
                        ~Stale(q[i], n) /\ \A j \in 1..(i - 1) : Stale(q[j], n)
  <1>1. CASE Ev(n).ts = NoTs
    BY <1>1 DEF Ingest
  <1>2. CASE Ev(n).ts # NoTs
    <2>1. win[k] \in Seq(DOMAIN Feed)
      BY DEF TypeInv, TypeOK
    <2>2. \E i \in 1..Len(q) : ~Stale(q[i], n) /\ \A j \in 1..(i - 1) : Stale(q[j], n)
      BY <1>2, <2>1, FirstKept
    <2>3. first \in 1..Len(q) /\ \A j \in 1..(first - 1) : Stale(q[j], n)
      BY <2>2
    <2>4. /\ win' = [win EXCEPT ![k] = SubSeq(q, first, Len(q))]
          /\ fed' = [fed EXCEPT ![k] = Append(@, n)]
      BY <1>2 DEF Ingest
    <2> HIDE DEF first
    <2> QED BY <2>3, <2>4
  <1> QED BY <1>1, <1>2

LEMMA IngestType == 
  ASSUME TypeInv, NEW n \in DOMAIN cast, Ev(n).key \in Keys, Ingest(n)
  PROVE  win' \in [Keys -> Seq(DOMAIN Feed)] /\ fed' \in [Keys -> Seq(DOMAIN Feed)]
  <1> DEFINE k == Ev(n).key
             q == Append(win[k], n)
  <1>1. /\ win \in [Keys -> Seq(DOMAIN Feed)] /\ fed \in [Keys -> Seq(DOMAIN Feed)]
        /\ n \in DOMAIN Feed
    BY CastEvents DEF TypeInv, TypeOK
  <1>2. CASE UNCHANGED <<win, fed>>
    BY <1>1, <1>2
  <1>3. ASSUME NEW f \in 1..Len(q), 
               win' = [win EXCEPT ![k] = SubSeq(q, f, Len(q))],
               fed' = [fed EXCEPT ![k] = Append(@, n)]
        PROVE  win' \in [Keys -> Seq(DOMAIN Feed)] /\ fed' \in [Keys -> Seq(DOMAIN Feed)]
    <2>1. q \in Seq(DOMAIN Feed) /\ Append(fed[k], n) \in Seq(DOMAIN Feed)
      BY <1>1
    <2>2. SubSeq(q, f, Len(q)) \in Seq(DOMAIN Feed)
      BY <2>1, SubSeqProperties
    <2> HIDE DEF q
    <2> QED BY <1>1, <1>3, <2>1, <2>2
  <1> QED BY <1>2, <1>3, IngestEffect

LEMMA InitType == Init => TypeInv
  BY KeysAssumption, NumbersAssumption, FeedDomain 
     DEF Init, TypeInv, TypeOK, Active

\* Forgetting what is in memory.
LEMMA ForgetType == 
  ASSUME TypeInv, Forget, proc' \in {"connect", "stopped", "dead"},
         UNCHANGED <<cast, alerts, isolated, done>>,
         busUp' \in BOOLEAN, faults' \in 0..MaxFaults
  PROVE  TypeInv'
  <1>1. /\ win' \in [Keys -> Seq(DOMAIN Feed)] /\ fed' \in [Keys -> Seq(DOMAIN Feed)]
        /\ last' \in [Keys -> 0..100] /\ trained' = {}
        /\ inq' \in Seq(DOMAIN Feed) /\ cur' = 0 /\ conn' = "none"
    BY DEF Forget
  <1>2. /\ cast' \in Seq(UNION {Feed[n] : n \in DOMAIN Feed}) 
        /\ Len(cast') <= Len(Feed) /\ isolated' \subseteq Keys
        /\ done' \in Seq(Verdict) /\ alerts' \in Seq(Verdict)
    BY DEF TypeInv, TypeOK
  <1> QED BY <1>1, <1>2 DEF TypeInv, TypeOK, Active

\* The actions in which an event is taken or judged.
LEMMA EventType == 
  ASSUME TypeInv, Process \/ AskClassifier \/ Classified
  PROVE  TypeInv'
  <1>1. UNCHANGED <<busUp, cast, conn, trained, faults>>
    BY DEF Process, AskClassifier, Classified, busVars
  <1>2. ASSUME NEW v \in Verdict, done' = Append(done, v),
               alerts' \in {alerts, Append(alerts, v)}
        PROVE  done' \in Seq(Verdict) /\ alerts' \in Seq(Verdict)
    <2>1. done \in Seq(Verdict) /\ alerts \in Seq(Verdict)
      BY DEF TypeInv, TypeOK
    <2>2. Append(done, v) \in Seq(Verdict) /\ Append(alerts, v) \in Seq(Verdict)
      BY <2>1
    <2> QED BY <1>2, <2>1, <2>2
  <1>3. CASE Process
    <2>1. PICK n \in DOMAIN cast : Taken(n) /\ Judge(n, NoReply)
      BY <1>3 DEF Process
    <2>2. Ev(n).key \in Keys /\ inq' = Tail(inq) /\ inq # <<>> /\ Ingest(n)
      BY <2>1, CastEvents DEF Taken
    <2>3. /\ done' \in Seq(Verdict) /\ alerts' \in Seq(Verdict)
          /\ last' \in [Keys -> 0..100] /\ isolated' \subseteq Keys
      BY <1>2, <2>1, <2>2, JudgeEffect, ReplyType
    <2>4. inq' \in Seq(DOMAIN Feed) /\ UNCHANGED <<proc, cur>>
      BY <1>3, <2>2 DEF Process, TypeInv, TypeOK
    <2> QED BY <1>1, <2>2, <2>3, <2>4, IngestType DEF TypeInv, TypeOK, Ev
  <1>4. CASE AskClassifier
    <2>1. PICK n \in DOMAIN cast : 
            /\ Taken(n) /\ proc' = "classify" /\ cur' = n
            /\ UNCHANGED <<last, outVars>>
      BY <1>4 DEF AskClassifier
    <2>2. Ev(n).key \in Keys /\ inq' = Tail(inq) /\ inq # <<>> /\ Ingest(n)
      BY <2>1, CastEvents DEF Taken
    <2>3. inq' \in Seq(DOMAIN Feed) /\ n \in DOMAIN Feed
      BY <2>2, CastEvents DEF TypeInv, TypeOK
    <2> QED BY <1>1, <2>1, <2>2, <2>3, IngestType 
            DEF TypeInv, TypeOK, Ev, Active, outVars
  <1>5. CASE Classified
    <2>1. PICK reply \in Replies \cup {NoReply} : Judge(cur, reply)
      BY <1>5 DEF Classified
    <2>2. cur \in DOMAIN cast /\ Ev(cur).key \in Keys
      BY <1>5 DEF Classified, TypeInv
    <2>3. /\ done' \in Seq(Verdict) /\ alerts' \in Seq(Verdict)
          /\ last' \in [Keys -> 0..100] /\ isolated' \subseteq Keys
      BY <1>2, <2>1, <2>2, JudgeEffect, ReplyType
    <2>4. proc' = "recv" /\ cur' = 0 /\ UNCHANGED <<inq, win, fed>>
      BY <1>5 DEF Classified
    <2> QED BY <1>1, <2>3, <2>4 DEF TypeInv, TypeOK, Active
  <1> QED BY <1>3, <1>4, <1>5

\* The other steps of the process.
LEMMA ProcessType == 
  ASSUME TypeInv, Connect \/ Skip \/ Eof \/ Raise \/ Crash \/ Restart
  PROVE  TypeInv'
  <1>1. UNCHANGED <<cast, busUp, alerts, isolated, done>> /\ faults' \in 0..MaxFaults
    BY NumbersAssumption DEF Connect, Skip, Eof, Raise, Crash, Restart, busVars, 
           outVars, TypeInv, TypeOK
  <1>2. CASE Connect \/ Restart
    BY <1>1, <1>2 DEF Connect, Restart, TypeInv, TypeOK, Active, memVars
  <1>3. CASE Skip
    <2>1. inq' \in Seq(DOMAIN Feed)
      BY <1>3 DEF Skip, TypeInv, TypeOK
    <2> QED BY <1>1, <1>3, <2>1 DEF Skip, TypeInv, TypeOK, memVars
  <1>4. CASE Eof \/ Raise \/ Crash
    <2>1. Forget /\ proc' \in {"stopped", "dead"}
      BY <1>4 DEF Eof, Raise, Crash
    <2>2. busUp' \in BOOLEAN
      BY <1>1 DEF TypeInv, TypeOK
    <2> QED BY <1>1, <2>1, <2>2, ForgetType
  <1> QED BY <1>2, <1>3, <1>4

LEMMA CastType == ASSUME TypeInv, Cast PROVE TypeInv'
  <1>1. PICK e \in Feed[Len(cast) + 1] : cast' = Append(cast, e)
    BY DEF Cast
  <1>2. Len(cast) + 1 \in DOMAIN Feed /\ Len(cast) \in Nat
    BY FeedDomain, CastEvents DEF Cast
  <1>3. cast' \in Seq(UNION {Feed[n] : n \in DOMAIN Feed}) /\ Len(cast') <= Len(Feed)
    <2>1. e \in UNION {Feed[n] : n \in DOMAIN Feed}
      BY <1>2
    <2>2. cast \in Seq(UNION {Feed[n] : n \in DOMAIN Feed})
      BY CastEvents
    <2> QED BY <1>1, <1>2, <2>1, <2>2, FeedDomain DEF Cast
  <1>4. inq' \in Seq(DOMAIN Feed) /\ conn' \in {"none", "up", "eof"}
    <2>1. /\ inq \in Seq(DOMAIN Feed) /\ conn \in {"none", "up", "eof"}
          /\ Append(inq, Len(cast) + 1) \in Seq(DOMAIN Feed)
      BY <1>2 DEF TypeInv, TypeOK
    <2> QED BY <2>1 DEF Cast
  <1>5. UNCHANGED <<busUp, proc, cur, win, fed, last, trained, alerts, isolated,
                    done, faults>>
    BY DEF Cast, memVars, outVars
  <1>6. proc' = "classify" => cur' \in DOMAIN cast' /\ Ev(cur)'.key \in Keys
    <2> SUFFICES ASSUME proc = "classify" PROVE cur \in DOMAIN cast' /\ cast'[cur].key \in Keys
      BY <1>5 DEF Ev
    <2>1. cur \in DOMAIN cast /\ cast[cur].key \in Keys
      BY DEF TypeInv, Ev
    <2> QED BY <1>1, <2>1, CastEvents, AppendProperties
  <1> QED BY <1>3, <1>4, <1>5, <1>6 DEF TypeInv, TypeOK

LEMMA BusType == 
  ASSUME TypeInv, BusFails \/ BusRestarts PROVE TypeInv'
  <1>1. UNCHANGED <<cast, alerts, isolated, done>>
    BY DEF BusFails, BusRestarts, outVars
  <1>2. CASE BusFails
    <2>1. faults' \in 0..MaxFaults /\ conn' \in {"none", "up", "eof"}
      BY <1>2, NumbersAssumption DEF BusFails, TypeInv, TypeOK
    <2> QED BY <1>1, <1>2, <2>1 DEF BusFails, TypeInv, TypeOK, memVars, Ev
  <1>3. CASE BusRestarts
    <2>1. CASE proc \in Active
      <3>1. Forget /\ proc' = "connect" /\ busUp' = TRUE /\ faults' = faults
        BY <1>3, <2>1 DEF BusRestarts
      <3> QED BY <1>1, <3>1, ForgetType DEF TypeInv, TypeOK
    <2>2. CASE proc \notin Active
      BY <1>1, <1>3, <2>2 DEF BusRestarts, TypeInv, TypeOK, memVars, Ev
    <2> QED BY <2>1, <2>2
  <1> QED BY <1>2, <1>3

LEMMA TypeInvariant == Spec => []TypeInv
  <1>1. TypeInv /\ [Next]_vars => TypeInv'
    <2>1. TypeInv /\ Next => TypeInv'
      BY EventType, ProcessType, CastType, BusType DEF Next, Loop
    <2>2. TypeInv /\ UNCHANGED vars => TypeInv'
      BY DEF vars, busVars, memVars, outVars, TypeInv, TypeOK, Ev
    <2> QED BY <2>1, <2>2
  <1> QED BY <1>1, InitType, PTL DEF Spec

\* The type invariant, for any events, replies and faults.
THEOREM TypeCorrect == Spec => []TypeOK
  <1>1. TypeInv => TypeOK
    BY DEF TypeInv
  <1> QED BY <1>1, TypeInvariant, PTL

-----------------------------------------------------------------------------
(* Verdicts come in the order of the bus.                                  *)

\* What makes InBusOrder inductive: what waits in the socket is in order and
\* later than what is being classified, which is later than every verdict.
Waiting == /\ \A i \in 1..Len(inq) : inq[i] \in DOMAIN cast
           /\ \A i, j \in 1..Len(inq) : i < j => inq[i] < inq[j]
Judged == \A i \in 1..Len(done) : 
            /\ done[i].ev \in DOMAIN cast
            /\ \A j \in 1..Len(inq) : done[i].ev < inq[j]
            /\ proc = "classify" => done[i].ev < cur
Current == proc = "classify" => \A j \in 1..Len(inq) : cur < inq[j]
OrderInv == Waiting /\ Judged /\ Current /\ InBusOrder

\* A line is taken: it is the first that waits.
LEMMA TakenFirst == 
  ASSUME TypeInv, OrderInv, inq # <<>>, inq' = Tail(inq), cast' = cast
  PROVE  /\ Waiting' /\ Head(inq) \in DOMAIN cast
         /\ \A j \in 1..Len(inq') : Head(inq) < inq'[j]
         /\ \A i \in 1..Len(done) : 
              /\ done[i].ev \in DOMAIN cast /\ done[i].ev < Head(inq)
              /\ \A j \in 1..Len(inq') : done[i].ev < inq'[j]
  <1>1. /\ Len(inq) \in Nat \ {0} /\ Len(inq') = Len(inq) - 1 
        /\ Head(inq) = inq[1] /\ \A j \in 1..Len(inq') : inq'[j] = inq[j + 1]
    BY DEF TypeInv, TypeOK
  <1> QED BY <1>1 DEF OrderInv, Waiting, Judged

\* A verdict later than all the others and earlier than what waits.
LEMMA JudgedNext == 
  ASSUME TypeInv, NEW v \in Verdict, done' = Append(done, v), v.ev \in DOMAIN cast', 
         proc' = "recv", Waiting', InBusOrder,
         \A j \in 1..Len(inq') : v.ev < inq'[j],
         \A i \in 1..Len(done) : 
           /\ done[i].ev \in DOMAIN cast' /\ done[i].ev < v.ev
           /\ \A j \in 1..Len(inq') : done[i].ev < inq'[j]
  PROVE  OrderInv'
  <1>1. /\ Len(done) \in Nat /\ Len(done') = Len(done) + 1
        /\ done'[Len(done) + 1] = v
        /\ \A i \in 1..Len(done) : done'[i] = done[i]
    BY DEF TypeInv, TypeOK
  <1>2. Judged'
    BY <1>1 DEF Judged
  <1>3. InBusOrder'
    BY <1>1 DEF InBusOrder
  <1> QED BY <1>2, <1>3 DEF OrderInv, Current

LEMMA NextOrder == TypeInv /\ OrderInv /\ [Next]_vars => OrderInv'
  <1> SUFFICES ASSUME TypeInv, OrderInv, [Next]_vars PROVE OrderInv'
    OBVIOUS
  <1>1. CASE UNCHANGED vars \/ BusFails \/ Connect \/ Restart
    BY <1>1 DEF vars, busVars, outVars, BusFails, Connect, Restart, OrderInv, 
                Waiting, Judged, Current, InBusOrder
  <1>2. ASSUME Forget, proc' # "classify", UNCHANGED <<cast, done>> 
        PROVE  OrderInv'
    BY <1>2 DEF Forget, OrderInv, Waiting, Judged, Current, InBusOrder
  <1>3. CASE Eof \/ Raise \/ Crash \/ (BusRestarts /\ proc \in Active)
    BY <1>2, <1>3 DEF Eof, Raise, Crash, BusRestarts, busVars, outVars
  <1>4. CASE BusRestarts /\ proc \notin Active
    BY <1>4 DEF BusRestarts, outVars, OrderInv, Waiting, Judged, Current, 
                InBusOrder
  <1>5. CASE Skip
    <2>1. /\ inq # <<>> /\ inq' = Tail(inq) 
          /\ UNCHANGED <<cast, done, proc>> /\ proc = "recv"
      BY <1>5 DEF Skip, busVars, outVars
    <2> QED BY <2>1, TakenFirst DEF OrderInv, Judged, Current, InBusOrder
  <1>6. CASE Process
    <2>1. PICK n \in DOMAIN cast : Taken(n) /\ Judge(n, NoReply)
      BY <1>6 DEF Process
    <2>2. /\ inq # <<>> /\ inq' = Tail(inq) /\ n = Head(inq) /\ cast' = cast
          /\ proc' = "recv" /\ Ev(n).key \in Keys
      BY <1>6, <2>1, CastEvents DEF Process, Taken, busVars
    <2>3. PICK v \in Verdict : v.ev = n /\ done' = Append(done, v)
      BY <2>1, <2>2, JudgeEffect, ReplyType
    <2> QED BY <2>2, <2>3, TakenFirst, JudgedNext DEF OrderInv
  <1>7. CASE AskClassifier
    <2>1. /\ inq # <<>> /\ inq' = Tail(inq) /\ cur' = Head(inq) 
          /\ UNCHANGED <<cast, done>>
      BY <1>7 DEF AskClassifier, Taken, busVars, outVars
    <2> QED BY <2>1, TakenFirst DEF OrderInv, Judged, Current, InBusOrder
  <1>8. CASE Classified
    <2>1. PICK reply \in Replies \cup {NoReply} : Judge(cur, reply)
      BY <1>8 DEF Classified
    <2>2. /\ proc = "classify" /\ proc' = "recv" /\ UNCHANGED <<cast, inq>>
          /\ cur \in DOMAIN cast /\ Ev(cur).key \in Keys
      BY <1>8 DEF Classified, busVars, TypeInv
    <2>3. PICK v \in Verdict : v.ev = cur /\ done' = Append(done, v)
      BY <2>1, <2>2, JudgeEffect, ReplyType
    <2>4. Waiting'
      BY <2>2 DEF OrderInv, Waiting
    <2> QED BY <2>2, <2>3, <2>4, JudgedNext DEF OrderInv, Judged, Current
  <1>9. CASE Cast
    <2>1. /\ DOMAIN cast' = DOMAIN cast \cup {Len(cast) + 1}
          /\ DOMAIN cast = 1..Len(cast) /\ Len(cast) \in Nat
      <3>1. PICK e \in Feed[Len(cast) + 1] : cast' = Append(cast, e)
        BY <1>9 DEF Cast
      <3> QED BY <3>1, CastEvents
    <2>2. UNCHANGED <<proc, cur, done>> 
          /\ inq' \in {inq, Append(inq, Len(cast) + 1)}
      BY <1>9 DEF Cast, outVars
    <2>3. CASE inq' = inq
      BY <2>1, <2>2, <2>3 DEF OrderInv, Waiting, Judged, Current, InBusOrder
    <2>4. CASE inq' = Append(inq, Len(cast) + 1)
      <3>1. /\ Len(inq) \in Nat /\ Len(inq') = Len(inq) + 1
            /\ inq'[Len(inq) + 1] = Len(cast) + 1
            /\ \A i \in 1..Len(inq) : inq'[i] = inq[i]
        BY <2>4 DEF TypeInv, TypeOK
      <3>2. \A n \in DOMAIN cast : n < Len(cast) + 1
        BY <2>1
      <3>3. Waiting' 
        BY <2>1, <3>1, <3>2 DEF OrderInv, Waiting
      <3>4. Judged' /\ InBusOrder'
        BY <2>1, <2>2, <3>1, <3>2 DEF OrderInv, Judged, InBusOrder
      <3>5. Current'
        BY <2>2, <3>1, <3>2 DEF OrderInv, Current, TypeInv
      <3> QED BY <3>3, <3>4, <3>5 DEF OrderInv
    <2> QED BY <2>2, <2>3, <2>4
  <1> QED BY <1>1, <1>3, <1>4, <1>5, <1>6, <1>7, <1>8, <1>9 DEF Next, Loop

\* Alerts follow the bus, and no event is judged twice, across drops of the
\* connection, crashes and restarts.
THEOREM InBusOrderCorrect == Spec => []InBusOrder
  <1>1. Init => OrderInv
    BY DEF Init, OrderInv, Waiting, Judged, Current, InBusOrder
  <1>2. OrderInv => InBusOrder
    BY DEF OrderInv
  <1> QED BY <1>1, <1>2, NextOrder, TypeInvariant, PTL DEF Spec

LEMMA JudgedAlert == 
  ASSUME TypeInv, AlertPerFinding, InBusOrder', NEW v \in Verdict, 
         done' = Append(done, v), 
         alerts' = IF v.cat # "Normal" THEN Append(alerts, v) ELSE alerts
  PROVE  AlertPerFinding'
  <1>1. done \in Seq(Verdict) /\ alerts \in Seq(Verdict)
    BY DEF TypeInv, TypeOK
  <1>2. PICK m \in Nat : 
          /\ Len(done) = m /\ Len(done') = m + 1 /\ done'[m + 1] = v
          /\ \A i \in 1..m : done'[i] = done[i]
          /\ 1..(m + 1) = (1..m) \cup {m + 1}
    <2>1. Len(done) \in Nat
      BY <1>1
    <2> QED BY <1>1, <2>1
  <1>3. Entries(done)' = Entries(done) \cup {v}
    BY <1>2 DEF Entries
  <1>4. CASE v.cat = "Normal"
    BY <1>3, <1>4 DEF AlertPerFinding, Entries
  <1>5. CASE v.cat # "Normal"
    <2>1. PICK k \in Nat : 
            /\ Len(alerts) = k /\ Len(alerts') = k + 1 /\ alerts'[k + 1] = v
            /\ \A i \in 1..k : alerts'[i] = alerts[i]
            /\ 1..(k + 1) = (1..k) \cup {k + 1}
      <3>1. Len(alerts) \in Nat
        BY <1>1
      <3> QED BY <1>1, <1>5, <3>1
    <2>2. Entries(alerts)' = Entries(alerts) \cup {v}
      BY <2>1 DEF Entries
    <2>3. \A i \in 1..k : alerts[i].ev < v.ev
      <3> SUFFICES ASSUME NEW i \in 1..k PROVE alerts[i].ev < v.ev
        OBVIOUS
      <3>1. PICK l \in 1..m : done[l] = alerts[i]
        <4>1. alerts[i] \in Entries(alerts)
          BY <2>1 DEF Entries
        <4>2. alerts[i] \in Entries(done)
          BY <4>1 DEF AlertPerFinding
        <4> QED BY <1>2, <4>2 DEF Entries
      <3>2. l \in 1..(m + 1) /\ m + 1 \in 1..(m + 1) /\ l < m + 1
        OBVIOUS
      <3>3. done'[l].ev < done'[m + 1].ev
        BY <1>2, <3>2 DEF InBusOrder
      <3> QED BY <1>2, <3>1, <3>3
    <2>4. \A i, j \in 1..(k + 1) : i < j => alerts'[i].ev < alerts'[j].ev
      <3> SUFFICES ASSUME NEW i \in 1..(k + 1), NEW j \in 1..(k + 1), i < j
                   PROVE  alerts'[i].ev < alerts'[j].ev
        OBVIOUS
      <3>1. i \in 1..k /\ (j \in 1..k \/ j = k + 1)
        OBVIOUS
      <3> QED BY <2>1, <2>3, <3>1 DEF AlertPerFinding
    <2> QED BY <1>3, <1>5, <2>1, <2>2, <2>4 DEF AlertPerFinding
  <1> QED BY <1>4, <1>5

LEMMA NextAlert == 
  TypeInv /\ AlertPerFinding /\ InBusOrder' /\ [Next]_vars => AlertPerFinding'
  <1> SUFFICES ASSUME TypeInv, AlertPerFinding, InBusOrder', [Next]_vars 
               PROVE  AlertPerFinding'
    OBVIOUS
  <1>1. CASE Process
    <2>1. PICK n \in DOMAIN cast : Taken(n) /\ Judge(n, NoReply)
      BY <1>1 DEF Process
    <2>2. Ev(n).key \in Keys
      BY <2>1, CastEvents DEF Taken
    <2> QED BY <2>1, <2>2, JudgeEffect, ReplyType, JudgedAlert
  <1>2. CASE Classified
    <2>1. PICK reply \in Replies \cup {NoReply} : Judge(cur, reply)
      BY <1>2 DEF Classified
    <2>2. cur \in DOMAIN cast /\ Ev(cur).key \in Keys
      BY <1>2 DEF Classified, TypeInv
    <2> QED BY <2>1, <2>2, JudgeEffect, ReplyType, JudgedAlert
  <1>3. CASE UNCHANGED <<alerts, done>>
    BY <1>3 DEF AlertPerFinding, Entries
  <1> QED BY <1>1, <1>2, <1>3 
          DEF Next, Loop, Connect, Skip, AskClassifier, Eof, Raise, Crash, 
              Restart, Cast, BusFails, BusRestarts, vars, outVars

\* The alert log is the verdicts above Normal, whatever the suppression
\* remembers, for any events, replies and restarts.
THEOREM AlertPerFindingCorrect == Spec => []AlertPerFinding
  <1>1. Init => AlertPerFinding
    BY DEF Init, AlertPerFinding, Entries
  <1> QED BY <1>1, NextAlert, TypeInvariant, InBusOrderCorrect, PTL DEF Spec

-----------------------------------------------------------------------------
(* The engine as shipped never trains a model.                             *)

LearnInv == trained = {} /\ LearningMode

LEMMA NextLearn == TypeInv /\ LearnInv /\ [Next]_vars => LearnInv'
  <1> SUFFICES ASSUME TypeInv, LearnInv, [Next]_vars PROVE LearnInv'
    OBVIOUS
  <1>1. ASSUME trained' \in {trained, {}}, UNCHANGED <<isolated, done>> 
        PROVE  LearnInv'
    BY <1>1 DEF LearnInv, LearningMode
  <1>2. CASE \/ UNCHANGED vars \/ BusFails \/ BusRestarts \/ Cast \/ Connect 
             \/ Restart \/ Skip \/ Eof \/ Raise \/ Crash \/ AskClassifier
    BY <1>1, <1>2 DEF vars, memVars, outVars, BusFails, BusRestarts, Cast, 
           Connect, Restart, Skip, Eof, Raise, Crash, AskClassifier, Forget
  <1>3. ASSUME NEW n \in DOMAIN cast, Ev(n).key \in Keys, 
               NEW reply \in [label : Label, conf : Int], Judge(n, reply),
               trained' = trained
        PROVE  LearnInv'
    <2>1. PICK v \in Verdict : /\ done' = Append(done, v) /\ v.cat # "Critical" 
                             /\ isolated' = isolated
      BY <1>3, JudgeEffect DEF LearnInv
    <2>2. /\ Len(done) \in Nat /\ Len(done') = Len(done) + 1
          /\ done'[Len(done) + 1] = v
          /\ \A i \in 1..Len(done) : done'[i] = done[i]
      BY <2>1 DEF TypeInv, TypeOK
    <2> QED BY <1>3, <2>1, <2>2 DEF LearnInv, LearningMode
  <1>4. CASE Process
    <2>1. PICK n \in DOMAIN cast : Taken(n) /\ Judge(n, NoReply)
      BY <1>4 DEF Process
    <2>2. Ev(n).key \in Keys /\ trained' = trained
      BY <1>4, <2>1, CastEvents DEF Process, Taken
    <2> QED BY <1>3, <2>1, <2>2, ReplyType
  <1>5. CASE Classified
    <2>1. PICK reply \in Replies \cup {NoReply} : Judge(cur, reply)
      BY <1>5 DEF Classified
    <2>2. cur \in DOMAIN cast /\ Ev(cur).key \in Keys /\ trained' = trained
      BY <1>5 DEF Classified, TypeInv
    <2> QED BY <1>3, <2>1, <2>2, ReplyType
  <1> QED BY <1>2, <1>4, <1>5 DEF Next, Loop

\* No event and no reply, whatever confidence it claims, raises a Critical
\* alert or isolates a session.
THEOREM LearningModeCorrect == Spec => []LearningMode
  <1>1. Init => LearnInv
    BY DEF Init, LearnInv, LearningMode
  <1>2. LearnInv => LearningMode
    BY DEF LearnInv
  <1> QED BY <1>1, <1>2, NextLearn, TypeInvariant, PTL DEF Spec

-----------------------------------------------------------------------------
(* The window.                                                             *)

\* The window is the end of what was ingested, and what is gone was gone by
\* some later event's clock; what was ingested was cast.
Behind(m, n, evs) == evs[m].ts < evs[n].ts - Window
Complete(w, f, evs) == 
    LET gone == Len(f) - Len(w)
    IN  /\ gone \in Nat /\ w = SubSeq(f, gone + 1, Len(f))
        /\ \A i \in 1..gone : \E j \in 1..Len(f) : Behind(f[i], f[j], evs)
WindowInv == \A k \in Keys : /\ Complete(win[k], fed[k], cast)
                             /\ \A i \in 1..Len(fed[k]) : fed[k][i] \in DOMAIN cast

\* Appending to both and dropping what is stale for the new event keeps that.
LEMMA CompleteNext == 
  ASSUME NEW S, NEW w \in Seq(S), NEW f \in Seq(S), NEW evs,
         Complete(w, f, evs), NEW n \in S,
         NEW c \in 1..(Len(w) + 1), 
         \A j \in 1..(c - 1) : Behind(Append(w, n)[j], n, evs)
  PROVE  Complete(SubSeq(Append(w, n), c, Len(w) + 1), Append(f, n), evs)
  <1> DEFINE gone == Len(f) - Len(w)
             q == Append(w, n)
             g == Append(f, n)
             x == SubSeq(q, c, Len(w) + 1)
  <1>1. gone \in Nat /\ Len(w) \in Nat /\ Len(f) \in Nat /\ Len(f) = gone + Len(w)
    BY DEF Complete
  <1>2. /\ q \in Seq(S) /\ Len(q) = Len(w) + 1 /\ g \in Seq(S) /\ Len(g) = Len(f) + 1
        /\ q[Len(w) + 1] = n /\ g[Len(f) + 1] = n
        /\ \A i \in 1..Len(w) : q[i] = w[i]
        /\ \A i \in 1..Len(f) : g[i] = f[i]
    OBVIOUS
  <1>3. \A i \in 1..Len(w) : w[i] = f[gone + i]
    <2>1. w = SubSeq(f, gone + 1, Len(f))
      BY DEF Complete
    <2> QED BY <1>1, <2>1, SubSeqProperties
  <1> HIDE DEF q, g, gone
  <1>4. \A i \in 1..(Len(w) + 1) : q[i] = g[gone + i]
    <2> TAKE i \in 1..(Len(w) + 1)
    <2>1. CASE i = Len(w) + 1
      BY <1>1, <1>2, <2>1
    <2>2. CASE i # Len(w) + 1
      <3>1. i \in 1..Len(w) /\ gone + i \in 1..Len(f)
        BY <1>1, <2>2
      <3> QED BY <1>2, <1>3, <3>1
    <2> QED BY <2>1, <2>2
  <1>5. /\ x \in Seq(S) /\ Len(x) = Len(w) + 2 - c
        /\ \A i \in 1..Len(x) : x[i] = q[c + i - 1]
    BY <1>1, <1>2, SubSeqProperties
  <1> DEFINE gone2 == gone + c - 1
             y == SubSeq(g, gone2 + 1, Len(g))
  <1>6. /\ y \in Seq(S) /\ Len(y) = Len(w) + 2 - c
        /\ \A i \in 1..Len(y) : y[i] = g[gone2 + i]
    BY <1>1, <1>2, SubSeqProperties
  <1>7. x = y
    <2>1. \A i \in 1..Len(x) : x[i] = y[i]
      BY <1>1, <1>4, <1>5, <1>6
    <2> QED BY <1>5, <1>6, <2>1, SeqEqual
  <1>8. gone2 \in Nat /\ Len(g) - Len(x) = gone2
    BY <1>1, <1>2, <1>5
  <1>9. ASSUME NEW i \in 1..gone2 
        PROVE  \E j \in 1..Len(g) : Behind(g[i], g[j], evs)
    <2>1. CASE i <= gone
      <3>1. PICK j \in 1..Len(f) : Behind(f[i], f[j], evs)
        BY <2>1 DEF Complete, gone
      <3> QED BY <1>1, <1>2, <2>1, <3>1
    <2>2. CASE i > gone
      <3>1. i - gone \in 1..(c - 1) /\ i - gone \in 1..(Len(w) + 1)
        BY <1>1, <2>2
      <3>2. Behind(q[i - gone], n, evs)
        BY <3>1 DEF q
      <3>3. q[i - gone] = g[i]
        BY <1>1, <1>4, <3>1
      <3>4. Len(f) + 1 \in 1..Len(g)
        BY <1>1, <1>2
      <3> QED BY <1>2, <3>2, <3>3, <3>4
    <2> QED BY <1>1, <2>1, <2>2
  <1> HIDE DEF x, y, gone2
  <1>10. Complete(x, g, evs)
    BY <1>7, <1>8, <1>9 DEF Complete, y
  <1> QED BY <1>10 DEF x, q, g

LEMMA CompleteEmpty == ASSUME NEW evs PROVE Complete(<<>>, <<>>, evs)
  <1>1. Len(<<>>) = 0 /\ SubSeq(<<>>, 1, 0) = <<>> /\ 0 - 0 = 0 /\ 0 + 1 = 1
    OBVIOUS
  <1>2. 1..0 = {} /\ 0 \in Nat
    OBVIOUS
  <1> QED BY <1>1, <1>2 DEF Complete

LEMMA IngestWindow == 
  ASSUME TypeInv, WindowInv, NEW n \in DOMAIN cast, Ev(n).key \in Keys, Ingest(n),
         cast' = cast
  PROVE  WindowInv'
  <1> DEFINE k == Ev(n).key
             q == Append(win[k], n)
  <1>1. CASE UNCHANGED <<win, fed>>
    BY <1>1 DEF WindowInv
  <1>2. ASSUME NEW f \in 1..Len(q),
               \A j \in 1..(f - 1) : Stale(q[j], n),
               win' = [win EXCEPT ![k] = SubSeq(q, f, Len(q))],
               fed' = [fed EXCEPT ![k] = Append(@, n)]
        PROVE  WindowInv'
    <2>1. /\ win \in [Keys -> Seq(DOMAIN Feed)] /\ fed \in [Keys -> Seq(DOMAIN Feed)]
          /\ n \in DOMAIN Feed
      BY CastEvents DEF TypeInv, TypeOK
    <2>2. /\ win'[k] = SubSeq(q, f, Len(win[k]) + 1) /\ fed'[k] = Append(fed[k], n)
          /\ \A l \in Keys \ {k} : win'[l] = win[l] /\ fed'[l] = fed[l]
          /\ f \in 1..(Len(win[k]) + 1)
      <3>1. Len(q) = Len(win[k]) + 1
        BY <2>1
      <3>2. k \in Keys /\ DOMAIN win = Keys /\ DOMAIN fed = Keys
        BY <2>1
      <3>3. f \in 1..(Len(win[k]) + 1)
        BY <1>2, <3>1
      <3>4. win' = [win EXCEPT ![k] = SubSeq(q, f, Len(win[k]) + 1)]
        BY <1>2, <3>1
      <3>5. fed' = [fed EXCEPT ![k] = Append(fed[k], n)]
        BY <1>2
      <3> HIDE DEF q, k
      <3> QED BY <3>2, <3>3, <3>4, <3>5
    <2>3. \A j \in 1..(f - 1) : Behind(q[j], n, cast)
      BY <1>2 DEF Stale, Behind, Ev
    <2>4. Complete(win[k], fed[k], cast)
      BY DEF WindowInv
    <2>5. win[k] \in Seq(DOMAIN Feed) /\ fed[k] \in Seq(DOMAIN Feed)
      BY <2>1
    <2>6. Complete(SubSeq(q, f, Len(win[k]) + 1), Append(fed[k], n), cast)
      BY <2>1, <2>2, <2>3, <2>4, <2>5, CompleteNext
    <2>7. \A i \in 1..Len(Append(fed[k], n)) : Append(fed[k], n)[i] \in DOMAIN cast
      BY <2>5 DEF WindowInv
    <2> SUFFICES ASSUME NEW l \in Keys
                 PROVE  /\ Complete(win'[l], fed'[l], cast)
                        /\ \A i \in 1..Len(fed'[l]) : fed'[l][i] \in DOMAIN cast
      BY DEF WindowInv
    <2>8. CASE l = k
      BY <2>2, <2>6, <2>7, <2>8
    <2>9. CASE l # k
      BY <2>2, <2>9 DEF WindowInv
    <2> QED BY <2>8, <2>9
  <1> QED BY <1>1, <1>2, IngestEffect

LEMMA NextWindow == TypeInv /\ WindowInv /\ [Next]_vars => WindowInv'
  <1> SUFFICES ASSUME TypeInv, WindowInv, [Next]_vars PROVE WindowInv'
    OBVIOUS
  <1>1. ASSUME UNCHANGED <<win, fed, cast>> PROVE WindowInv'
    BY <1>1 DEF WindowInv
  <1>2. ASSUME Forget PROVE WindowInv'
    <2>1. \A k \in Keys : win'[k] = <<>> /\ fed'[k] = <<>>
      BY <1>2 DEF Forget
    <2>2. Complete(<<>>, <<>>, cast') 
      BY CompleteEmpty
    <2>3. \A i \in 1..Len(<<>>) : FALSE
      OBVIOUS
    <2> QED BY <2>1, <2>2, <2>3 DEF WindowInv
  <1>3. CASE \/ UNCHANGED vars \/ BusFails \/ Connect \/ Restart \/ Skip 
             \/ Classified \/ (BusRestarts /\ proc \notin Active)
    BY <1>1, <1>3 DEF vars, busVars, memVars, BusFails, Connect, Restart, Skip, 
                      Classified, BusRestarts
  <1>4. CASE Eof \/ Raise \/ Crash \/ (BusRestarts /\ proc \in Active)
    BY <1>2, <1>4 DEF Eof, Raise, Crash, BusRestarts
  <1>5. CASE Process \/ AskClassifier
    <2>1. PICK n \in DOMAIN cast : Taken(n)
      BY <1>5 DEF Process, AskClassifier
    <2>2. Ev(n).key \in Keys /\ Ingest(n) /\ cast' = cast
      BY <1>5, <2>1, CastEvents DEF Process, AskClassifier, Taken, busVars
    <2> QED BY <2>2, IngestWindow
  <1>6. CASE Cast
    <2>1. PICK e \in Feed[Len(cast) + 1] : cast' = Append(cast, e)
      BY <1>6 DEF Cast
    <2>2. DOMAIN cast \subseteq DOMAIN cast' /\ \A n \in DOMAIN cast : cast'[n] = cast[n]
      BY <2>1, CastEvents
    <2>3. UNCHANGED <<win, fed>>
      BY <1>6 DEF Cast, memVars
    <2> SUFFICES ASSUME NEW k \in Keys
                 PROVE  /\ Complete(win[k], fed[k], cast')
                        /\ \A i \in 1..Len(fed[k]) : fed[k][i] \in DOMAIN cast'
      BY <2>3 DEF WindowInv
    <2>4. Complete(win[k], fed[k], cast)
          /\ \A i \in 1..Len(fed[k]) : fed[k][i] \in DOMAIN cast
      BY DEF WindowInv
    <2>5. Len(fed[k]) \in Nat /\ Len(win[k]) \in Nat
      BY DEF TypeInv, TypeOK
    <2> DEFINE gone == Len(fed[k]) - Len(win[k])
    <2>6. ASSUME NEW i \in 1..gone
          PROVE  \E j \in 1..Len(fed[k]) : Behind(fed[k][i], fed[k][j], cast')
      <3>1. PICK j \in 1..Len(fed[k]) : Behind(fed[k][i], fed[k][j], cast)
        BY <2>4 DEF Complete, gone
      <3>2. i \in 1..Len(fed[k])
        BY <2>5
      <3>3. fed[k][i] \in DOMAIN cast /\ fed[k][j] \in DOMAIN cast
        BY <2>4, <3>2
      <3>4. Behind(fed[k][i], fed[k][j], cast')
        BY <2>2, <3>1, <3>3 DEF Behind
      <3> QED BY <3>4
    <2>7. Complete(win[k], fed[k], cast')
      BY <2>4, <2>6 DEF Complete
    <2> QED BY <2>2, <2>4, <2>7
  <1> QED BY <1>3, <1>4, <1>5, <1>6 DEF Next, Loop

\* No event within Window of a session's newest is ever missing from its
\* window, whatever clocks stamped the events.
THEOREM WindowCompleteCorrect == Spec => []WindowComplete
  <1>1. Init => WindowInv
    BY DEF Init, WindowInv, Complete
  <1>2. WindowInv => WindowComplete
    BY DEF WindowInv, Complete, Behind, WindowComplete, Ev
  <1> QED BY <1>1, <1>2, NextWindow, TypeInvariant, PTL DEF Spec
=============================================================================
