--------------------------- MODULE SseClientProofs ---------------------------
(***************************************************************************)
(* Proofs about EventStream and the page of SseClient that is composed     *)
(* with it, for any students, streams, lines, faults and sizes of queue,   *)
(* ring and replay.                                                        *)
(***************************************************************************)
EXTENDS SseClient, SequenceTheorems, TLAPS

-----------------------------------------------------------------------------
(* Sequences.                                                              *)

LEMMA LastOfProperties == 
  ASSUME NEW S, NEW q \in Seq(S), NEW n \in Nat
  PROVE  /\ LastOf(q, n) \in Seq(S)
         /\ Len(LastOf(q, n)) = (IF Len(q) > n THEN n ELSE Len(q))
         /\ \A i \in 1..Len(LastOf(q, n)) : 
              /\ LastOf(q, n)[i] = q[Len(q) - Len(LastOf(q, n)) + i]
              /\ Len(q) - Len(LastOf(q, n)) + i \in 1..Len(q)
  <1>1. PICK m \in Nat : m = Len(q)
    OBVIOUS
  <1>2. CASE m > n
    <2>1. LastOf(q, n) = SubSeq(q, m - n + 1, m)
      BY <1>1, <1>2 DEF LastOf
    <2>2. m - n + 1 \in 1..m + 1 /\ m - (m - n + 1) + 1 = n
      BY <1>2
    <2>3. /\ LastOf(q, n) \in Seq(S) /\ Len(LastOf(q, n)) = n
          /\ \A i \in 1..n : LastOf(q, n)[i] = q[m - n + i]
      BY <1>1, <1>2, <2>1, <2>2, SubSeqProperties
    <2> QED BY <1>1, <1>2, <2>3
  <1>3. CASE ~(m > n)
    <2>1. LastOf(q, n) = SubSeq(q, 1, m)
      BY <1>1, <1>3 DEF LastOf
    <2>2. LastOf(q, n) = q
      BY <1>1, <2>1
    <2> QED BY <1>1, <1>3, <2>2
  <1> QED BY <1>2, <1>3

\* Longer feeds.
LEMMA SeqGrows == 
  ASSUME NEW m \in Nat, NEW n \in Nat, m <= n, NEW q \in Seq(1..m)
  PROVE  q \in Seq(1..n)
  OBVIOUS

-----------------------------------------------------------------------------
(* Types.                                                                  *)

\* What STypeOK says of each queue, beyond its type.
QueueOK(q) == Len(q.queue) <= QueueSize /\ (q.pc # "none" => q.of \in Student)

LEMMA Grows == 
  ASSUME Len(feed) \in Nat, Len(feed') \in Nat, Len(feed) <= Len(feed'),
         Len(seen) \in Nat, Len(seen') \in Nat, Len(seen) <= Len(seen')
  PROVE  \A x \in StreamState : x \in StreamState'
  <1>1. \A q \in Seq(1..Len(feed)) : q \in Seq(1..Len(feed'))
    BY SeqGrows
  <1>2. \A i \in 0..Len(seen) : i \in 0..Len(seen')
    OBVIOUS
  <1>3. \A D \in SUBSET (1..Len(feed)) : D \in SUBSET (1..Len(feed'))
    OBVIOUS
  <1> QED BY <1>1, <1>2, <1>3 DEF StreamState

LEMMA NoStreamType == STypeOK => NoStream \in StreamState
  BY DEF NoStream, StreamState, STypeOK

\* A stream whose record changes.
LEMMA StreamType == 
  ASSUME STypeOK, NEW c \in Stream, NEW x \in StreamState, 
         QueueOK(x), st' = [st EXCEPT ![c] = x], 
         UNCHANGED <<feed, seen>>
  PROVE  /\ st' \in [Stream -> StreamState']
         /\ \A d \in Stream : QueueOK(st'[d])
  BY DEF STypeOK, StreamState, QueueOK

LEMMA RegisterType == 
  ASSUME STypeOK, NEW c \in Stream, NEW s \in Student, Register(c, s),
         UNCHANGED <<feed, seen>>
  PROVE  /\ subs' \subseteq Stream /\ st' \in [Stream -> StreamState']
         /\ \A d \in Stream : QueueOK(st'[d])
  <1> DEFINE x == [st[c] EXCEPT !.pc = "open", !.of = s, !.base = Len(seen)]
  <1>1. st[c] \in StreamState /\ Len(seen) \in 0..Len(seen)
    BY DEF STypeOK
  <1>2. x \in StreamState /\ x.queue = st[c].queue
    BY <1>1 DEF StreamState
  <1>3. QueueOK(x)
    BY <1>1, <1>2 DEF QueueOK, STypeOK, StreamState
  <1> QED BY <1>2, <1>3, StreamType DEF Register, STypeOK

\* Single fields of a stream's record.
LEMMA SetQueue == 
  ASSUME NEW q \in StreamState, NEW x \in Seq(1..Len(feed))
  PROVE  /\ [q EXCEPT !.queue = x] \in StreamState 
         /\ [q EXCEPT !.queue = x].queue = x
         /\ [q EXCEPT !.queue = x].pc = q.pc /\ [q EXCEPT !.queue = x].of = q.of
  BY DEF StreamState

LEMMA SetDropped == 
  ASSUME NEW q \in StreamState, NEW x \in SUBSET (1..Len(feed))
  PROVE  /\ [q EXCEPT !.dropped = x] \in StreamState 
         /\ [q EXCEPT !.dropped = x].queue = q.queue
         /\ [q EXCEPT !.dropped = x].pc = q.pc /\ [q EXCEPT !.dropped = x].of = q.of
  BY DEF StreamState

\* What a queue takes and gives.
LEMMA OfferType == 
  ASSUME STypeOK, NEW q \in StreamState, QueueOK(q), NEW e \in 1..Len(feed)
  PROVE  Offer(q, e) \in StreamState /\ QueueOK(Offer(q, e))
  <1>1. q.queue \in Seq(1..Len(feed)) /\ q.dropped \in SUBSET (1..Len(feed))
    BY DEF StreamState
  <1>2. CASE Len(q.queue) < QueueSize
    <2>0. PICK u \in Seq(1..Len(feed)) : u = q.queue
      BY <1>1
    <2>1. PICK x \in Seq(1..Len(feed)) : x = Append(u, e) /\ Len(x) = Len(u) + 1
      <3>1. Append(u, e) \in Seq(1..Len(feed)) /\ Len(Append(u, e)) = Len(u) + 1
        BY AppendProperties
      <3> QED BY <3>1
    <2>2. Offer(q, e) = [q EXCEPT !.queue = x]
      BY <1>2, <2>0, <2>1 DEF Offer
    <2>3. /\ Offer(q, e) \in StreamState /\ Offer(q, e).queue = x
          /\ Offer(q, e).pc = q.pc /\ Offer(q, e).of = q.of
      BY <2>2, SetQueue
    <2>4. Len(x) <= QueueSize
      BY <1>2, <2>0, <2>1, SizesAssumption
    <2> QED BY <2>3, <2>4 DEF QueueOK
  <1>3. CASE ~(Len(q.queue) < QueueSize)
    <2>1. Offer(q, e) = [q EXCEPT !.dropped = q.dropped \cup {e}]
      BY <1>3 DEF Offer
    <2>2. q.dropped \cup {e} \in SUBSET (1..Len(feed))
      BY <1>1
    <2>3. /\ Offer(q, e) \in StreamState /\ Offer(q, e).queue = q.queue
          /\ Offer(q, e).pc = q.pc /\ Offer(q, e).of = q.of
      BY <2>1, <2>2, SetDropped
    <2> QED BY <2>3 DEF QueueOK
  <1> QED BY <1>2, <1>3

\* The event a stream passes next.
LEMMA NextEvent == 
  ASSUME NEW S, NEW p \in Seq(S), NEW q \in Seq(S), p \o q # <<>>
  PROVE  /\ Head(p \o q) = (IF p # <<>> THEN Head(p) ELSE Head(q))
         /\ Head(p \o q) \in S
         /\ p # <<>> => Tail(p) \in Seq(S) /\ p \o q = <<Head(p)>> \o (Tail(p) \o q)
         /\ p = <<>> => q # <<>> /\ p \o q = q
  <1>1. CASE p # <<>>
    <2>1. Len(p) \in Nat /\ Len(p) > 0 /\ Len(q) \in Nat
      BY <1>1
    <2>2. (p \o q)[1] = p[1] /\ p[1] \in S
      BY <2>1
    <2>3. Tail(p) \in Seq(S)
      BY <1>1
    <2>4. p = <<Head(p)>> \o Tail(p)
      BY <1>1
    <2>5. p \o q = <<Head(p)>> \o (Tail(p) \o q)
      BY <1>1, <2>3, <2>4
    <2> QED BY <1>1, <2>2, <2>3, <2>5
  <1>2. CASE p = <<>>
    <2>1. p \o q = q
      BY <1>2
    <2> QED BY <1>2, <2>1
  <1> QED BY <1>1, <1>2

LEMMA PassType == 
  ASSUME NEW q \in StreamState, q.back \o q.queue # <<>>
  PROVE  /\ Pass(q) \in StreamState /\ Len(Pass(q).queue) <= Len(q.queue)
         /\ Pass(q).pc = q.pc /\ Pass(q).of = q.of
         /\ Head(q.back \o q.queue) \in 1..Len(feed)
  <1>1. /\ q.back \in Seq(1..Len(feed)) /\ q.queue \in Seq(1..Len(feed))
        /\ q.out \in Seq(1..Len(feed))
    BY DEF StreamState
  <1>2. PICK h : h = Head(q.back \o q.queue)
    OBVIOUS
  <1>3. h \in 1..Len(feed)
    BY <1>1, <1>2, NextEvent
  <1>4. PICK o \in Seq(1..Len(feed)) : o = Append(q.out, h)
    BY <1>1, <1>3, AppendProperties
  <1>5. CASE q.back # <<>>
    <2>1. PICK t \in Seq(1..Len(feed)) : t = Tail(q.back)
      BY <1>1, <1>5, HeadTailProperties
    <2>2. Pass(q) = [q EXCEPT !.out = o, !.back = t]
      BY <1>2, <1>4, <1>5, <2>1 DEF Pass
    <2>3. /\ Pass(q) \in StreamState /\ Pass(q).queue = q.queue
          /\ Pass(q).pc = q.pc /\ Pass(q).of = q.of
      BY <2>2 DEF StreamState
    <2>4. Len(q.queue) <= Len(q.queue)
      BY <1>1
    <2> QED BY <1>2, <1>3, <2>3, <2>4
  <1>6. CASE q.back = <<>>
    <2>1. q.queue # <<>>
      BY <1>1, <1>6, NextEvent
    <2>2. PICK t \in Seq(1..Len(feed)) : 
            t = Tail(q.queue) /\ Len(t) = Len(q.queue) - 1
      BY <1>1, <2>1, HeadTailProperties
    <2>3. Pass(q) = [q EXCEPT !.out = o, !.queue = t]
      BY <1>2, <1>4, <1>6, <2>2 DEF Pass
    <2>4. /\ Pass(q) \in StreamState /\ Pass(q).queue = t
          /\ Pass(q).pc = q.pc /\ Pass(q).of = q.of
      BY <2>3 DEF StreamState
    <2>5. Len(t) <= Len(q.queue)
      BY <1>1, <2>2
    <2> QED BY <1>2, <1>3, <2>4, <2>5
  <1> QED BY <1>5, <1>6

LEMMA YieldType == 
  ASSUME STypeOK, NEW c \in Stream, Yield(c)
  PROVE  STypeOK' /\ Head(Pending(c)) \in 1..Len(feed)
  <1>1. st[c] \in StreamState /\ Len(st[c].queue) \in Nat
        /\ QueueOK(st[c])
    BY DEF STypeOK, StreamState, QueueOK
  <1>2. /\ Pass(st[c]) \in StreamState 
        /\ Len(Pass(st[c]).queue) <= Len(st[c].queue)
        /\ Pass(st[c]).pc = st[c].pc /\ Pass(st[c]).of = st[c].of
        /\ Head(Pending(c)) \in 1..Len(feed)
    BY <1>1, PassType DEF Yield, Pending
  <1>3. QueueOK(Pass(st[c]))
    <2>1. Len(Pass(st[c]).queue) \in Nat
      BY <1>2 DEF StreamState
    <2>2. Len(Pass(st[c]).queue) <= QueueSize
      BY <1>1, <1>2, <2>1, SizesAssumption DEF QueueOK
    <2> QED BY <1>1, <1>2, <2>2 DEF QueueOK
  <1>4. /\ st' \in [Stream -> StreamState']
        /\ \A d \in Stream : QueueOK(st'[d])
    BY <1>2, <1>3, StreamType DEF Yield, bus, loop
  <1> QED BY <1>2, <1>4 DEF Yield, STypeOK, QueueOK, bus, loop

LEMMA CastType == 
  ASSUME STypeOK, NEW line \in Student \cup {Noise, Poison}, Cast(line)
  PROVE  STypeOK' /\ Len(feed') = Len(feed) + 1
  <1>1. PICK n \in Nat : n = Len(feed)
    BY DEF STypeOK
  <1>2. /\ feed' \in Seq(Student \cup {Noise, Poison}) /\ Len(feed') = n + 1
        /\ n + 1 <= MaxLines
    BY <1>1, SizesAssumption DEF Cast, STypeOK
  <1>3. \A q : q \in Seq(1..n) => q \in Seq(1..n + 1)
    BY SeqGrows
  <1>4. sock' \in Seq(1..n + 1)
    <2>1. sock \in Seq(1..n + 1) /\ n + 1 \in 1..n + 1
      BY <1>1, <1>3 DEF STypeOK
    <2> QED BY <1>1, <2>1, AppendProperties DEF Cast
  <1>5. seen' \in Seq(1..n + 1) /\ ring' \in [Student -> Seq(1..n + 1)]
    BY <1>1, <1>3 DEF Cast, STypeOK
  <1>6. st' \in [Stream -> StreamState']
    <2>1. Len(seen) \in Nat /\ Len(seen') = Len(seen)
      BY DEF Cast, STypeOK
    <2> QED BY <1>1, <1>2, <2>1, Grows DEF Cast, STypeOK
  <1> QED BY <1>1, <1>2, <1>4, <1>5, <1>6 DEF Cast, STypeOK

\* What reading a line does to the rings and the queues.
LEMMA ReadType == 
  ASSUME STypeOK, ReadLine
  PROVE  STypeOK'
  <1>1. /\ Head(sock) \in 1..Len(feed) /\ Tail(sock) \in Seq(1..Len(feed))
        /\ sock' = Tail(sock) /\ feed' = feed
    BY HeadTailProperties DEF ReadLine, STypeOK, bus
  <1>2. PICK e \in 1..Len(feed) : e = Head(sock)
    BY <1>1
  <1>3. CASE UNCHANGED <<ring, seen, st>>
    <2>1. task' \in {"away", "reading", "dead"}
      BY DEF ReadLine, STypeOK
    <2>2. StreamState' = StreamState
      BY <1>1, <1>3 DEF StreamState
    <2> QED BY <1>1, <1>3, <2>1, <2>2 DEF ReadLine, STypeOK, bus
  <1>4. ASSUME NEW s \in Student, s = feed[e],
               ring' = [ring EXCEPT ![s] = LastOf(Append(@, e), RingSize)],
               seen' = Append(seen, e), st' = Fanout(s, e), task' = task
        PROVE  STypeOK'
    <2>1. seen' \in Seq(1..Len(feed)) /\ Len(seen') = Len(seen) + 1
          /\ Len(seen) \in Nat /\ Len(feed) \in Nat
      BY <1>4 DEF STypeOK
    <2>2. ring' \in [Student -> Seq(1..Len(feed))]
      <3>1. ring[s] \in Seq(1..Len(feed))
        BY DEF STypeOK
      <3>2. Append(ring[s], e) \in Seq(1..Len(feed))
        BY <3>1, AppendProperties
      <3>3. LastOf(Append(ring[s], e), RingSize) \in Seq(1..Len(feed))
        BY <3>2, LastOfProperties, SizesAssumption
      <3> QED BY <1>4, <3>3 DEF STypeOK
    <2>3. \A c \in Stream : 
            st'[c] \in StreamState /\ QueueOK(st'[c])
      BY <1>4, OfferType DEF Fanout, STypeOK, QueueOK
    <2>4. \A x \in StreamState : x \in StreamState'
      BY <1>1, <2>1, Grows
    <2>5. st' \in [Stream -> StreamState']
      BY <1>4, <2>3, <2>4 DEF Fanout
    <2> QED BY <1>1, <1>4, <2>1, <2>2, <2>3, <2>5 DEF ReadLine, STypeOK, QueueOK, bus
  <1> QED BY <1>2, <1>3, <1>4 DEF ReadLine

\* The steps of the server that touch neither the feed nor the queues.
LEMMA ServerType == 
  ASSUME STypeOK, Server
  PROVE  STypeOK'
  <1>1. ASSUME UNCHANGED <<feed, seen, st>> 
        PROVE  StreamState' = StreamState
    BY <1>1 DEF StreamState
  <1>2. CASE Fail
    <2>1. fails' \in 0..MaxFails
      BY <1>2, SizesAssumption DEF Fail, STypeOK
    <2> QED BY <1>1, <1>2, <2>1 DEF Fail, STypeOK
  <1>3. CASE Start
    BY <1>1, <1>3 DEF Start, STypeOK, loop
  <1>4. CASE Crash
    <2>1. /\ fails' \in 0..MaxFails /\ <<>> \in Seq(1..Len(feed))
          /\ feed' = feed /\ seen' = <<>> /\ Len(seen') = 0
      BY <1>4, SizesAssumption DEF Crash, STypeOK
    <2>2. NoStream \in StreamState' /\ Len(NoStream.queue) = 0
      BY <2>1 DEF NoStream, StreamState, STypeOK
    <2>3. st' \in [Stream -> StreamState']
          /\ \A c \in Stream : QueueOK(st'[c])
      BY <1>4, <2>2, SizesAssumption DEF Crash, QueueOK, NoStream
    <2> QED BY <1>4, <2>1, <2>3 DEF Crash, STypeOK, QueueOK
  <1>5. CASE Dial
    <2>1. <<>> \in Seq(1..Len(feed))
      OBVIOUS
    <2> QED BY <1>1, <1>5, <2>1 DEF Dial, STypeOK, bus
  <1>6. CASE ReadLine
    BY <1>6, ReadType
  <1>7. CASE Eof
    <2>1. <<>> \in Seq(1..Len(feed))
      OBVIOUS
    <2> QED BY <1>1, <1>7, <2>1 DEF Eof, STypeOK, bus
  <1>8. ASSUME NEW line \in Student \cup {Noise, Poison}, Cast(line)
        PROVE  STypeOK'
    BY <1>8, CastType
  <1>9. ASSUME NEW c \in Stream, Begin(c)
        PROVE  STypeOK'
    <2>1. st[c].of \in Student /\ st[c] \in StreamState
      BY <1>9 DEF Begin, STypeOK
    <2>2. PICK old \in Seq(1..Len(feed)) : old = Recent(st[c].of) 
      BY <2>1, LastOfProperties, SizesAssumption DEF Recent, STypeOK
    <2>3. PICK n \in Nat : n = Len(old)
      BY <2>2
    <2>4. PICK x : x = [st[c] EXCEPT !.pc = "stream", !.back = old, !.snap = n]
      OBVIOUS
    <2>5. x \in StreamState /\ QueueOK(x)
      BY <2>1, <2>2, <2>3, <2>4 DEF STypeOK, StreamState, QueueOK
    <2>6. st' = [st EXCEPT ![c] = x]
      BY <1>9, <2>2, <2>3, <2>4 DEF Begin
    <2>7. /\ st' \in [Stream -> StreamState']
          /\ \A d \in Stream : QueueOK(st'[d])
      BY <1>9, <2>5, <2>6, StreamType DEF Begin, bus, loop
    <2> QED BY <1>9, <2>7 DEF Begin, STypeOK, QueueOK, bus, loop
  <1>10. ASSUME NEW c \in Stream, Abandon(c)
         PROVE  STypeOK'
    <2>1. PICK x : x = [st[c] EXCEPT !.pc = "left"]
      OBVIOUS
    <2>2. x \in StreamState /\ QueueOK(x)
      BY <1>10, <2>1 DEF Abandon, STypeOK, StreamState, QueueOK
    <2>3. /\ st' \in [Stream -> StreamState']
          /\ \A d \in Stream : QueueOK(st'[d])
      BY <1>10, <2>1, <2>2, StreamType DEF Abandon, bus, loop
    <2> QED BY <1>10, <2>3 DEF Abandon, STypeOK, QueueOK, bus, loop
  <1>11. ASSUME NEW c \in Stream, Finally(c)
         PROVE  STypeOK'
    <2>1. NoStream \in StreamState /\ QueueOK(NoStream)
      BY NoStreamType, SizesAssumption DEF NoStream, QueueOK
    <2>2. /\ st' \in [Stream -> StreamState']
          /\ \A d \in Stream : QueueOK(st'[d])
      BY <1>11, <2>1, StreamType DEF Finally, bus, loop
    <2> QED BY <1>11, <2>2 DEF Finally, STypeOK, QueueOK, bus, loop
  <1> QED 
    BY <1>2, <1>3, <1>4, <1>5, <1>6, <1>7, <1>8, <1>9, <1>10, <1>11 DEF Server

\* The effects of the page.
LEMMA CleanupType == 
  ASSUME TypeOK
  PROVE  /\ Cleanup \in Seq(EffectState) /\ Len(Cleanup) = Len(eff)
         /\ DOMAIN Cleanup = DOMAIN eff
         /\ \A g \in DOMAIN eff : g # Len(eff) => Cleanup[g] = eff[g]
         /\ \A g \in DOMAIN eff : g = Len(eff) => 
              Cleanup[g] = [eff[g] EXCEPT !.cancelled = TRUE, 
                                          !.late = eff[g].timer, !.es = None]
  <1>1. PICK n \in Nat : n = Len(eff) /\ DOMAIN eff = 1..n
    BY DEF TypeOK
  <1>2. \A g \in 1..n : eff[g] \in EffectState
    BY <1>1 DEF TypeOK
  <1>3. Cleanup = [g \in 1..n |-> IF g # n THEN eff[g] 
                     ELSE [eff[g] EXCEPT !.cancelled = TRUE, 
                                         !.late = eff[g].timer, !.es = None]]
    BY <1>1 DEF Cleanup
  <1>4. \A g \in 1..n : 
          [eff[g] EXCEPT !.cancelled = TRUE, !.late = eff[g].timer, !.es = None]
            \in EffectState
    BY <1>2 DEF EffectState
  <1>5. Cleanup \in [1..n -> EffectState]
    BY <1>2, <1>3, <1>4
  <1>6. Cleanup \in Seq(EffectState) /\ Len(Cleanup) = n
    BY <1>5
  <1> QED BY <1>1, <1>3, <1>6

LEMMA MessageType == 
  ASSUME TypeOK, NEW c \in Stream, Message(c)
  PROVE  TypeOK'
  <1>1. STypeOK' /\ Head(Pending(c)) \in 1..Len(feed)
    BY YieldType DEF Message, TypeOK
  <1>2. Head(Pending(c)) \in 1..MaxLines
    BY <1>1, SizesAssumption DEF TypeOK, STypeOK
  <1>3. PICK x \in Seq(1..MaxLines) : x = Append(items, Head(Pending(c)))
    BY <1>2, AppendProperties DEF TypeOK
  <1>4. LastOf(x, ItemCap) \in Seq(1..MaxLines) /\ Len(LastOf(x, ItemCap)) <= ItemCap
    <2>1. ItemCap \in Nat /\ Len(x) \in Nat
      BY <1>3, ClientAssumption
    <2>2. /\ LastOf(x, ItemCap) \in Seq(1..MaxLines)
          /\ Len(LastOf(x, ItemCap)) = (IF Len(x) > ItemCap THEN ItemCap ELSE Len(x))
      BY <1>3, <2>1, LastOfProperties
    <2> QED BY <2>1, <2>2
  <1>5. items' \in Seq(1..MaxLines) /\ Len(items') <= ItemCap
    BY <1>3, <1>4 DEF Message, TypeOK
  <1> QED BY <1>1, <1>5 DEF Message, TypeOK

LEMMA BrowserType == 
  ASSUME TypeOK, Browser
  PROVE  TypeOK'
  <1>1. PICK n \in Nat : n = Len(eff) /\ DOMAIN eff = 1..n
    BY DEF TypeOK
  <1>2. \A g \in 1..n : eff[g] \in EffectState
    BY <1>1 DEF TypeOK
  <1>3. <<>> \in Seq(1..MaxLines) /\ Len(<<>>) <= ItemCap
    BY ClientAssumption
  <1>4. ASSUME NEW s \in Student, Select(s)
        PROVE  TypeOK'
    <2>1. PICK c \in Fresh : /\ Connect(c, s, Closed(Cleanup))
                             /\ eff' = Append(Cleanup, Effect(s, c))
      BY <1>4 DEF Select
    <2>2. c \in Stream /\ link' \subseteq Stream 
      BY <2>1 DEF Fresh, Connect, TypeOK, STypeOK
    <2>3. /\ subs' \subseteq Stream /\ st' \in [Stream -> StreamState']
          /\ \A d \in Stream : QueueOK(st'[d])
      BY <1>4, <2>1, <2>2, RegisterType DEF Select, Connect, TypeOK, bus, loop
    <2>4. STypeOK'
      BY <1>4, <2>2, <2>3 DEF Select, TypeOK, STypeOK, QueueOK, bus, loop
    <2>5. Effect(s, c) \in EffectState
      BY <2>2 DEF Effect, EffectState
    <2>6. eff' \in Seq(EffectState)
      BY <2>1, <2>5, CleanupType, AppendProperties
    <2> QED BY <1>3, <1>4, <2>4, <2>6 DEF Select, TypeOK
  <1>5. CASE Unmount
    <2>1. STypeOK'
      <3>1. StreamState' = StreamState
        BY <1>5 DEF Unmount, StreamState, bus, loop
      <3> QED BY <1>5, <3>1 DEF Unmount, TypeOK, STypeOK, bus, loop
    <2> QED BY <1>3, <1>5, <2>1, CleanupType DEF Unmount, TypeOK
  <1>6. ASSUME NEW g \in 1..n, Error(g)
        PROVE  TypeOK'
    <2>1. fails' \in 0..MaxFails
      BY <1>6, SizesAssumption DEF Error, TypeOK, STypeOK
    <2>2. StreamState' = StreamState
      BY <1>6 DEF Error, StreamState, loop
    <2>3. STypeOK'
      BY <1>6, <2>1, <2>2 DEF Error, TypeOK, STypeOK, loop
    <2>4. PICK x : x = [eff[g] EXCEPT !.es = None, !.timer = ~eff[g].cancelled]
      OBVIOUS
    <2>5. x \in EffectState
      BY <1>2, <2>4 DEF EffectState
    <2>6. eff' = [eff EXCEPT ![g] = x]
      BY <1>1, <1>2, <1>6, <2>4 DEF Error, OnError, TypeOK, EffectState
    <2>7. eff' \in Seq(EffectState)
      BY <1>1, <2>5, <2>6, ExceptSeq DEF TypeOK
    <2> QED BY <1>6, <2>3, <2>7 DEF Error, TypeOK
  <1>7. ASSUME NEW g \in 1..n, Fire(g)
        PROVE  TypeOK'
    <2>1. PICK c \in Fresh : /\ Connect(c, eff[g].student, {})
                             /\ eff' = [eff EXCEPT ![g].timer = FALSE, ![g].es = c]
      BY <1>7 DEF Fire
    <2>2. c \in Stream /\ eff[g].student \in Student /\ link' \subseteq Stream
      BY <1>2, <2>1 DEF Fresh, Connect, TypeOK, STypeOK, EffectState
    <2>3. /\ subs' \subseteq Stream /\ st' \in [Stream -> StreamState']
          /\ \A d \in Stream : QueueOK(st'[d])
      BY <1>7, <2>1, <2>2, RegisterType DEF Fire, Connect, TypeOK, bus, loop
    <2>4. STypeOK'
      BY <1>7, <2>2, <2>3 DEF Fire, TypeOK, STypeOK, QueueOK, bus, loop
    <2>5. PICK x : x = [eff[g] EXCEPT !.timer = FALSE, !.es = c]
      OBVIOUS
    <2>6. x \in EffectState
      BY <1>2, <2>2, <2>5 DEF EffectState
    <2>7. eff' = [eff EXCEPT ![g] = x]
      BY <1>1, <1>2, <2>1, <2>5 DEF TypeOK, EffectState
    <2>8. eff' \in Seq(EffectState)
      BY <1>1, <2>6, <2>7, ExceptSeq DEF TypeOK
    <2> QED BY <1>7, <2>4, <2>8 DEF Fire, TypeOK
  <1> QED BY <1>1, <1>4, <1>5, <1>6, <1>7 DEF Browser

LEMMA InitType == Init => TypeOK
  <1> SUFFICES ASSUME Init PROVE TypeOK
    OBVIOUS
  <1>1. /\ feed \in Seq(Student \cup {Noise, Poison}) /\ Len(feed) = 0 
        /\ <<>> \in Seq(1..Len(feed)) /\ Len(seen) = 0
        /\ <<>> \in Seq(1..MaxLines) /\ <<>> \in Seq(EffectState) 
    BY DEF Init, SInit
  <1>2. NoStream \in StreamState /\ Len(NoStream.queue) = 0
    BY <1>1 DEF NoStream, StreamState
  <1>3. st \in [Stream -> StreamState] /\ \A c \in Stream : QueueOK(st[c])
    BY <1>2, SizesAssumption DEF Init, SInit, QueueOK, NoStream
  <1>4. Len(feed) <= MaxLines /\ fails \in 0..MaxFails
    BY <1>1, SizesAssumption DEF Init, SInit
  <1>5. STypeOK
    BY <1>1, <1>3, <1>4 DEF Init, SInit, STypeOK, QueueOK
  <1> QED BY <1>1, <1>5, ClientAssumption DEF Init, TypeOK

\* The type invariant of the page, the streams and the task that feeds them.
THEOREM TypeCorrect == Spec => []TypeOK
  <1>1. TypeOK /\ [Next]_vars => TypeOK'
    <2> SUFFICES ASSUME TypeOK, [Next]_vars PROVE TypeOK'
      OBVIOUS
    <2>1. CASE Browser
      BY <2>1, BrowserType
    <2>2. ASSUME NEW c \in Stream, Message(c) PROVE TypeOK'
      BY <2>2, MessageType
    <2>3. CASE Server /\ UNCHANGED client
      BY <2>3, ServerType DEF TypeOK, client
    <2>4. CASE UNCHANGED vars
      <3>1. StreamState' = StreamState
        BY <2>4 DEF vars, svars, bus, loop, StreamState
      <3> QED BY <2>4, <3>1 DEF vars, svars, bus, loop, client, TypeOK, STypeOK
    <2> QED BY <2>1, <2>2, <2>3, <2>4 DEF Next
  <1> QED BY InitType, <1>1, PTL DEF Spec

-----------------------------------------------------------------------------
(* The seam.  Joined says of one stream how what it sends (w) relates to   *)
(* the events of the rings (z) and their students (f).                     *)

Increasing(q) == \A i, j \in 1..Len(q) : i < j => q[i] < q[j]
Sent(q) == q.out \o (q.back \o q.queue)

\* It sends its student's events; what it dropped was an event.
Own(w, q, f, z) == /\ q.snap <= Len(w)
                   /\ \A i \in 1..Len(w) : f[w[i]] = q.of
                   /\ \A e \in q.dropped : \E k \in 1..Len(z) : z[k] = e
\* Behind the replay, each event once and in order, all after the registration
Sound(w, q, z) == 
  /\ \A i, j \in 1..Len(w) : (q.snap < i /\ i < j) => w[i] < w[j]
  /\ \A i \in 1..Len(w) : q.snap < i => 
       w[i] \notin q.dropped /\ \E k \in 1..Len(z) : q.base < k /\ z[k] = w[i]
\* and none of them missing.
Full(w, q, f, z) == 
  \A k \in 1..Len(z) : 
    (q.base < k /\ f[z[k]] = q.of /\ z[k] \notin q.dropped) =>
      \E i \in 1..Len(w) : q.snap < i /\ w[i] = z[k]
\* The replay has what came before, from its first event on.
Replayed(w, q, f, z) == 
  \A k \in 1..Len(z) : 
    (k <= q.base /\ q.snap > 0 /\ f[z[k]] = q.of /\ w[1] <= z[k]) =>
      \E i \in 1..q.snap : w[i] = z[k]
Joined(w, q, f, z) == /\ Own(w, q, f, z) /\ Sound(w, q, z)
                      /\ Full(w, q, f, z) /\ Replayed(w, q, f, z)

\* What Joined looks at of a stream's record.
SameEnds(q, r) == /\ q.of = r.of /\ q.base = r.base /\ q.snap = r.snap

LEMMA JoinedFrame == 
  ASSUME NEW n \in Nat, NEW f, NEW g, \A i \in 1..n : f[i] = g[i],
         NEW w \in Seq(1..n), NEW z \in Seq(1..n), NEW q, NEW r,
         SameEnds(q, r), r.dropped = q.dropped, Joined(w, q, f, z)
  PROVE  Joined(w, r, g, z)
  <1>1. \A i \in 1..Len(w) : w[i] \in 1..n
    OBVIOUS
  <1>2. \A k \in 1..Len(z) : z[k] \in 1..n
    OBVIOUS
  <1> QED 
    BY <1>1, <1>2 DEF Joined, Own, Sound, Full, Replayed, SameEnds

LEMMA Appended == 
  ASSUME NEW S, NEW z \in Seq(S), NEW e, NEW y, y = Append(z, e)
  PROVE  /\ Len(z) \in Nat /\ Len(y) = Len(z) + 1 /\ y[Len(z) + 1] = e
         /\ \A k \in 1..Len(z) : y[k] = z[k] /\ k \in 1..Len(y)
         /\ \A k \in 1..Len(y) : k \in 1..Len(z) \/ k = Len(z) + 1
         /\ Len(z) + 1 \in 1..Len(y)
  OBVIOUS

\* An event of another student.
LEMMA JoinedOther == 
  ASSUME NEW n \in Nat, NEW f, NEW w \in Seq(1..n), NEW z \in Seq(1..n), 
         NEW q, q.base \in 0..Len(z), NEW e \in 1..n, f[e] # q.of, 
         Joined(w, q, f, z)
  PROVE  Joined(w, q, f, Append(z, e))
  <1>1. PICK y : y = Append(z, e)
    OBVIOUS
  <1>2. /\ Len(z) \in Nat /\ Len(y) = Len(z) + 1 /\ y[Len(z) + 1] = e
        /\ \A k \in 1..Len(z) : y[k] = z[k] /\ k \in 1..Len(y)
        /\ \A k \in 1..Len(y) : k \in 1..Len(z) \/ k = Len(z) + 1
    BY <1>1, Appended
  <1>3. Own(w, q, f, y)
    BY <1>2 DEF Joined, Own
  <1>4. Sound(w, q, y)
    BY <1>2 DEF Joined, Sound
  <1>5. Full(w, q, f, y)
    BY <1>2 DEF Joined, Full
  <1>6. Replayed(w, q, f, y)
    BY <1>2 DEF Joined, Replayed
  <1> QED BY <1>1, <1>3, <1>4, <1>5, <1>6 DEF Joined

\* An event the queue takes.
LEMMA JoinedTaken == 
  ASSUME NEW n \in Nat, NEW f, NEW w \in Seq(1..n), NEW z \in Seq(1..n), 
         NEW q, q.base \in 0..Len(z), q.snap \in Nat, 
         NEW e \in 1..n, f[e] = q.of, \A k \in 1..Len(z) : z[k] < e,
         NEW r, SameEnds(q, r), r.dropped = q.dropped, Joined(w, q, f, z)
  PROVE  Joined(Append(w, e), r, f, Append(z, e))
  <1>1. PICK y : y = Append(z, e)
    OBVIOUS
  <1>2. /\ Len(z) \in Nat /\ Len(y) = Len(z) + 1 /\ y[Len(z) + 1] = e
        /\ \A k \in 1..Len(z) : y[k] = z[k] /\ k \in 1..Len(y)
        /\ \A k \in 1..Len(y) : k \in 1..Len(z) \/ k = Len(z) + 1
        /\ Len(z) + 1 \in 1..Len(y)
    BY <1>1, Appended
  <1>3. PICK v : v = Append(w, e)
    OBVIOUS
  <1>4. /\ Len(w) \in Nat /\ Len(v) = Len(w) + 1 /\ v[Len(w) + 1] = e
        /\ \A k \in 1..Len(w) : v[k] = w[k] /\ k \in 1..Len(v)
        /\ \A k \in 1..Len(v) : k \in 1..Len(w) \/ k = Len(w) + 1
        /\ Len(w) + 1 \in 1..Len(v)
    BY <1>3, Appended
  <1>5. \A k \in 1..Len(z) : z[k] \in Nat
    OBVIOUS
  <1>6. e \notin q.dropped
    <2>1. \A x \in q.dropped : \E k \in 1..Len(z) : z[k] = x
      BY DEF Joined, Own
    <2>2. \A k \in 1..Len(z) : z[k] # e
      BY <1>5
    <2> QED BY <2>1, <2>2
  <1>7. Own(v, r, f, y)
    <2>1. /\ q.snap <= Len(w) /\ \A i \in 1..Len(w) : f[w[i]] = q.of
          /\ \A x \in q.dropped : \E k \in 1..Len(z) : z[k] = x
      BY DEF Joined, Own
    <2>2. q.snap <= Len(v)
      BY <1>4, <2>1
    <2>3. \A i \in 1..Len(v) : f[v[i]] = q.of
      BY <1>4, <2>1
    <2>4. \A x \in q.dropped : \E k \in 1..Len(y) : y[k] = x
      BY <1>2, <2>1
    <2> QED BY <2>2, <2>3, <2>4 DEF Own, SameEnds
  <1>8. Sound(v, r, y)
    <2>1. \A i \in 1..Len(w) : q.snap < i => w[i] < e
      BY DEF Joined, Sound
    <2>2. \A i, j \in 1..Len(v) : (q.snap < i /\ i < j) => v[i] < v[j]
      <3> SUFFICES ASSUME NEW i \in 1..Len(v), NEW j \in 1..Len(v),
                          q.snap < i, i < j
                   PROVE  v[i] < v[j]
        OBVIOUS
      <3>1. i \in 1..Len(w)
        BY <1>4
      <3>2. CASE j \in 1..Len(w)
        BY <1>4, <3>1, <3>2 DEF Joined, Sound
      <3>3. CASE j = Len(w) + 1
        BY <1>4, <2>1, <3>1, <3>3
      <3> QED BY <1>4, <3>2, <3>3
    <2>3. ASSUME NEW i \in 1..Len(v), q.snap < i
          PROVE  v[i] \notin q.dropped /\ \E k \in 1..Len(y) : q.base < k /\ y[k] = v[i]
      <3>1. CASE i \in 1..Len(w)
        <4>1. PICK k \in 1..Len(z) : q.base < k /\ z[k] = w[i]
          BY <2>3, <3>1 DEF Joined, Sound
        <4> QED BY <1>2, <1>4, <2>3, <3>1, <4>1 DEF Joined, Sound
      <3>2. CASE i = Len(w) + 1
        <4>1. Len(z) + 1 \in 1..Len(y) /\ q.base < Len(z) + 1 /\ y[Len(z) + 1] = v[i]
          BY <1>2, <1>4, <3>2
        <4> QED BY <1>4, <1>6, <3>2, <4>1
      <3> QED BY <1>4, <3>1, <3>2
    <2> QED BY <2>2, <2>3 DEF Sound, SameEnds
  <1>9. Full(v, r, f, y)
    <2> SUFFICES ASSUME NEW k \in 1..Len(y), 
                        q.base < k, f[y[k]] = q.of, y[k] \notin q.dropped
                 PROVE  \E i \in 1..Len(v) : q.snap < i /\ v[i] = y[k]
      BY DEF Full, SameEnds
    <2>1. CASE k \in 1..Len(z)
      <3>1. PICK i \in 1..Len(w) : q.snap < i /\ w[i] = z[k]
        BY <1>2, <2>1 DEF Joined, Full
      <3> QED BY <1>2, <1>4, <2>1, <3>1
    <2>2. CASE k = Len(z) + 1
      <3>1. q.snap < Len(w) + 1
        BY <1>4 DEF Joined, Own
      <3> QED BY <1>2, <1>4, <2>2, <3>1
    <2> QED BY <1>2, <2>1, <2>2
  <1>10. Replayed(v, r, f, y)
    <2> SUFFICES ASSUME NEW k \in 1..Len(y), k <= q.base, q.snap > 0, 
                        f[y[k]] = q.of, v[1] <= y[k]
                 PROVE  \E i \in 1..q.snap : v[i] = y[k]
      BY DEF Replayed, SameEnds
    <2>1. k \in 1..Len(z)
      BY <1>2
    <2>2. q.snap <= Len(w)
      BY DEF Joined, Own
    <2>3. 1 \in 1..Len(w) /\ v[1] = w[1]
      <3>1. 1 <= q.snap /\ 1 <= Len(w)
        BY <2>2
      <3> QED BY <1>4, <3>1
    <2>4. PICK i \in 1..q.snap : w[i] = z[k]
      BY <1>2, <2>1, <2>3 DEF Joined, Replayed
    <2>5. i \in 1..Len(w)
      BY <1>4, <2>2
    <2> QED BY <1>2, <1>4, <2>1, <2>4, <2>5
  <1> QED BY <1>1, <1>3, <1>7, <1>8, <1>9, <1>10 DEF Joined

\* An event a full queue refuses.
LEMMA JoinedDropped == 
  ASSUME NEW n \in Nat, NEW f, NEW w \in Seq(1..n), NEW z \in Seq(1..n), 
         NEW q, q.base \in 0..Len(z), NEW e \in 1..n, f[e] = q.of, 
         \A k \in 1..Len(z) : z[k] < e, Joined(w, q, f, z),
         NEW r, SameEnds(q, r), r.dropped = q.dropped \cup {e}
  PROVE  Joined(w, r, f, Append(z, e))
  <1>1. PICK y : y = Append(z, e)
    OBVIOUS
  <1>2. /\ Len(z) \in Nat /\ Len(y) = Len(z) + 1 /\ y[Len(z) + 1] = e
        /\ \A k \in 1..Len(z) : y[k] = z[k] /\ k \in 1..Len(y)
        /\ \A k \in 1..Len(y) : k \in 1..Len(z) \/ k = Len(z) + 1
        /\ Len(z) + 1 \in 1..Len(y)
    BY <1>1, Appended
  <1>3. \A k \in 1..Len(z) : z[k] \in Nat /\ z[k] # e
    OBVIOUS
  <1>4. Own(w, r, f, y)
    BY <1>2 DEF Joined, Own, SameEnds
  <1>5. Sound(w, r, y)
    <2>1. \A i \in 1..Len(w) : q.snap < i => w[i] # e
      BY <1>3 DEF Joined, Sound
    <2> QED BY <1>2, <2>1 DEF Joined, Sound, SameEnds
  <1>6. Full(w, r, f, y)
    BY <1>2 DEF Joined, Full, SameEnds
  <1>7. Replayed(w, r, f, y)
    <2>1. \A k \in 1..Len(y) : k <= q.base => k \in 1..Len(z)
      BY <1>2
    <2> QED BY <1>2, <2>1 DEF Joined, Replayed, SameEnds
  <1> QED BY <1>1, <1>4, <1>5, <1>6, <1>7 DEF Joined

\* A stream that has just registered.
LEMMA JoinedRegister == 
  ASSUME NEW f, NEW S, NEW z \in Seq(S), 
         NEW q, q.base = Len(z), q.snap = 0, q.dropped = {}
  PROVE  Joined(<<>>, q, f, z)
  BY DEF Joined, Own, Sound, Full, Replayed

\* A stream that has read its replay.
LEMMA JoinedReplay == 
  ASSUME NEW n \in Nat, NEW f, NEW w \in Seq(1..n), NEW z \in Seq(1..n), 
         NEW q, q.snap = 0, Joined(w, q, f, z), NEW old \in Seq(1..n),
         \A i \in 1..Len(old) : f[old[i]] = q.of,
         \A k \in 1..Len(z) : 
           (old # <<>> /\ f[z[k]] = q.of /\ old[1] <= z[k]) => 
             \E i \in 1..Len(old) : old[i] = z[k],
         NEW r, r.of = q.of, r.base = q.base, r.dropped = q.dropped,
         r.snap = Len(old)
  PROVE  Joined(old \o w, r, f, z)
  <1>1. PICK m \in Nat : m = Len(old)
    OBVIOUS
  <1>2. PICK v : v = old \o w
    OBVIOUS
  <1>3. /\ Len(w) \in Nat /\ Len(v) = m + Len(w)
        /\ \A i \in 1..m : v[i] = old[i] 
        /\ \A i \in 1..Len(w) : v[m + i] = w[i] /\ m + i \in 1..Len(v) /\ m < m + i
        /\ \A i \in 1..Len(v) : i \in 1..m \/ (m < i /\ i - m \in 1..Len(w) 
                                               /\ v[i] = w[i - m])
    BY <1>1, <1>2
  <1>4. Own(v, r, f, z)
    <2>1. /\ \A i \in 1..Len(w) : f[w[i]] = q.of
          /\ \A x \in q.dropped : \E k \in 1..Len(z) : z[k] = x
      BY DEF Joined, Own
    <2>2. ASSUME NEW i \in 1..Len(v) PROVE f[v[i]] = q.of
      <3>1. CASE i \in 1..m
        <4>1. v[i] = old[i] /\ i \in 1..Len(old)
          BY <1>1, <1>3, <3>1
        <4> QED BY <4>1
      <3>2. CASE i - m \in 1..Len(w) /\ v[i] = w[i - m]
        BY <2>1, <3>2
      <3> QED BY <1>3, <3>1, <3>2
    <2>3. m <= Len(v)
      BY <1>3
    <2> QED BY <1>1, <2>1, <2>2, <2>3 DEF Own
  <1>5. Sound(v, r, z)
    <2>1. \A i, j \in 1..Len(v) : (m < i /\ i < j) => v[i] < v[j]
      <3> SUFFICES ASSUME NEW i \in 1..Len(v), NEW j \in 1..Len(v), m < i, i < j
                   PROVE  v[i] < v[j]
        OBVIOUS
      <3>1. /\ i - m \in 1..Len(w) /\ v[i] = w[i - m]
            /\ j - m \in 1..Len(w) /\ v[j] = w[j - m]
            /\ 0 < i - m /\ i - m < j - m
        BY <1>3
      <3> QED BY <3>1 DEF Joined, Sound
    <2>2. ASSUME NEW i \in 1..Len(v), m < i
          PROVE  v[i] \notin q.dropped /\ \E k \in 1..Len(z) : q.base < k /\ z[k] = v[i]
      <3>1. i - m \in 1..Len(w) /\ v[i] = w[i - m] /\ 0 < i - m
        BY <1>3, <2>2
      <3> QED BY <3>1 DEF Joined, Sound
    <2> QED BY <1>1, <2>1, <2>2 DEF Sound
  <1>6. Full(v, r, f, z)
    <2> SUFFICES ASSUME NEW k \in 1..Len(z), 
                        q.base < k, f[z[k]] = q.of, z[k] \notin q.dropped
                 PROVE  \E i \in 1..Len(v) : m < i /\ v[i] = z[k]
      BY <1>1 DEF Full
    <2>1. PICK i \in 1..Len(w) : w[i] = z[k]
      BY DEF Joined, Full
    <2>2. m + i \in 1..Len(v) /\ m < m + i /\ v[m + i] = z[k]
      BY <1>3, <2>1
    <2> QED BY <2>2
  <1>7. Replayed(v, r, f, z)
    <2> SUFFICES ASSUME NEW k \in 1..Len(z), m > 0, f[z[k]] = q.of, v[1] <= z[k]
                 PROVE  \E i \in 1..m : v[i] = z[k]
      BY <1>1 DEF Replayed
    <2>1. old # <<>> /\ v[1] = old[1]
      BY <1>1, <1>3
    <2>2. PICK i \in 1..m : old[i] = z[k]
      BY <1>1, <2>1
    <2> QED BY <1>3, <2>2
  <1> QED BY <1>2, <1>4, <1>5, <1>6, <1>7 DEF Joined

-----------------------------------------------------------------------------
(* The inductive invariant of the streams.                                 *)

\* Events arrive in the order of the bus, and those that wait are new.
OrderInv == /\ Increasing(seen) /\ Increasing(sock)
            /\ \A k \in 1..Len(seen), i \in 1..Len(sock) : seen[k] < sock[i]

\* A ring has the last events of its student, all of them from its first on.
RingOf(q, s, f, z) == 
  /\ Increasing(q)
  /\ \A i \in 1..Len(q) : f[q[i]] = s /\ \E k \in 1..Len(z) : z[k] = q[i]
  /\ \A k \in 1..Len(z) : 
       (q # <<>> /\ f[z[k]] = s /\ q[1] <= z[k]) => \E i \in 1..Len(q) : q[i] = z[k]
RingInv == \A s \in Student : RingOf(ring[s], s, feed, seen)

Live(q, f, z) == 
  /\ q.pc # "none" /\ Joined(Sent(q), q, f, z)
  /\ q.pc = "open" => q.out = <<>> /\ q.back = <<>> /\ q.snap = 0
StreamsInv == \A c \in Stream : IF c \in subs THEN Live(st[c], feed, seen) 
                                ELSE st[c] = NoStream

SInv == STypeOK /\ OrderInv /\ RingInv /\ StreamsInv

LEMMA SentType == 
  ASSUME NEW q \in StreamState
  PROVE  Sent(q) \in Seq(1..Len(feed))
  BY DEF StreamState, Sent

LEMMA ConcatAppend == 
  ASSUME NEW S, NEW a \in Seq(S), NEW b \in Seq(S), NEW e \in S
  PROVE  a \o Append(b, e) = Append(a \o b, e)
  <1>1. <<e>> \in Seq(S) /\ a \o b \in Seq(S)
    OBVIOUS
  <1>2. Append(b, e) = b \o <<e>> /\ Append(a \o b, e) = (a \o b) \o <<e>>
    BY <1>1, AppendIsConcat
  <1> QED BY <1>1, <1>2, ConcatAssociative

LEMMA TailConcat == 
  ASSUME NEW S, NEW b \in Seq(S), NEW u \in Seq(S), b # <<>>
  PROVE  Tail(b) \in Seq(S) /\ Tail(b \o u) = Tail(b) \o u
  <1>1. PICK v \in Seq(S) : v = Tail(b)
    BY HeadTailProperties
  <1>2. PICK p \in Seq(S) : p = b \o u
    BY ConcatProperties
  <1>3. /\ Len(b) \in Nat /\ Len(b) > 0 /\ Len(u) \in Nat
        /\ Len(p) = Len(b) + Len(u) /\ p # <<>>
        /\ \A i \in 1..Len(b) + Len(u) : 
             p[i] = IF i <= Len(b) THEN b[i] ELSE u[i - Len(b)]
    BY <1>2, ConcatProperties
  <1>4. PICK w \in Seq(S) : /\ w = Tail(p) /\ Len(w) = Len(p) - 1 
                            /\ \A i \in 1..Len(w) : w[i] = p[i + 1]
    <2>1. p \in Seq(S) /\ p # <<>>
      BY <1>3
    <2>2. /\ Tail(p) \in Seq(S) /\ Len(Tail(p)) = Len(p) - 1 
          /\ \A i \in 1..Len(Tail(p)) : Tail(p)[i] = p[i + 1]
      BY <2>1, HeadTailProperties
    <2> QED BY <2>2
  <1>5. Len(v) = Len(b) - 1 /\ \A i \in 1..Len(v) : v[i] = b[i + 1]
    BY <1>1, HeadTailProperties
  <1>6. PICK x \in Seq(S) : x = v \o u
    BY ConcatProperties
  <1>7. /\ Len(x) = Len(v) + Len(u)
        /\ \A i \in 1..Len(v) + Len(u) : 
             x[i] = IF i <= Len(v) THEN v[i] ELSE u[i - Len(v)]
    BY <1>6, ConcatProperties
  <1>8. Len(w) = Len(x)
    BY <1>3, <1>4, <1>5, <1>7
  <1>9. ASSUME NEW i \in 1..Len(w) PROVE w[i] = x[i]
    <2>1. w[i] = p[i + 1] /\ i + 1 \in 1..Len(b) + Len(u) /\ i \in Nat
      BY <1>3, <1>4
    <2>2. CASE i <= Len(v)
      BY <1>3, <1>5, <1>7, <2>1, <2>2
    <2>3. CASE ~(i <= Len(v))
      <3>1. w[i] = u[i + 1 - Len(b)]
        BY <1>3, <1>5, <2>1, <2>3
      <3>2. x[i] = u[i - Len(v)]
        BY <1>7, <1>8, <2>3
      <3>3. i + 1 - Len(b) = i - Len(v)
        BY <1>3, <1>5, <2>1
      <3> QED BY <3>1, <3>2, <3>3
    <2> QED BY <2>2, <2>3
  <1>10. w = x
    BY <1>8, <1>9, SeqEqual
  <1> QED BY <1>1, <1>2, <1>4, <1>6, <1>10

\* The head of p moves to the end of a.
LEMMA Shift == 
  ASSUME NEW S, NEW a \in Seq(S), NEW p \in Seq(S), p # <<>>
  PROVE  /\ Append(a, Head(p)) \o Tail(p) = a \o p
         /\ \E i \in 1..Len(a \o p) : (a \o p)[i] = Head(p)
  <1>1. PICK h \in S : h = Head(p)
    BY HeadTailProperties
  <1>2. PICK t \in Seq(S) : t = Tail(p)
    BY HeadTailProperties
  <1>3. p = <<h>> \o t /\ h = p[1] /\ Len(p) > 0
    BY <1>1, <1>2
  <1>4. <<h>> \in Seq(S)
    OBVIOUS
  <1>5. (a \o <<h>>) \o t = a \o p
    BY <1>3, <1>4, ConcatAssociative
  <1>6. Append(a, h) = a \o <<h>>
    BY AppendIsConcat
  <1>7. Len(a) + 1 \in 1..Len(a \o p) /\ (a \o p)[Len(a) + 1] = h
    BY <1>3
  <1> QED BY <1>1, <1>2, <1>5, <1>6, <1>7

\* Passing an event on does not change what the stream sends.
LEMMA PassSends == 
  ASSUME NEW q \in StreamState, q.back \o q.queue # <<>>
  PROVE  /\ Sent(Pass(q)) = Sent(q) /\ SameEnds(q, Pass(q)) 
         /\ Pass(q).dropped = q.dropped /\ Pass(q).pc = q.pc
         /\ \E i \in 1..Len(Sent(q)) : Sent(q)[i] = Head(q.back \o q.queue)
  <1>1. PICK a, b, u \in Seq(1..Len(feed)) : a = q.out /\ b = q.back /\ u = q.queue
    BY DEF StreamState
  <1>2. PICK p \in Seq(1..Len(feed)) : p = b \o u
    BY ConcatProperties
  <1>3. PICK h \in 1..Len(feed) : h = Head(p)
    BY <1>1, <1>2, HeadTailProperties
  <1>4. PICK t \in Seq(1..Len(feed)) : t = Tail(p)
    BY <1>1, <1>2, HeadTailProperties
  <1>5. PICK o \in Seq(1..Len(feed)) : o = Append(a, h)
    BY AppendProperties
  <1>6. o \o t = a \o p /\ \E i \in 1..Len(a \o p) : (a \o p)[i] = h
    <2>1. p # <<>>
      BY <1>1, <1>2
    <2>2. /\ Append(a, Head(p)) \o Tail(p) = a \o p
          /\ \E i \in 1..Len(a \o p) : (a \o p)[i] = Head(p)
      BY <2>1, Shift
    <2> QED BY <1>3, <1>4, <1>5, <2>2
  <1>7. Sent(q) = a \o p /\ Head(q.back \o q.queue) = h
    BY <1>1, <1>2, <1>3 DEF Sent
  <1>8. CASE b # <<>>
    <2>1. PICK v \in Seq(1..Len(feed)) : v = Tail(b) /\ t = v \o u
      BY <1>2, <1>4, <1>8, TailConcat
    <2>2. Pass(q) = [q EXCEPT !.out = o, !.back = v]
      BY <1>1, <1>5, <1>7, <1>8, <2>1 DEF Pass
    <2>3. /\ Pass(q).out = o /\ Pass(q).back = v /\ Pass(q).queue = u
          /\ SameEnds(q, Pass(q)) /\ Pass(q).dropped = q.dropped
          /\ Pass(q).pc = q.pc
      BY <1>1, <2>2 DEF StreamState, SameEnds
    <2> QED BY <1>6, <1>7, <2>1, <2>3 DEF Sent
  <1>9. CASE b = <<>>
    <2>1. p = u /\ <<>> \o t = t
      BY <1>2, <1>9, ConcatEmptySeq
    <2>2. Pass(q) = [q EXCEPT !.out = o, !.queue = t]
      BY <1>1, <1>4, <1>5, <1>7, <1>9, <2>1 DEF Pass
    <2>3. /\ Pass(q).out = o /\ Pass(q).back = <<>> /\ Pass(q).queue = t
          /\ SameEnds(q, Pass(q)) /\ Pass(q).dropped = q.dropped
          /\ Pass(q).pc = q.pc
      BY <1>1, <1>9, <2>2 DEF StreamState, SameEnds
    <2> QED BY <1>6, <1>7, <2>1, <2>3 DEF Sent
  <1> QED BY <1>8, <1>9

\* A queue that is offered an event has it at its end, or has dropped it.
LEMMA OfferSends == 
  ASSUME NEW q \in StreamState, NEW e \in 1..Len(feed)
  PROVE  /\ SameEnds(q, Offer(q, e)) /\ Offer(q, e).pc = q.pc 
         /\ Offer(q, e).out = q.out /\ Offer(q, e).back = q.back
         /\ \/ /\ Sent(Offer(q, e)) = Append(Sent(q), e)
               /\ Offer(q, e).dropped = q.dropped
            \/ /\ Sent(Offer(q, e)) = Sent(q)
               /\ Offer(q, e).dropped = q.dropped \cup {e}
  <1>1. PICK a, b, u \in Seq(1..Len(feed)) : a = q.out /\ b = q.back /\ u = q.queue
    BY DEF StreamState
  <1>3. CASE Len(q.queue) < QueueSize
    <2>1. PICK x \in Seq(1..Len(feed)) : x = Append(u, e)
      BY AppendProperties
    <2>2. Offer(q, e) = [q EXCEPT !.queue = x]
      BY <1>1, <1>3, <2>1 DEF Offer
    <2>3. /\ Offer(q, e).queue = x /\ Offer(q, e).back = q.back
          /\ Offer(q, e).out = q.out /\ SameEnds(q, Offer(q, e)) 
          /\ Offer(q, e).pc = q.pc /\ Offer(q, e).dropped = q.dropped
      BY <2>2 DEF StreamState, SameEnds
    <2>4. b \o x = Append(b \o u, e)
      BY <2>1, ConcatAppend
    <2>5. PICK p \in Seq(1..Len(feed)) : p = b \o u
      BY ConcatProperties
    <2>6. a \o Append(p, e) = Append(a \o p, e)
      BY ConcatAppend
    <2>7. Sent(Offer(q, e)) = a \o (b \o x) /\ Sent(q) = a \o (b \o u)
      BY <1>1, <2>3 DEF Sent
    <2>8. Sent(Offer(q, e)) = Append(Sent(q), e)
      BY <2>4, <2>5, <2>6, <2>7
    <2> QED BY <2>3, <2>8
  <1>4. CASE ~(Len(q.queue) < QueueSize)
    <2>1. Offer(q, e) = [q EXCEPT !.dropped = q.dropped \cup {e}]
      BY <1>4 DEF Offer
    <2>2. /\ Offer(q, e).queue = q.queue /\ Offer(q, e).back = q.back 
          /\ Offer(q, e).out = q.out /\ SameEnds(q, Offer(q, e)) 
          /\ Offer(q, e).pc = q.pc /\ Offer(q, e).dropped = q.dropped \cup {e}
      BY <2>1 DEF StreamState, SameEnds
    <2> QED BY <2>2 DEF Sent
  <1> QED BY <1>3, <1>4

LEMMA RingFrame == 
  ASSUME NEW n \in Nat, NEW f, NEW g, \A i \in 1..n : f[i] = g[i],
         NEW q \in Seq(1..n), NEW z \in Seq(1..n), NEW s, RingOf(q, s, f, z)
  PROVE  RingOf(q, s, g, z)
  <1>1. \A i \in 1..Len(q) : q[i] \in 1..n
    OBVIOUS
  <1>2. \A k \in 1..Len(z) : z[k] \in 1..n
    OBVIOUS
  <1> QED BY <1>1, <1>2 DEF RingOf

LEMMA RingOther == 
  ASSUME NEW n \in Nat, NEW f, NEW q \in Seq(1..n), NEW z \in Seq(1..n), 
         NEW s, NEW e \in 1..n, f[e] # s, RingOf(q, s, f, z)
  PROVE  RingOf(q, s, f, Append(z, e))
  <1>1. PICK y : y = Append(z, e)
    OBVIOUS
  <1>2. /\ Len(z) \in Nat /\ Len(y) = Len(z) + 1 /\ y[Len(z) + 1] = e
        /\ \A k \in 1..Len(z) : y[k] = z[k] /\ k \in 1..Len(y)
        /\ \A k \in 1..Len(y) : k \in 1..Len(z) \/ k = Len(z) + 1
    BY <1>1, Appended
  <1> QED BY <1>1, <1>2 DEF RingOf

LEMMA RingAppend == 
  ASSUME NEW n \in Nat, NEW f, NEW q \in Seq(1..n), NEW z \in Seq(1..n), 
         NEW s, NEW e \in 1..n, f[e] = s, \A k \in 1..Len(z) : z[k] < e,
         RingOf(q, s, f, z)
  PROVE  RingOf(Append(q, e), s, f, Append(z, e))
  <1>1. PICK y : y = Append(z, e)
    OBVIOUS
  <1>2. /\ Len(z) \in Nat /\ Len(y) = Len(z) + 1 /\ y[Len(z) + 1] = e
        /\ \A k \in 1..Len(z) : y[k] = z[k] /\ k \in 1..Len(y)
        /\ \A k \in 1..Len(y) : k \in 1..Len(z) \/ k = Len(z) + 1
        /\ Len(z) + 1 \in 1..Len(y)
    BY <1>1, Appended
  <1>3. PICK v : v = Append(q, e)
    OBVIOUS
  <1>4. /\ Len(q) \in Nat /\ Len(v) = Len(q) + 1 /\ v[Len(q) + 1] = e
        /\ \A k \in 1..Len(q) : v[k] = q[k] /\ k \in 1..Len(v)
        /\ \A k \in 1..Len(v) : k \in 1..Len(q) \/ k = Len(q) + 1
        /\ Len(q) + 1 \in 1..Len(v)
    BY <1>3, Appended
  <1>5. \A i \in 1..Len(q) : q[i] < e
    BY DEF RingOf
  <1>6. Increasing(v)
    <2> SUFFICES ASSUME NEW i \in 1..Len(v), NEW j \in 1..Len(v), i < j
                 PROVE  v[i] < v[j]
      BY DEF Increasing
    <2>1. i \in 1..Len(q)
      BY <1>4
    <2>2. CASE j \in 1..Len(q)
      BY <1>4, <2>1, <2>2 DEF RingOf, Increasing
    <2>3. CASE j = Len(q) + 1
      BY <1>4, <1>5, <2>1, <2>3
    <2> QED BY <1>4, <2>2, <2>3
  <1>7. ASSUME NEW i \in 1..Len(v)
        PROVE  f[v[i]] = s /\ \E k \in 1..Len(y) : y[k] = v[i]
    <2>1. CASE i \in 1..Len(q)
      <3>1. v[i] = q[i] /\ f[q[i]] = s
        BY <1>4, <2>1 DEF RingOf
      <3>2. PICK k \in 1..Len(z) : z[k] = q[i]
        BY <2>1 DEF RingOf
      <3>3. k \in 1..Len(y) /\ y[k] = v[i]
        BY <1>2, <3>1, <3>2
      <3> QED BY <3>1, <3>3
    <2>2. CASE i = Len(q) + 1
      BY <1>2, <1>4, <2>2
    <2> QED BY <1>4, <2>1, <2>2
  <1>8. ASSUME NEW k \in 1..Len(y), f[y[k]] = s, v[1] <= y[k]
        PROVE  \E i \in 1..Len(v) : v[i] = y[k]
    <2>1. CASE k = Len(z) + 1
      BY <1>2, <1>4, <2>1
    <2>2. CASE k \in 1..Len(z)
      <3>1. y[k] = z[k] /\ z[k] < e /\ z[k] \in Nat
        BY <1>2, <2>2
      <3>2. q # <<>>
        BY <1>3, <1>8, <3>1
      <3>3. v[1] = q[1]
        <4>1. 1 \in 1..Len(q)
          BY <3>2
        <4> QED BY <1>4, <4>1
      <3>4. PICK i \in 1..Len(q) : q[i] = z[k]
        BY <1>8, <2>2, <3>1, <3>2, <3>3 DEF RingOf
      <3>5. i \in 1..Len(v) /\ v[i] = y[k]
        BY <1>4, <3>1, <3>4
      <3> QED BY <3>5
    <2> QED BY <1>2, <2>1, <2>2
  <1> QED BY <1>1, <1>3, <1>6, <1>7, <1>8 DEF RingOf

\* The end of a ring is a ring.
LEMMA RingShift == 
  ASSUME NEW f, NEW s, NEW q, NEW v, NEW z, NEW d \in Nat, NEW l \in Nat, 
         Len(v) = l, Len(q) = d + l, \A i \in 1..l : v[i] = q[d + i], 
         \A i \in 1..d + l : q[i] \in Nat, \A k \in 1..Len(z) : z[k] \in Nat,
         q # <<>>, v # <<>> => l > 0, RingOf(q, s, f, z)
  PROVE  RingOf(v, s, f, z)
  <1>1. \A i \in 1..l : d + i \in 1..d + l /\ v[i] = q[d + i]
    OBVIOUS
  <1>2. \A i, j \in 1..d + l : i < j => q[i] < q[j]
    BY DEF RingOf, Increasing
  <1>3. Increasing(v)
    <2>1. \A i, j \in 1..l : i < j => d + i < d + j
      OBVIOUS
    <2> QED BY <1>1, <1>2, <2>1 DEF Increasing
  <1>4. \A i \in 1..d + l : f[q[i]] = s /\ \E k \in 1..Len(z) : z[k] = q[i]
    BY DEF RingOf
  <1>5. \A i \in 1..l : f[v[i]] = s /\ \E k \in 1..Len(z) : z[k] = v[i]
    <2>1. ASSUME NEW i \in 1..l
          PROVE  f[v[i]] = s /\ \E k \in 1..Len(z) : z[k] = v[i]
      <3>1. PICK j \in 1..d + l : v[i] = q[j]
        BY <1>1
      <3> QED BY <1>4, <3>1
    <2> QED BY <2>1
  <1>6. ASSUME NEW k \in 1..Len(z), v # <<>>, f[z[k]] = s, v[1] <= z[k]
        PROVE  \E i \in 1..l : v[i] = z[k]
    <2>1. 1 \in 1..l /\ 1 \in 1..d + l /\ v[1] = q[d + 1] /\ d + 1 \in 1..d + l
      BY <1>6
    <2>2. q[1] \in Nat /\ q[d + 1] \in Nat /\ z[k] \in Nat /\ q[d + 1] <= z[k]
      BY <1>6, <2>1
    <2>3. q[1] <= q[d + 1]
      <3>1. d = 0 => q[1] = q[d + 1]
        OBVIOUS
      <3>2. d # 0 => q[1] < q[d + 1]
        BY <1>2, <2>1
      <3> QED BY <2>2, <3>1, <3>2
    <2>4. q[1] <= z[k]
      BY <2>2, <2>3
    <2>5. PICK i \in 1..d + l : q[i] = z[k]
      BY <1>6, <2>4 DEF RingOf
    <2>6. i < d + 1 => q[i] < q[d + 1]
      BY <1>2, <2>1
    <2>7. ~(i < d + 1)
      BY <2>2, <2>5, <2>6
    <2>8. i - d \in 1..l /\ d + (i - d) = i
      BY <2>7
    <2> QED BY <1>1, <2>5, <2>8
  <1> QED BY <1>3, <1>5, <1>6 DEF RingOf

LEMMA RingLast == 
  ASSUME NEW n \in Nat, NEW f, NEW q \in Seq(1..n), NEW z \in Seq(1..n), 
         NEW s, NEW m \in Nat, RingOf(q, s, f, z)
  PROVE  RingOf(LastOf(q, m), s, f, z)
  <1>1. /\ LastOf(q, m) \in Seq(1..n)
        /\ Len(LastOf(q, m)) = (IF Len(q) > m THEN m ELSE Len(q))
        /\ \A i \in 1..Len(LastOf(q, m)) : 
             LastOf(q, m)[i] = q[Len(q) - Len(LastOf(q, m)) + i]
    BY LastOfProperties
  <1>2. PICK v \in Seq(1..n) : v = LastOf(q, m)
    BY <1>1
  <1>3. PICK l \in Nat : l = Len(v)
    OBVIOUS
  <1>4. l <= Len(q) /\ Len(q) \in Nat
    BY <1>1, <1>2, <1>3
  <1>5. PICK d \in Nat : Len(q) = d + l
    <2>1. Len(q) - l \in Nat /\ Len(q) = (Len(q) - l) + l
      BY <1>4
    <2> QED BY <2>1
  <1>6. \A i \in 1..l : v[i] = q[d + i]
    <2>1. Len(q) - Len(v) = d
      BY <1>3, <1>5
    <2> QED BY <1>1, <1>2, <1>3, <2>1
  <1>7. \A i \in 1..d + l : q[i] \in Nat
    BY <1>5
  <1>8. \A k \in 1..Len(z) : z[k] \in Nat
    OBVIOUS
  <1>9. v # <<>> => l > 0
    BY <1>3
  <1>10. CASE q = <<>>
    BY <1>2, <1>3, <1>4, <1>10
  <1>11. CASE q # <<>>
    BY <1>2, <1>3, <1>5, <1>6, <1>7, <1>8, <1>9, <1>11, RingShift
  <1> QED BY <1>10, <1>11

-----------------------------------------------------------------------------
(* Its steps.                                                              *)

LEMMA STypes == 
  ASSUME SInv
  PROVE  /\ Len(feed) \in Nat /\ Len(seen) \in 0..Len(seen)
         /\ seen \in Seq(1..Len(feed)) /\ sock \in Seq(1..Len(feed))
         /\ \A s \in Student : ring[s] \in Seq(1..Len(feed))
         /\ \A c \in Stream : st[c] \in StreamState
  BY DEF SInv, STypeOK

LEMMA StreamsFrame == 
  ASSUME SInv, STypeOK', UNCHANGED <<seen, ring, subs, st>>, 
         Len(feed) <= Len(feed'), \A i \in 1..Len(feed) : feed'[i] = feed[i]
  PROVE  RingInv' /\ StreamsInv'
  <1>1. PICK n \in Nat : n = Len(feed)
    BY DEF SInv, STypeOK
  <1>2. seen \in Seq(1..n) /\ \A i \in 1..n : feed[i] = feed'[i]
    BY <1>1 DEF SInv, STypeOK
  <1>3. ASSUME NEW s \in Student
        PROVE  RingOf(ring[s], s, feed', seen)
    <2>1. ring[s] \in Seq(1..n) /\ RingOf(ring[s], s, feed, seen)
      BY <1>1 DEF SInv, STypeOK, RingInv
    <2> QED BY <1>2, <2>1, RingFrame
  <1>4. ASSUME NEW c \in subs
        PROVE  Live(st[c], feed', seen)
    <2>1. c \in Stream /\ st[c] \in StreamState
      BY DEF SInv, STypeOK
    <2>2. Live(st[c], feed, seen)
      BY <2>1 DEF SInv, StreamsInv
    <2>3. Sent(st[c]) \in Seq(1..n)
      BY <1>1, <2>1, SentType
    <2>4. SameEnds(st[c], st[c])
      BY DEF SameEnds
    <2>5. Joined(Sent(st[c]), st[c], feed', seen)
      BY <1>2, <2>2, <2>3, <2>4, JoinedFrame DEF Live
    <2> QED BY <2>2, <2>5 DEF Live
  <1> QED BY <1>3, <1>4 DEF SInv, RingInv, StreamsInv

\* A step of one stream.
LEMMA StreamStep == 
  ASSUME SInv, STypeOK', UNCHANGED <<feed, seen, sock, ring>>, 
         NEW c \in Stream, NEW q \in StreamState, st' = [st EXCEPT ![c] = q],
         \/ q = NoStream /\ subs' = subs \ {c}
         \/ Live(q, feed, seen) /\ subs' = subs \cup {c}
  PROVE  SInv'
  <1>1. OrderInv' /\ RingInv'
    BY DEF SInv, OrderInv, RingInv
  <1>2. \A d \in Stream : d # c => st'[d] = st[d] /\ (d \in subs' <=> d \in subs)
    BY DEF SInv, STypeOK
  <1>3. st'[c] = q
    BY DEF SInv, STypeOK
  <1>4. StreamsInv'
    BY <1>2, <1>3 DEF SInv, StreamsInv
  <1> QED BY <1>1, <1>4 DEF SInv

LEMMA RegisterInv == 
  ASSUME SInv, STypeOK', NEW c \in Stream, NEW s \in Student, Register(c, s),
         UNCHANGED <<bus, loop>>
  PROVE  SInv'
  <1>1. st[c] = NoStream /\ NoStream \in StreamState
    BY NoStreamType DEF Register, SInv, StreamsInv
  <1>2. PICK q : q = [NoStream EXCEPT !.pc = "open", !.of = s, !.base = Len(seen)]
    OBVIOUS
  <1>3. /\ q.out = <<>> /\ q.back = <<>> /\ q.queue = <<>> /\ q.pc = "open"
        /\ q.snap = 0 /\ q.dropped = {} /\ q.base = Len(seen)
    BY <1>2 DEF NoStream
  <1>4. q \in StreamState
    BY <1>1, <1>2, STypes DEF StreamState
  <1>5. seen \in Seq(1..Len(feed)) /\ Sent(q) = <<>>
    BY <1>3 DEF Sent, SInv, STypeOK
  <1>6. Live(q, feed, seen)
    BY <1>3, <1>5, JoinedRegister DEF Live
  <1>7. st' = [st EXCEPT ![c] = q] /\ subs' = subs \cup {c}
    BY <1>1, <1>2 DEF Register
  <1> QED BY <1>4, <1>6, <1>7, StreamStep DEF bus, loop

LEMMA YieldInv == 
  ASSUME SInv, STypeOK', NEW c \in Stream, Yield(c)
  PROVE  SInv'
  <1>1. c \in subs /\ Live(st[c], feed, seen) /\ st[c] \in StreamState
    BY DEF Yield, SInv, STypeOK, StreamsInv, NoStream
  <1>2. PICK q : q = Pass(st[c])
    OBVIOUS
  <1>3. /\ q \in StreamState /\ Sent(q) = Sent(st[c]) /\ SameEnds(st[c], q)
        /\ q.dropped = st[c].dropped /\ q.pc = "stream"
    BY <1>1, <1>2, PassType, PassSends DEF Yield, Pending
  <1>4. Joined(Sent(q), q, feed, seen)
    <2>1. PICK n \in Nat : n = Len(feed)
      BY STypes
    <2>2. Sent(q) \in Seq(1..n) /\ seen \in Seq(1..n)
      BY <1>3, <2>1, SentType DEF SInv, STypeOK
    <2>3. Joined(Sent(q), st[c], feed, seen)
      BY <1>1, <1>3 DEF Live
    <2> QED BY <1>3, <2>2, <2>3, JoinedFrame
  <1>5. Live(q, feed, seen)
    BY <1>3, <1>4 DEF Live
  <1>6. st' = [st EXCEPT ![c] = q] /\ subs' = subs \cup {c}
    BY <1>1, <1>2 DEF Yield
  <1> QED BY <1>3, <1>5, <1>6, StreamStep DEF Yield, bus, loop

LEMMA BeginInv == 
  ASSUME SInv, STypeOK', NEW c \in Stream, Begin(c)
  PROVE  SInv'
  <1>1. c \in subs /\ Live(st[c], feed, seen) /\ st[c] \in StreamState
    BY DEF Begin, SInv, STypeOK, StreamsInv, NoStream
  <1>2. PICK n \in Nat : n = Len(feed)
    BY STypes
  <1>3. PICK s \in Student : s = st[c].of
    BY DEF Begin, SInv, STypeOK
  <1>4. ring[s] \in Seq(1..n) /\ seen \in Seq(1..n) /\ RingOf(ring[s], s, feed, seen)
    BY <1>2 DEF SInv, STypeOK, RingInv
  <1>5. PICK old \in Seq(1..n) : old = Recent(s) /\ RingOf(old, s, feed, seen)
    BY <1>4, LastOfProperties, RingLast, SizesAssumption DEF Recent
  <1>6. PICK m \in Nat : m = Len(old)
    OBVIOUS
  <1>7. PICK q : q = [st[c] EXCEPT !.pc = "stream", !.back = old, !.snap = m]
    OBVIOUS
  <1>8. PICK w \in Seq(1..n) : w = st[c].queue
    BY <1>1, <1>2 DEF StreamState
  <1>9. /\ q.pc = "stream" /\ q.out = <<>> /\ q.back = old /\ q.queue = w
        /\ q.snap = m /\ q.dropped = st[c].dropped 
        /\ q.of = s /\ q.base = st[c].base
    BY <1>1, <1>3, <1>7, <1>8 DEF Live, Begin, StreamState
  <1>10. q \in StreamState
    BY <1>1, <1>2, <1>7 DEF StreamState
  <1>11. Sent(st[c]) = w /\ Sent(q) = old \o w
    <2>1. <<>> \o w = w /\ old \o w \in Seq(1..n)
      BY ConcatEmptySeq, ConcatProperties
    <2>2. <<>> \o (old \o w) = old \o w
      BY <2>1, ConcatEmptySeq
    <2> QED BY <1>1, <1>8, <1>9, <2>1, <2>2 DEF Sent, Live, Begin
  <1>12. Joined(w, st[c], feed, seen) /\ st[c].snap = 0
    BY <1>1, <1>11 DEF Live, Begin
  <1>13. Joined(old \o w, q, feed, seen)
    <2>1. \A i \in 1..Len(old) : feed[old[i]] = st[c].of
      BY <1>3, <1>5 DEF RingOf
    <2>2. \A k \in 1..Len(seen) : 
            (old # <<>> /\ feed[seen[k]] = st[c].of /\ old[1] <= seen[k]) => 
              \E i \in 1..Len(old) : old[i] = seen[k]
      BY <1>3, <1>5 DEF RingOf
    <2>3. q.of = st[c].of /\ q.snap = Len(old) 
          /\ q.base = st[c].base /\ q.dropped = st[c].dropped
      BY <1>3, <1>6, <1>9
    <2> QED BY <1>4, <1>12, <2>1, <2>2, <2>3, JoinedReplay 
  <1>14. Live(q, feed, seen)
    BY <1>9, <1>11, <1>13 DEF Live
  <1>15. st' = [st EXCEPT ![c] = q] /\ subs' = subs \cup {c}
    BY <1>1, <1>3, <1>5, <1>6, <1>7 DEF Begin
  <1> QED BY <1>10, <1>14, <1>15, StreamStep DEF Begin, bus, loop

LEMMA ReadInv == 
  ASSUME SInv, STypeOK', ReadLine
  PROVE  SInv'
  <1>1. PICK n \in Nat : n = Len(feed)
    BY STypes
  <1>0. /\ sock \in Seq(1..n) /\ sock # <<>> /\ 1 \in 1..Len(sock)
        /\ Head(sock) = sock[1] /\ sock[1] \in 1..n 
        /\ seen \in Seq(1..n) /\ sock' = Tail(sock) /\ OrderInv
    BY <1>1, STypes DEF ReadLine, SInv
  <1>2. PICK e \in 1..n : e = Head(sock) /\ \A k \in 1..Len(seen) : seen[k] < e
    BY <1>0 DEF OrderInv
  <1>3. /\ Increasing(sock') 
        /\ \A k \in 1..Len(seen), i \in 1..Len(sock') : seen[k] < sock'[i]
        /\ \A i \in 1..Len(sock') : e < sock'[i]
    <2>1. PICK y \in Seq(1..n) : 
            /\ y = Tail(sock) /\ Len(y) = Len(sock) - 1
            /\ \A i \in 1..Len(y) : y[i] = sock[i + 1] /\ i + 1 \in 1..Len(sock)
                                    /\ 1 < i + 1
      <3>1. /\ Tail(sock) \in Seq(1..n) /\ Len(Tail(sock)) = Len(sock) - 1
            /\ \A i \in 1..Len(Tail(sock)) : Tail(sock)[i] = sock[i + 1]
        BY <1>0, HeadTailProperties
      <3>2. \A i \in 1..Len(Tail(sock)) : i + 1 \in 1..Len(sock) /\ 1 < i + 1
        BY <1>0, <3>1
      <3> QED BY <3>1, <3>2
    <2>2. \A i \in 1..Len(y), j \in 1..Len(y) : i < j => i + 1 < j + 1
      OBVIOUS
    <2>3. Increasing(y)
      BY <1>0, <2>1, <2>2 DEF OrderInv, Increasing
    <2>4. \A i \in 1..Len(y) : e < y[i]
      BY <1>0, <1>2, <2>1 DEF OrderInv, Increasing
    <2>5. \A k \in 1..Len(seen), i \in 1..Len(y) : seen[k] < y[i]
      BY <1>0, <2>1 DEF OrderInv
    <2> QED BY <1>0, <2>1, <2>3, <2>4, <2>5
  <1>4. CASE UNCHANGED <<ring, seen, st>>
    <2>1. OrderInv' /\ RingInv' /\ StreamsInv'
      BY <1>3, <1>4, StreamsFrame DEF ReadLine, SInv, OrderInv, bus
    <2> QED BY <2>1 DEF SInv
  <1>5. ASSUME NEW s \in Student, s = feed[e],
               ring' = [ring EXCEPT ![s] = LastOf(Append(@, e), RingSize)],
               seen' = Append(seen, e), st' = Fanout(s, e), UNCHANGED <<feed, subs>>
        PROVE  SInv'
    <2>1. seen \in Seq(1..n) /\ Len(seen) \in Nat
      BY <1>1 DEF SInv, STypeOK
    <2>2. OrderInv'
      <3>1. PICK y : y = seen'
        OBVIOUS
      <3>2. /\ Len(y) = Len(seen) + 1 /\ y[Len(seen) + 1] = e
            /\ \A k \in 1..Len(seen) : y[k] = seen[k] /\ k \in 1..Len(y)
            /\ \A k \in 1..Len(y) : k \in 1..Len(seen) \/ k = Len(seen) + 1
        BY <1>5, <2>1, <3>1, Appended
      <3>3. Increasing(y)
        <4> SUFFICES ASSUME NEW i \in 1..Len(y), NEW j \in 1..Len(y), i < j
                     PROVE  y[i] < y[j]
          BY DEF Increasing
        <4>1. i \in 1..Len(seen)
          BY <2>1, <3>2
        <4>2. CASE j \in 1..Len(seen)
          BY <1>0, <3>2, <4>1, <4>2 DEF OrderInv, Increasing
        <4>3. CASE j = Len(seen) + 1
          BY <1>2, <3>2, <4>1, <4>3
        <4> QED BY <3>2, <4>2, <4>3
      <3>4. \A k \in 1..Len(y), i \in 1..Len(sock') : y[k] < sock'[i]
        BY <1>3, <3>2
      <3> QED BY <1>3, <3>1, <3>3, <3>4 DEF OrderInv
    <2>3. ASSUME NEW t \in Student 
          PROVE  RingOf(ring'[t], t, feed, seen')
      <3>1. ring[t] \in Seq(1..n) /\ RingOf(ring[t], t, feed, seen)
        BY <1>1, STypes DEF SInv, RingInv
      <3>2. CASE t = s
        <4>1. PICK q \in Seq(1..n) : q = Append(ring[t], e)
          BY <3>1, AppendProperties
        <4>2. PICK z \in Seq(1..n) : z = Append(seen, e)
          BY <2>1, AppendProperties
        <4>3. RingOf(q, t, feed, z)
          BY <1>2, <1>5, <2>1, <3>1, <3>2, <4>1, <4>2, RingAppend
        <4>4. RingOf(LastOf(q, RingSize), t, feed, z)
          BY <4>3, RingLast, SizesAssumption
        <4>5. ring'[t] = LastOf(q, RingSize)
          BY <1>5, <3>2, <4>1 DEF SInv, STypeOK
        <4> QED BY <1>5, <4>2, <4>4, <4>5
      <3>3. CASE t # s
        <4>1. ring'[t] = ring[t]
          BY <1>5, <3>3 DEF SInv, STypeOK
        <4>2. feed[e] # t
          BY <1>5, <3>3
        <4> QED BY <1>5, <2>1, <3>1, <4>1, <4>2, RingOther
      <3> QED BY <3>2, <3>3
    <2>4. ASSUME NEW c \in Stream, c \in subs
          PROVE  Live(st'[c], feed, seen')
      <3>1. /\ st[c] \in StreamState /\ Live(st[c], feed, seen) 
            /\ Sent(st[c]) \in Seq(1..n)
        BY <1>1, <2>4, STypes, SentType DEF SInv, StreamsInv
      <3>2. PICK w \in Seq(1..n) : w = Sent(st[c])
        BY <3>1
      <3>3. PICK q \in StreamState : q = st[c]
        BY <3>1
      <3>4. /\ Joined(w, q, feed, seen) /\ q.pc # "none"
            /\ q.pc = "open" => q.out = <<>> /\ q.back = <<>> /\ q.snap = 0
        BY <3>1, <3>2, <3>3 DEF Live
      <3>5. q.base \in 0..Len(seen) /\ q.snap \in Nat
        BY DEF StreamState
      <3>6. CASE q.of = s
        <4>1. PICK r : r = Offer(q, e)
          OBVIOUS
        <4>2. st'[c] = r
          BY <1>5, <2>4, <3>3, <3>6, <4>1 DEF Fanout
        <4>3. /\ SameEnds(q, r) /\ r.pc = q.pc /\ r.out = q.out /\ r.back = q.back
              /\ \/ Sent(r) = Append(w, e) /\ r.dropped = q.dropped
                 \/ Sent(r) = w /\ r.dropped = q.dropped \cup {e}
          BY <1>1, <3>2, <3>3, <4>1, OfferSends
        <4>4. feed[e] = q.of
          BY <1>5, <3>6
        <4>5. Joined(Sent(r), r, feed, Append(seen, e))
          <5>1. CASE Sent(r) = Append(w, e) /\ r.dropped = q.dropped
            <6>1. SameEnds(q, r) /\ r.dropped = q.dropped
              BY <4>3, <5>1
            <6>2. Joined(Append(w, e), r, feed, Append(seen, e))
              BY <1>2, <2>1, <3>4, <3>5, <4>4, <6>1, JoinedTaken
            <6> QED BY <5>1, <6>2
          <5>2. CASE Sent(r) = w /\ r.dropped = q.dropped \cup {e}
            BY <1>2, <2>1, <3>4, <3>5, <4>3, <4>4, <5>2, JoinedDropped
          <5> QED BY <4>3, <5>1, <5>2
        <4> QED BY <1>5, <3>4, <4>2, <4>3, <4>5 DEF Live, SameEnds
      <3>7. CASE q.of # s
        <4>1. st'[c] = q
          BY <1>5, <3>3, <3>7 DEF Fanout
        <4>2. feed[e] # q.of
          BY <1>5, <3>7
        <4>3. Joined(w, q, feed, Append(seen, e))
          BY <2>1, <3>4, <3>5, <4>2, JoinedOther
        <4> QED BY <1>5, <3>2, <3>3, <3>4, <4>1, <4>3 DEF Live
      <3> QED BY <3>6, <3>7
    <2>5. ASSUME NEW c \in Stream, c \notin subs
          PROVE  st'[c] = NoStream
      BY <1>5, <2>5 DEF Fanout, SInv, StreamsInv
    <2>6. RingInv' /\ StreamsInv'
      BY <1>5, <2>3, <2>4, <2>5 DEF RingInv, StreamsInv
    <2> QED BY <2>2, <2>6 DEF SInv
  <1> QED BY <1>2, <1>4, <1>5 DEF ReadLine, bus

LEMMA CastInv == 
  ASSUME SInv, STypeOK', NEW line \in Student \cup {Noise, Poison}, Cast(line)
  PROVE  SInv'
  <1>1. PICK n \in Nat : n = Len(feed)
    BY STypes
  <1>2. /\ Len(feed') = n + 1 /\ \A i \in 1..n : feed'[i] = feed[i]
        /\ sock \in Seq(1..n) /\ seen \in Seq(1..n)
    BY <1>1, STypes DEF Cast, SInv, STypeOK
  <1>3. PICK y : y = sock'
    OBVIOUS
  <1>4. y = sock \/ y = Append(sock, n + 1)
    BY <1>1, <1>3 DEF Cast
  <1>5. Increasing(y) /\ \A k \in 1..Len(seen), i \in 1..Len(y) : seen[k] < y[i]
    <2>1. CASE y = sock
      BY <2>1 DEF SInv, OrderInv
    <2>2. CASE y = Append(sock, n + 1)
      <3>1. /\ Len(sock) \in Nat /\ Len(y) = Len(sock) + 1
            /\ y[Len(sock) + 1] = n + 1
            /\ \A i \in 1..Len(sock) : y[i] = sock[i]
            /\ \A i \in 1..Len(y) : i \in 1..Len(sock) \/ i = Len(sock) + 1
        BY <1>2, <2>2, Appended
      <3>2. \A i \in 1..Len(sock) : sock[i] < n + 1
        BY <1>2
      <3>3. \A k \in 1..Len(seen) : seen[k] < n + 1
        BY <1>2
      <3>4. Increasing(y)
        <4> SUFFICES ASSUME NEW i \in 1..Len(y), NEW j \in 1..Len(y), i < j
                     PROVE  y[i] < y[j]
          BY DEF Increasing
        <4>1. i \in 1..Len(sock)
          BY <3>1
        <4>2. CASE j \in 1..Len(sock)
          BY <3>1, <4>1, <4>2 DEF SInv, OrderInv, Increasing
        <4>3. CASE j = Len(sock) + 1
          BY <3>1, <3>2, <4>1, <4>3
        <4> QED BY <3>1, <4>2, <4>3
      <3>5. ASSUME NEW k \in 1..Len(seen), NEW i \in 1..Len(y)
            PROVE  seen[k] < y[i]
        <4>1. CASE i \in 1..Len(sock)
          BY <3>1, <4>1 DEF SInv, OrderInv
        <4>2. CASE i = Len(sock) + 1
          BY <3>1, <3>3, <4>2
        <4> QED BY <3>1, <4>1, <4>2
      <3> QED BY <3>4, <3>5
    <2> QED BY <1>4, <2>1, <2>2
  <1>6. OrderInv'
    BY <1>3, <1>5 DEF Cast, SInv, OrderInv
  <1>7. RingInv' /\ StreamsInv'
    BY <1>1, <1>2, StreamsFrame DEF Cast
  <1> QED BY <1>6, <1>7 DEF SInv

LEMMA CrashInv == 
  ASSUME SInv, STypeOK', Crash
  PROVE  SInv'
  <1>1. OrderInv'
    BY DEF Crash, OrderInv, Increasing
  <1>2. RingInv'
    BY DEF Crash, RingInv, RingOf, Increasing
  <1>3. StreamsInv'
    BY DEF Crash, StreamsInv
  <1> QED BY <1>1, <1>2, <1>3 DEF SInv

LEMMA ServerInv == 
  ASSUME SInv, Server
  PROVE  SInv'
  <1>1. STypeOK'
    BY ServerType DEF SInv
  <1>2. ASSUME UNCHANGED <<feed, seen, ring, subs, st>>, 
               sock' = <<>> \/ sock' = sock
        PROVE  SInv'
    <2>1. OrderInv' 
      BY <1>2 DEF SInv, OrderInv, Increasing
    <2>2. RingInv' /\ StreamsInv'
      BY <1>2 DEF SInv, RingInv, StreamsInv
    <2> QED BY <1>1, <2>1, <2>2 DEF SInv
  <1>3. CASE Fail
    BY <1>2, <1>3 DEF Fail
  <1>4. CASE Start
    BY <1>2, <1>4 DEF Start, loop
  <1>5. CASE Crash
    BY <1>1, <1>5, CrashInv
  <1>6. CASE Dial
    BY <1>2, <1>6 DEF Dial, bus
  <1>7. CASE ReadLine
    BY <1>1, <1>7, ReadInv
  <1>8. CASE Eof
    BY <1>2, <1>8 DEF Eof, bus
  <1>9. ASSUME NEW line \in Student \cup {Noise, Poison}, Cast(line)
        PROVE  SInv'
    BY <1>1, <1>9, CastInv
  <1>10. ASSUME NEW c \in Stream, Begin(c)
         PROVE  SInv'
    BY <1>1, <1>10, BeginInv
  <1>11. ASSUME NEW c \in Stream, Abandon(c)
         PROVE  SInv'
    <2>1. c \in subs /\ Live(st[c], feed, seen) /\ st[c] \in StreamState
      <3>1. st[c] \in StreamState /\ st[c] # NoStream
        BY <1>11, STypes DEF Abandon, NoStream
      <3> QED BY <3>1 DEF SInv, StreamsInv
    <2>2. PICK q : q = [st[c] EXCEPT !.pc = "left"]
      OBVIOUS
    <2>3. /\ q \in StreamState /\ q.pc = "left" /\ Sent(q) = Sent(st[c]) 
          /\ SameEnds(st[c], q) /\ q.dropped = st[c].dropped
      BY <2>1, <2>2 DEF StreamState, Sent, SameEnds
    <2>4. Joined(Sent(q), q, feed, seen)
      <3>1. PICK n \in Nat : n = Len(feed)
        BY STypes
      <3>2. Sent(q) \in Seq(1..n) /\ seen \in Seq(1..n)
        BY <2>3, <3>1, SentType, STypes
      <3>3. Joined(Sent(q), st[c], feed, seen)
        BY <2>1, <2>3 DEF Live
      <3> QED BY <2>3, <3>2, <3>3, JoinedFrame
    <2>5. Live(q, feed, seen)
      BY <2>3, <2>4 DEF Live
    <2>6. st' = [st EXCEPT ![c] = q] /\ subs' = subs \cup {c}
      BY <1>11, <2>1, <2>2 DEF Abandon
    <2> QED BY <1>1, <1>11, <2>3, <2>5, <2>6, StreamStep DEF Abandon, bus, loop
  <1>12. ASSUME NEW c \in Stream, Finally(c)
         PROVE  SInv'
    <2>1. NoStream \in StreamState
      BY NoStreamType DEF SInv
    <2> QED BY <1>1, <1>12, <2>1, StreamStep DEF Finally, bus, loop
  <1> QED BY <1>3, <1>4, <1>5, <1>6, <1>7, <1>8, <1>9, <1>10, <1>11, <1>12 
          DEF Server

\* What the page's own steps do to the streams.
LEMMA StepInv == 
  ASSUME TypeOK, TypeOK', SInv, [Next]_vars
  PROVE  SInv'
  <1>0. STypeOK'
    BY DEF TypeOK
  <1>1. ASSUME UNCHANGED <<feed, loop, subs, st>>
        PROVE  SInv'
    <2>1. OrderInv' /\ RingInv' /\ StreamsInv'
      BY <1>1 DEF SInv, OrderInv, RingInv, StreamsInv, loop
    <2> QED BY <1>0, <2>1 DEF SInv
  <1>2. ASSUME NEW s \in Student, Select(s)
        PROVE  SInv'
    <2>1. PICK c \in Stream : Register(c, s)
      BY <1>2 DEF Select, Connect, Fresh
    <2> QED BY <1>0, <1>2, <2>1, RegisterInv DEF Select
  <1>3. CASE Unmount
    BY <1>1, <1>3 DEF Unmount, bus
  <1>4. ASSUME NEW g \in DOMAIN eff, Error(g)
        PROVE  SInv'
    BY <1>1, <1>4 DEF Error
  <1>5. ASSUME NEW g \in DOMAIN eff, Fire(g)
        PROVE  SInv'
    <2>1. eff[g].student \in Student
      <3>1. eff[g] \in EffectState
        BY <1>5, ElementOfSeq DEF TypeOK
      <3> QED BY <3>1 DEF EffectState
    <2>2. PICK c \in Stream : Register(c, eff[g].student)
      BY <1>5 DEF Fire, Connect, Fresh
    <2> QED BY <1>0, <1>5, <2>1, <2>2, RegisterInv DEF Fire
  <1>6. ASSUME NEW c \in Stream, Message(c)
        PROVE  SInv'
    BY <1>0, <1>6, YieldInv DEF Message
  <1>7. CASE Server
    BY <1>7, ServerInv
  <1>8. CASE UNCHANGED vars
    BY <1>1, <1>8 DEF vars, svars, bus
  <1> QED BY <1>2, <1>3, <1>4, <1>5, <1>6, <1>7, <1>8 DEF Next, Browser

LEMMA InitInv == 
  ASSUME Init, TypeOK
  PROVE  SInv
  <1>1. OrderInv
    BY DEF Init, SInit, OrderInv, Increasing
  <1>2. RingInv
    <2>1. \A s \in Student : ring[s] = <<>>
      BY DEF Init, SInit
    <2>2. seen = <<>>
      BY DEF Init, SInit
    <2>3. \A s \in Student : RingOf(<<>>, s, feed, <<>>)
      BY DEF RingOf, Increasing
    <2> QED BY <2>1, <2>2, <2>3 DEF RingInv
  <1>3. StreamsInv
    BY DEF Init, SInit, StreamsInv
  <1> QED BY <1>1, <1>2, <1>3 DEF SInv, TypeOK

\* The elements of a part of a sequence.
LEMMA ElemsSubSeq == 
  ASSUME NEW S, NEW z \in Seq(S), NEW a \in 1..Len(z) + 1, NEW b \in 0..Len(z)
  PROVE  Elems(SubSeq(z, a, b)) = {z[k] : k \in a..b}
  <1>1. PICK q : q = SubSeq(z, a, b)
    OBVIOUS
  <1>2. CASE a <= b
    <2>1. /\ Len(q) = b - a + 1 
          /\ \A i \in 1..b - a + 1 : q[i] = z[a + i - 1]
      BY <1>1, <1>2
    <2>2. ASSUME NEW i \in 1..Len(q) PROVE \E k \in a..b : z[k] = q[i]
      <3>1. a + i - 1 \in a..b
        BY <1>2, <2>1
      <3>2. q[i] = z[a + i - 1]
        BY <2>1
      <3> QED BY <3>1, <3>2
    <2>3. ASSUME NEW k \in a..b PROVE \E i \in 1..Len(q) : z[k] = q[i]
      <3>1. k - a + 1 \in 1..Len(q) /\ a + (k - a + 1) - 1 = k
        BY <1>2, <2>1
      <3>2. q[k - a + 1] = z[k]
        BY <1>2, <2>1, <3>1
      <3> QED BY <3>1, <3>2
    <2>4. \A x : x \in Elems(q) <=> \E i \in 1..Len(q) : x = q[i]
      BY DEF Elems
    <2>5. \A x : x \in {z[k] : k \in a..b} <=> \E k \in a..b : x = z[k]
      OBVIOUS
    <2>6. Elems(q) \subseteq {z[k] : k \in a..b}
      BY <2>2, <2>4, <2>5
    <2>7. {z[k] : k \in a..b} \subseteq Elems(q)
      BY <2>3, <2>4, <2>5
    <2> QED BY <1>1, <2>6, <2>7
  <1>3. CASE ~(a <= b)
    <2>1. Len(q) = 0 /\ a..b = {}
      BY <1>1, <1>3
    <2> QED BY <1>1, <2>1 DEF Elems
  <1> QED BY <1>2, <1>3

\* The new events of a stream, by position.
LEMMA NewProperties == 
  ASSUME SInv, NEW c \in subs
  PROVE  \E w \in Seq(1..Len(feed)), b \in Nat, m \in Nat : 
           /\ w = Whole(c) /\ b = st[c].base /\ m = st[c].snap
           /\ b <= Len(seen) /\ m <= Len(w) /\ Len(New(c)) = Len(w) - m
           /\ \A i \in 1..Len(New(c)) : 
                New(c)[i] = w[m + i] /\ m + i \in 1..Len(w)
           /\ Joined(w, st[c], feed, seen)
           /\ Elems(New(c)) = {w[i] : i \in m + 1..Len(w)}
  <1>1. c \in Stream /\ st[c] \in StreamState
    BY STypes DEF SInv, STypeOK
  <1>2. PICK w \in Seq(1..Len(feed)) : w = Whole(c) /\ w = Sent(st[c])
    BY <1>1, SentType DEF Whole, Pending, Sent
  <1>3. Joined(w, st[c], feed, seen)
    BY <1>1, <1>2 DEF SInv, StreamsInv, Live
  <1>4. PICK m \in Nat : m = st[c].snap
    BY <1>1 DEF StreamState
  <1>5. m <= Len(w) /\ Len(w) \in Nat
    BY <1>3, <1>4 DEF Joined, Own
  <1>6. /\ m + 1 \in 1..Len(w) + 1 /\ Len(w) \in 0..Len(w)
        /\ New(c) = SubSeq(w, m + 1, Len(w))
    BY <1>2, <1>4, <1>5 DEF New
  <1>7. /\ Len(New(c)) = Len(w) - m
        /\ \A i \in 1..Len(w) - m : New(c)[i] = w[m + i]
    BY <1>5, <1>6
  <1>8. \A i \in 1..Len(w) - m : m + i \in 1..Len(w)
    BY <1>5
  <1>9. m + 1 \in 1..Len(w) + 1 /\ Len(w) \in 0..Len(w)
    BY <1>5
  <1>10. Elems(New(c)) = {w[i] : i \in m + 1..Len(w)}
    BY <1>6, <1>9, ElemsSubSeq
  <1>11. PICK b \in Nat : b = st[c].base /\ b <= Len(seen)
    BY <1>1, STypes DEF StreamState
  <1> QED BY <1>2, <1>3, <1>4, <1>5, <1>7, <1>8, <1>10, <1>11

LEMMA GaplessHolds == SInv => Gapless
  <1> SUFFICES ASSUME SInv, NEW c \in subs
               PROVE  /\ \A i, j \in 1..Len(New(c)) : i < j => New(c)[i] < New(c)[j]
                      /\ Elems(New(c)) = 
                           {e \in Elems(SubSeq(seen, st[c].base + 1, Len(seen))) : 
                              OwnEvent(c, e)} \ st[c].dropped
    BY DEF Gapless
  <1>1. PICK n \in Nat : n = Len(feed)
    BY STypes
  <1>2. PICK w \in Seq(1..n), b \in Nat, m \in Nat : 
          /\ w = Whole(c) /\ b = st[c].base /\ m = st[c].snap
          /\ b <= Len(seen) /\ m <= Len(w) /\ Len(New(c)) = Len(w) - m
          /\ \A i \in 1..Len(New(c)) : 
               New(c)[i] = w[m + i] /\ m + i \in 1..Len(w)
          /\ Joined(w, st[c], feed, seen)
          /\ Elems(New(c)) = {w[i] : i \in m + 1..Len(w)}
    BY <1>1, NewProperties
  <1>3. b = st[c].base /\ m = st[c].snap /\ Len(w) \in Nat /\ Len(seen) \in Nat
    BY <1>2, STypes
  <1>4. Len(New(c)) \in Nat /\ Joined(w, st[c], feed, seen) /\ b <= Len(seen)
    <2>1. Len(w) - m \in Nat
      BY <1>2, <1>3
    <2> QED BY <1>2, <2>1
  <1>0. /\ \A i \in 1..Len(w) : feed[w[i]] = st[c].of
        /\ \A i, j \in 1..Len(w) : (m < i /\ i < j) => w[i] < w[j]
        /\ \A i \in 1..Len(w) : m < i => 
             /\ w[i] \notin st[c].dropped 
             /\ \E k \in 1..Len(seen) : b < k /\ seen[k] = w[i]
        /\ \A k \in 1..Len(seen) : 
             (b < k /\ feed[seen[k]] = st[c].of /\ seen[k] \notin st[c].dropped) =>
               \E i \in 1..Len(w) : m < i /\ w[i] = seen[k]
    BY <1>3, <1>4 DEF Joined, Own, Sound, Full
  <1>5. ASSUME NEW i \in 1..Len(New(c)), NEW j \in 1..Len(New(c)), i < j
        PROVE  New(c)[i] < New(c)[j]
    <2>1. /\ New(c)[i] = w[m + i] /\ m + i \in 1..Len(w)
          /\ New(c)[j] = w[m + j] /\ m + j \in 1..Len(w)
      BY <1>2
    <2>2. i \in Nat /\ j \in Nat /\ 0 < i
      BY <1>4
    <2>3. m < m + i /\ m + i < m + j
      BY <1>5, <2>2
    <2>4. \A k, l \in 1..Len(w) : m < k /\ k < l => w[k] < w[l]
      BY <1>0
    <2> QED BY <2>1, <2>3, <2>4
  <1>6. Elems(New(c)) = {w[i] : i \in m + 1..Len(w)}
    BY <1>2
  <1>7. Elems(SubSeq(seen, b + 1, Len(seen))) = {seen[k] : k \in b + 1..Len(seen)}
    <2>1. b + 1 \in 1..Len(seen) + 1 /\ Len(seen) \in 0..Len(seen)
      BY <1>3, <1>4
    <2> QED BY <2>1, STypes, ElemsSubSeq
  <1>8. ASSUME NEW i \in m + 1..Len(w)
        PROVE  /\ w[i] \notin st[c].dropped /\ OwnEvent(c, w[i])
               /\ \E k \in b + 1..Len(seen) : seen[k] = w[i]
    <2>1. i \in 1..Len(w) /\ m < i
      BY <1>3
    <2>2. OwnEvent(c, w[i])
      BY <1>0, <2>1 DEF OwnEvent
    <2>3. w[i] \notin st[c].dropped 
          /\ \E k \in 1..Len(seen) : b < k /\ seen[k] = w[i]
      BY <1>0, <2>1
    <2>4. \A k \in 1..Len(seen) : b < k => k \in b + 1..Len(seen)
      BY <1>3
    <2> QED BY <2>2, <2>3, <2>4
  <1>9. ASSUME NEW k \in b + 1..Len(seen), OwnEvent(c, seen[k]), 
               seen[k] \notin st[c].dropped
        PROVE  \E i \in m + 1..Len(w) : w[i] = seen[k]
    <2>1. k \in 1..Len(seen) /\ b < k
      BY <1>3, STypes
    <2>2. PICK i \in 1..Len(w) : m < i /\ w[i] = seen[k]
      BY <1>0, <1>9, <2>1 DEF OwnEvent
    <2>3. i \in m + 1..Len(w)
      BY <1>3, <2>2
    <2> QED BY <2>2, <2>3
  <1>10. Elems(New(c)) = 
           {e \in Elems(SubSeq(seen, b + 1, Len(seen))) : OwnEvent(c, e)} 
             \ st[c].dropped
    <2>1. PICK W, Z : W = {w[i] : i \in m + 1..Len(w)} 
                      /\ Z = {seen[k] : k \in b + 1..Len(seen)}
      OBVIOUS
    <2>2. \A e \in W : e \in Z /\ OwnEvent(c, e) /\ e \notin st[c].dropped
      BY <1>8, <2>1
    <2>3. \A e \in Z : OwnEvent(c, e) /\ e \notin st[c].dropped => e \in W
      BY <1>9, <2>1
    <2>4. W = {e \in Z : OwnEvent(c, e)} \ st[c].dropped
      BY <2>2, <2>3
    <2> QED BY <1>6, <1>7, <2>1, <2>4
  <1> QED BY <1>3, <1>5, <1>10

LEMMA SeamHolds == SInv => Seam
  <1> SUFFICES ASSUME SInv, NEW c \in subs, Whole(c) # <<>>
               PROVE  LET old == SubSeq(Whole(c), 1, st[c].snap)
                      IN  /\ \A i \in 1..Len(seen) : 
                               (OwnEvent(c, seen[i]) /\ seen[i] >= Whole(c)[1]) =>
                                 seen[i] \in Elems(old) \cup Elems(New(c)) 
                                               \cup st[c].dropped
                          /\ \A e \in Elems(old) \cap Elems(New(c)) : 
                               e \notin Elems(SubSeq(seen, 1, st[c].base))
    BY DEF Seam
  <1>1. PICK n \in Nat : n = Len(feed)
    BY STypes
  <1>2. PICK w \in Seq(1..n), b \in Nat, m \in Nat : 
          /\ w = Whole(c) /\ b = st[c].base /\ m = st[c].snap
          /\ b <= Len(seen) /\ m <= Len(w) /\ Len(New(c)) = Len(w) - m
          /\ \A i \in 1..Len(New(c)) : 
               New(c)[i] = w[m + i] /\ m + i \in 1..Len(w)
          /\ Joined(w, st[c], feed, seen)
          /\ Elems(New(c)) = {w[i] : i \in m + 1..Len(w)}
    BY <1>1, NewProperties
  <1>3. b = st[c].base /\ m = st[c].snap /\ Len(w) \in Nat /\ Len(seen) \in Nat
    BY <1>2, STypes
  <1>4. PICK z \in Seq(1..n) : z = seen /\ Increasing(z)
    BY <1>1, STypes DEF SInv, OrderInv
  <1>5. /\ Joined(w, st[c], feed, z) /\ b <= Len(z) /\ m <= Len(w) /\ Len(z) \in Nat
        /\ Len(New(c)) = Len(w) - m
        /\ \A i \in 1..Len(New(c)) : 
             New(c)[i] = w[m + i] /\ m + i \in 1..Len(w)
    BY <1>2, <1>4
  <1>0. /\ \A i \in 1..Len(w) : feed[w[i]] = st[c].of
        /\ \A i, j \in 1..Len(w) : (m < i /\ i < j) => w[i] < w[j]
        /\ \A i \in 1..Len(w) : m < i => 
             /\ w[i] \notin st[c].dropped 
             /\ \E k \in 1..Len(z) : b < k /\ z[k] = w[i]
        /\ \A k \in 1..Len(z) : 
             (b < k /\ feed[z[k]] = st[c].of /\ z[k] \notin st[c].dropped) =>
               \E i \in 1..Len(w) : m < i /\ w[i] = z[k]
        /\ \A k \in 1..Len(z) : 
             (k <= b /\ m > 0 /\ feed[z[k]] = st[c].of /\ w[1] <= z[k]) =>
               \E i \in 1..m : w[i] = z[k]
    BY <1>3, <1>5 DEF Joined, Own, Sound, Full, Replayed
  <1>6. Elems(SubSeq(w, 1, m)) = {w[i] : i \in 1..m}
    <2>1. 1 \in 1..Len(w) + 1 /\ m \in 0..Len(w)
      BY <1>3, <1>5
    <2> QED BY <2>1, ElemsSubSeq
  <1>7. Elems(SubSeq(z, 1, b)) = {z[k] : k \in 1..b}
    <2>1. 1 \in 1..Len(z) + 1 /\ b \in 0..Len(z)
      BY <1>3, <1>5
    <2> QED BY <2>1, ElemsSubSeq
  <1>8. ASSUME NEW i \in 1..Len(w), m < i
        PROVE  w[i] \in Elems(New(c))
    <2>1. i \in m + 1..Len(w)
      BY <1>3, <1>8
    <2> QED BY <1>2, <2>1
  <1>9. ASSUME NEW k \in 1..Len(z), OwnEvent(c, z[k]), z[k] >= w[1]
        PROVE  z[k] \in Elems(SubSeq(w, 1, m)) \cup Elems(New(c)) \cup st[c].dropped
    <2>0. 1 \in 1..Len(w)
      <3>1. w # <<>>
        BY <1>2
      <3> QED BY <3>1
    <2>1. feed[z[k]] = st[c].of /\ 1 \in 1..Len(w) /\ w[1] \in Nat /\ z[k] \in Nat
          /\ w[1] <= z[k]
      BY <1>9, <2>0 DEF OwnEvent
    <2>2. CASE b < k
      <3>1. CASE z[k] \in st[c].dropped
        BY <3>1
      <3>2. CASE z[k] \notin st[c].dropped
        <4>1. PICK i \in 1..Len(w) : m < i /\ w[i] = z[k]
          BY <1>0, <2>1, <2>2, <3>2
        <4> QED BY <1>8, <4>1
      <3> QED BY <3>1, <3>2
    <2>3. CASE k <= b /\ m > 0
      <3>1. PICK i \in 1..m : w[i] = z[k]
        BY <1>0, <2>1, <2>3
      <3> QED BY <1>6, <3>1
    <2>4. CASE k <= b /\ m = 0
      <3>0. m < 1 /\ 1 \in 1..Len(w)
        BY <2>1, <2>4
      <3>1. PICK j \in 1..Len(z) : b < j /\ z[j] = w[1]
        BY <1>0, <3>0
      <3>2. k < j
        <4>1. k \in Nat /\ j \in Nat
          OBVIOUS
        <4> QED BY <2>4, <3>1, <4>1
      <3>3. z[k] < z[j] /\ z[j] \in Nat
        BY <1>4, <3>1, <3>2 DEF Increasing
      <3> QED BY <2>1, <3>1, <3>3
    <2>5. b < k \/ k <= b
      BY <1>3, <1>4
    <2>6. m > 0 \/ m = 0
      BY <1>3
    <2> QED BY <2>2, <2>3, <2>4, <2>5, <2>6
  <1>10. ASSUME NEW e \in Elems(New(c))
         PROVE  e \notin Elems(SubSeq(z, 1, b))
    <2>1. PICK i \in m + 1..Len(w) : e = w[i]
      BY <1>2, <1>10
    <2>2. i \in 1..Len(w) /\ m < i
      BY <1>3, <2>1
    <2>3. PICK j \in 1..Len(z) : b < j /\ z[j] = e
      BY <1>0, <2>1, <2>2
    <2>4. \A k \in 1..b : z[k] # e
      <3> SUFFICES ASSUME NEW k \in 1..b PROVE z[k] # e
        OBVIOUS
      <3>1. k \in 1..Len(z) /\ k < j
        <4>1. j \in Nat /\ Len(z) \in Nat /\ b <= Len(z) /\ b < j
          BY <1>5, <2>3
        <4> QED BY <4>1
      <3>2. z[k] < z[j] /\ z[k] \in Nat /\ z[j] \in Nat
        BY <1>4, <3>1 DEF Increasing
      <3> QED BY <2>3, <3>2
    <2> QED BY <1>7, <2>4
  <1> QED BY <1>2, <1>3, <1>4, <1>9, <1>10

LEMMA StreamsInvariant == Spec => []SInv
  <1>1. Init => SInv
    <2>1. Init => TypeOK
      BY InitType
    <2> QED BY <2>1, InitInv
  <1>2. TypeOK /\ TypeOK' /\ SInv /\ [Next]_vars => SInv'
    BY StepInv
  <1> QED BY <1>1, <1>2, TypeCorrect, PTL DEF Spec

\* A stream sends each event of its student once, in the order of the bus, and
\* misses only what found its own queue full, whatever the other streams do.
THEOREM GaplessCorrect == Spec => []Gapless
  BY GaplessHolds, StreamsInvariant, PTL

\* The replay and the live events of a stream leave no hole between them, and
\* overlap only in what arrived after its registration.
THEOREM SeamCorrect == Spec => []Seam
  BY SeamHolds, StreamsInvariant, PTL

-----------------------------------------------------------------------------
(* The page.                                                               *)

\* A source belongs to one effect, of the student it streams; an effect that
\* was cancelled with its timer off has none; all but the last one of a page
\* that is shown are cancelled.
EffectInv == 
  /\ \A g \in DOMAIN eff : eff[g].es # None => 
       /\ eff[g].es \in link
       /\ eff[g].es \in subs => st[eff[g].es].of = eff[g].student
  /\ \A g, h \in DOMAIN eff : (g # h /\ eff[g].es # None) => eff[g].es # eff[h].es
  /\ \A g \in DOMAIN eff : (eff[g].cancelled /\ ~eff[g].late) => 
       ~eff[g].timer /\ eff[g].es = None
  /\ \A g \in DOMAIN eff : (g # Len(eff) \/ url = None) => eff[g].cancelled
  /\ url # None => Len(eff) \in DOMAIN eff /\ ~eff[Len(eff)].cancelled 
                   /\ eff[Len(eff)].student = url
\* What the page shows, by student.
ItemsInv == 
  /\ items \in Seq(1..Len(feed)) /\ (url = None => items = <<>>)
  /\ \A i \in 1..Len(items) : 
       \/ feed[items[i]] = url
       \/ \E g \in DOMAIN eff : eff[g].late /\ eff[g].student = feed[items[i]]
PageInv == EffectInv /\ ItemsInv

\* What the server leaves alone.
LEMMA ServerKeeps == 
  ASSUME TypeOK, SInv, Server
  PROVE  /\ link' = link /\ Len(feed) \in Nat
         /\ Len(feed) <= Len(feed') /\ \A i \in 1..Len(feed) : feed'[i] = feed[i]
         /\ \A c \in subs' : c \in subs /\ st'[c].of = st[c].of
  <1>0. Len(feed) \in Nat /\ feed \in Seq(Student \cup {Noise, Poison})
        /\ subs \subseteq Stream /\ st \in [Stream -> StreamState]
    BY DEF TypeOK, STypeOK
  <1>1. CASE UNCHANGED <<feed, link, subs, st>>
    BY <1>0, <1>1
  <1>2. CASE Crash
    BY <1>0, <1>2 DEF Crash
  <1>3. ASSUME NEW line \in Student \cup {Noise, Poison}, Cast(line)
        PROVE  /\ UNCHANGED <<link, subs, st>> /\ Len(feed) <= Len(feed') 
               /\ \A i \in 1..Len(feed) : feed'[i] = feed[i]
    BY <1>0, <1>3 DEF Cast
  <1>4. CASE ReadLine
    <2>1. UNCHANGED <<feed, link, subs>> 
      BY <1>4 DEF ReadLine, bus
    <2>2. ASSUME NEW c \in subs, NEW s, NEW e, st' = Fanout(s, e)
          PROVE  st'[c].of = st[c].of
      <3>1. c \in Stream /\ st[c] \in StreamState
        BY <1>0
      <3>2. Offer(st[c], e).of = st[c].of
        BY <3>1 DEF Offer, StreamState
      <3> QED BY <2>2, <3>1, <3>2 DEF Fanout
    <2> QED BY <1>0, <1>4, <2>1, <2>2 DEF ReadLine
  <1>5. ASSUME NEW c \in Stream, Begin(c) \/ Abandon(c)
        PROVE  /\ UNCHANGED <<feed, link, subs>> 
               /\ \A d \in subs : st'[d].of = st[d].of
    <2>1. UNCHANGED <<feed, link, subs>>
      BY <1>5 DEF Begin, Abandon, bus
    <2>2. st[c] \in StreamState
      BY <1>0
    <2>3. st'[c].of = st[c].of /\ \A d \in Stream : d # c => st'[d] = st[d]
      BY <1>0, <1>5, <2>2 DEF Begin, Abandon, StreamState
    <2> QED BY <1>0, <2>1, <2>3
  <1>6. ASSUME NEW c \in Stream, Finally(c)
        PROVE  /\ UNCHANGED <<feed, link>> 
               /\ \A d \in subs' : d \in subs /\ st'[d] = st[d]
    BY <1>0, <1>6 DEF Finally, bus
  <1>7. CASE Fail \/ Start \/ Dial \/ Eof
    BY <1>1, <1>7 DEF Fail, Start, Dial, Eof, bus, loop
  <1> QED BY <1>0, <1>1, <1>2, <1>3, <1>4, <1>5, <1>6, <1>7 DEF Server

LEMMA PageKept == 
  ASSUME PageInv, UNCHANGED <<eff, url, items, link>>, Len(feed) \in Nat,
         Len(feed') \in Nat, Len(feed) <= Len(feed'), 
         \A i \in 1..Len(feed) : feed'[i] = feed[i],
         \A c \in subs' : c \in subs /\ st'[c].of = st[c].of
  PROVE  PageInv'
  <1>1. EffectInv'
    BY DEF PageInv, EffectInv
  <1>2. items' \in Seq(1..Len(feed'))
    BY SeqGrows DEF PageInv, ItemsInv
  <1>3. \A i \in 1..Len(items) : items[i] \in 1..Len(feed)
    BY DEF PageInv, ItemsInv
  <1>4. ItemsInv'
    BY <1>2, <1>3 DEF PageInv, ItemsInv
  <1> QED BY <1>1, <1>4 DEF PageInv

\* A new source: the stream was nobody's.
LEMMA ConnectStreams == 
  ASSUME TypeOK, NEW c \in Fresh, NEW s \in Student, NEW D, Connect(c, s, D)
  PROVE  /\ c \in Stream /\ c \notin link /\ c # None /\ link' = (link \ D) \cup {c}
         /\ st'[c].of = s /\ subs' = subs \cup {c}
         /\ \A d \in subs : st'[d].of = st[d].of /\ d # c
  <1>1. c \in Stream /\ c \notin link /\ c \notin subs /\ c # None
    BY ClientAssumption DEF Fresh
  <1>2. st[c] \in StreamState /\ st \in [Stream -> StreamState] /\ subs \subseteq Stream
    BY <1>1 DEF TypeOK, STypeOK
  <1>3. st'[c].of = s /\ \A d \in Stream : d # c => st'[d] = st[d]
    BY <1>1, <1>2 DEF Connect, Register, StreamState
  <1> QED BY <1>1, <1>2, <1>3 DEF Connect, Register

LEMMA SelectPage == 
  ASSUME TypeOK, PageInv, NEW s \in Student, Select(s)
  PROVE  PageInv'
  <1>1. PICK c \in Fresh : /\ Connect(c, s, Closed(Cleanup))
                           /\ eff' = Append(Cleanup, Effect(s, c))
    BY DEF Select
  <1>2. /\ c \in Stream /\ c \notin link /\ c # None
        /\ link' = (link \ Closed(Cleanup)) \cup {c}
        /\ st'[c].of = s /\ subs' = subs \cup {c}
        /\ \A d \in subs : st'[d].of = st[d].of /\ d # c
    BY <1>1, ConnectStreams
  <1>3. PICK n \in Nat : n = Len(eff) /\ DOMAIN eff = 1..n
    BY DEF TypeOK
  <1>0. /\ \A g \in 1..n : (eff[g].cancelled /\ ~eff[g].late) => 
             ~eff[g].timer /\ eff[g].es = None
        /\ \A g, h \in 1..n : (g # h /\ eff[g].es # None) => eff[g].es # eff[h].es
        /\ \A g \in 1..n : g # n => eff[g].cancelled
    BY <1>3 DEF PageInv, EffectInv
  <1>4. PICK new \in Seq(EffectState) : 
          /\ new = Cleanup /\ Len(new) = n
          /\ \A g \in 1..n : g # n => new[g] = eff[g]
          /\ \A g \in 1..n : g = n => 
               new[g] = [eff[g] EXCEPT !.cancelled = TRUE, 
                                       !.late = eff[g].timer, !.es = None]
    BY <1>3, CleanupType
  <1>5. \A g \in 1..n : g = n => /\ new[g].cancelled /\ new[g].es = None
                                 /\ new[g].late = eff[g].timer 
                                 /\ new[g].timer = eff[g].timer
    <2> SUFFICES ASSUME NEW g \in 1..n, g = n
                 PROVE  /\ new[g].cancelled /\ new[g].es = None
                        /\ new[g].late = eff[g].timer /\ new[g].timer = eff[g].timer
      OBVIOUS
    <2>1. PICK r \in EffectState : r = eff[g]
      BY <1>3, ElementOfSeq DEF TypeOK
    <2>2. new[g] = [r EXCEPT !.cancelled = TRUE, !.late = r.timer, !.es = None]
      BY <1>4, <2>1
    <2> QED BY <2>1, <2>2 DEF EffectState
  <1>6. PICK last : last = Effect(s, c)
    OBVIOUS
  <1>7. /\ last.es = c /\ last.student = s /\ ~last.cancelled /\ ~last.late 
    BY <1>6 DEF Effect
  <1>8. /\ Len(eff') = n + 1 /\ DOMAIN eff' = 1..n + 1 /\ eff'[n + 1] = last
        /\ \A g \in 1..n : eff'[g] = new[g]
        /\ \A g \in 1..n + 1 : g \in 1..n \/ g = n + 1
    <2>1. eff' = Append(new, last) /\ last \in EffectState
      BY <1>1, <1>2, <1>4, <1>6 DEF Effect, EffectState
    <2>2. PICK y \in Seq(EffectState) : y = eff' /\ Len(y) = n + 1
      BY <1>4, <2>1, AppendProperties
    <2>3. y[n + 1] = last /\ \A g \in 1..n : y[g] = new[g]
      <3>1. y = Append(new, last) /\ Len(new) = n
        BY <1>4, <2>1, <2>2
      <3>2. y[Len(new) + 1] = last /\ \A g \in 1..Len(new) : y[g] = new[g]
        BY <3>1, Appended
      <3> QED BY <3>1, <3>2
    <2>4. DOMAIN y = 1..n + 1
      BY <2>2
    <2> QED BY <2>2, <2>3, <2>4
  <1>9. ASSUME NEW g \in 1..n, new[g].es # None
        PROVE  /\ g # n /\ new[g] = eff[g] /\ new[g].es \in link' /\ new[g].es # c
               /\ new[g].es \in subs' => st'[new[g].es].of = new[g].student
    <2>1. g # n /\ new[g] = eff[g] /\ eff[g].es # None
      BY <1>4, <1>5, <1>9
    <2>2. eff[g].es \in link /\ (eff[g].es \in subs => st[eff[g].es].of = eff[g].student)
      BY <1>3, <2>1 DEF PageInv, EffectInv
    <2>3. eff[g].es \notin Closed(Cleanup)
      <3>1. \A h \in 1..n : h # g => eff[h].es # eff[g].es
        BY <1>3, <2>1 DEF PageInv, EffectInv
      <3> QED BY <1>3, <1>4, <2>1, <3>1 DEF Closed
    <2> QED BY <1>2, <2>1, <2>2, <2>3
  <1>10. EffectInv'
    <2>1. \A g \in DOMAIN eff' : eff'[g].es # None => 
            /\ eff'[g].es \in link'
            /\ eff'[g].es \in subs' => st'[eff'[g].es].of = eff'[g].student
      BY <1>2, <1>7, <1>8, <1>9
    <2>2. \A g, h \in DOMAIN eff' : 
            (g # h /\ eff'[g].es # None) => eff'[g].es # eff'[h].es
      <3>1. ASSUME NEW g \in 1..n, NEW h \in 1..n, g # h, new[g].es # None
            PROVE  new[g].es # new[h].es
        <4>1. CASE h = n
          BY <1>5, <3>1, <4>1
        <4>2. CASE h # n
          <5>1. new[g] = eff[g] /\ new[h] = eff[h]
            BY <1>4, <1>9, <3>1, <4>2
          <5> QED BY <1>0, <3>1, <5>1
        <4> QED BY <4>1, <4>2
      <3>2. \A g \in 1..n : new[g].es # c
        BY <1>2, <1>9
      <3> QED BY <1>7, <1>8, <3>1, <3>2
    <2>3. \A g \in DOMAIN eff' : (eff'[g].cancelled /\ ~eff'[g].late) => 
            ~eff'[g].timer /\ eff'[g].es = None
      <3>1. ASSUME NEW g \in 1..n, new[g].cancelled, ~new[g].late
            PROVE  ~new[g].timer /\ new[g].es = None
        <4>1. CASE g = n
          BY <1>5, <3>1, <4>1
        <4>2. CASE g # n
          <5>1. new[g] = eff[g]
            BY <1>4, <4>2
          <5> QED BY <1>0, <3>1, <5>1
        <4> QED BY <4>1, <4>2
      <3> QED BY <1>7, <1>8, <3>1
    <2>4. \A g \in DOMAIN eff' : (g # Len(eff') \/ url' = None) => eff'[g].cancelled
      <3>1. \A g \in 1..n : new[g].cancelled
        BY <1>3, <1>4, <1>5 DEF PageInv, EffectInv
      <3>2. url' # None
        BY ClientAssumption DEF Select
      <3> QED BY <1>8, <3>1, <3>2
    <2>5. url' # None => /\ Len(eff') \in DOMAIN eff' /\ ~eff'[Len(eff')].cancelled 
                         /\ eff'[Len(eff')].student = url'
      BY <1>3, <1>7, <1>8 DEF Select
    <2> QED BY <2>1, <2>2, <2>3, <2>4, <2>5 DEF EffectInv
  <1>11. ItemsInv'
    BY DEF Select, ItemsInv
  <1> QED BY <1>10, <1>11 DEF PageInv

LEMMA UnmountPage == 
  ASSUME TypeOK, PageInv, Unmount
  PROVE  PageInv'
  <1>1. PICK n \in Nat : n = Len(eff) /\ DOMAIN eff = 1..n
    BY DEF TypeOK
  <1>0. /\ \A g \in 1..n : (eff[g].cancelled /\ ~eff[g].late) => 
             ~eff[g].timer /\ eff[g].es = None
        /\ \A g, h \in 1..n : (g # h /\ eff[g].es # None) => eff[g].es # eff[h].es
        /\ \A g \in 1..n : g # n => eff[g].cancelled
    BY <1>1 DEF PageInv, EffectInv
  <1>2. PICK new \in Seq(EffectState) : 
          /\ new = Cleanup /\ Len(new) = n /\ DOMAIN new = 1..n
          /\ \A g \in 1..n : g # n => new[g] = eff[g]
          /\ \A g \in 1..n : g = n => 
               new[g] = [eff[g] EXCEPT !.cancelled = TRUE, 
                                       !.late = eff[g].timer, !.es = None]
    BY <1>1, CleanupType
  <1>3. \A g \in 1..n : g = n => /\ new[g].cancelled /\ new[g].es = None
                                 /\ new[g].late = eff[g].timer 
                                 /\ new[g].timer = eff[g].timer
    <2>1. \A g \in 1..n : eff[g] \in EffectState
      BY <1>1, ElementOfSeq DEF TypeOK
    <2>2. ASSUME NEW g \in 1..n, g = n
          PROVE  /\ new[g].cancelled /\ new[g].es = None
                 /\ new[g].late = eff[g].timer /\ new[g].timer = eff[g].timer
      <3>1. PICK r \in EffectState : r = eff[g]
        BY <2>1
      <3>2. new[g] = [r EXCEPT !.cancelled = TRUE, !.late = r.timer, !.es = None]
        BY <1>2, <2>2, <3>1
      <3> QED BY <3>1, <3>2 DEF EffectState
    <2> QED BY <2>2
  <1>4. /\ eff' = new /\ link' = link \ Closed(Cleanup) /\ url' = None
        /\ UNCHANGED <<subs, st>>
    BY <1>2 DEF Unmount
  <1>5. ASSUME NEW g \in 1..n, new[g].es # None
        PROVE  /\ new[g].es \in link' 
               /\ new[g].es \in subs => st[new[g].es].of = new[g].student
               /\ \A h \in 1..n : h # g => new[h].es # new[g].es
    <2>1. g # n /\ new[g] = eff[g] /\ eff[g].es # None
      BY <1>2, <1>3, <1>5
    <2>2. eff[g].es \in link /\ (eff[g].es \in subs => st[eff[g].es].of = eff[g].student)
      BY <1>1, <2>1 DEF PageInv, EffectInv
    <2>3. \A h \in 1..n : h # g => eff[h].es # eff[g].es
      BY <1>1, <2>1 DEF PageInv, EffectInv
    <2>4. eff[g].es \notin Closed(Cleanup)
      BY <1>1, <1>2, <2>1, <2>3 DEF Closed
    <2>5. \A h \in 1..n : h # g => new[h].es # eff[g].es
      BY <1>2, <1>3, <2>1, <2>3
    <2> QED BY <1>4, <2>1, <2>2, <2>4, <2>5
  <1>6. ASSUME NEW g \in 1..n
        PROVE  /\ new[g].cancelled
               /\ (new[g].cancelled /\ ~new[g].late) => ~new[g].timer /\ new[g].es = None
    <2>1. CASE g = n
      BY <1>3, <2>1
    <2>2. CASE g # n
      <3>1. new[g] = eff[g]
        BY <1>2, <2>2
      <3> QED BY <1>0, <2>2, <3>1
    <2> QED BY <2>1, <2>2
  <1>7. EffectInv'
    <2>1. \A g \in 1..n : new[g].es # None => 
            /\ new[g].es \in link'
            /\ new[g].es \in subs' => st'[new[g].es].of = new[g].student
      BY <1>4, <1>5
    <2>2. \A g, h \in 1..n : (g # h /\ new[g].es # None) => new[g].es # new[h].es
      BY <1>5
    <2>3. DOMAIN eff' = 1..n /\ eff' = new /\ url' = None
      BY <1>2, <1>4
    <2>4. \A g \in 1..n : /\ new[g].cancelled
                          /\ ~new[g].late => ~new[g].timer /\ new[g].es = None
      BY <1>6
    <2> QED BY <2>1, <2>2, <2>3, <2>4 DEF EffectInv
  <1>8. ItemsInv'
    BY DEF Unmount, ItemsInv
  <1> QED BY <1>7, <1>8 DEF PageInv

\* An effect whose source and timer change.
LEMMA EffectPage == 
  ASSUME TypeOK, PageInv, NEW g \in DOMAIN eff, NEW x, eff' = [eff EXCEPT ![g] = x],
         x.student = eff[g].student, x.cancelled = eff[g].cancelled, 
         x.late = eff[g].late, ~(x.cancelled /\ ~x.late),
         UNCHANGED <<feed, url, items>>,
         \A h \in DOMAIN eff : (h # g /\ eff[h].es # None) => 
           /\ eff[h].es \in link' /\ eff[h].es # x.es
           /\ eff[h].es \in subs' => st'[eff[h].es].of = eff[h].student,
         x.es # None => x.es \in link' /\ (x.es \in subs' => st'[x.es].of = x.student)
  PROVE  PageInv'
  <1>1. PICK n \in Nat : n = Len(eff) /\ DOMAIN eff = 1..n
    BY DEF TypeOK
  <1>2. PICK y : y = eff'
    OBVIOUS
  <1>3. /\ y[g] = x /\ \A h \in 1..n : h # g => y[h] = eff[h]
        /\ DOMAIN y = 1..n /\ Len(y) = n
    BY <1>1, <1>2 DEF TypeOK
  <1>4. \A h \in 1..n : /\ y[h].cancelled = eff[h].cancelled
                        /\ y[h].late = eff[h].late
                        /\ y[h].student = eff[h].student
    BY <1>3
  <1>5. ItemsInv'
    BY <1>1, <1>2, <1>3, <1>4 DEF PageInv, ItemsInv
  <1>6. \A h \in 1..n : y[h].es # None => 
          /\ y[h].es \in link'
          /\ y[h].es \in subs' => st'[y[h].es].of = y[h].student
    BY <1>1, <1>3
  <1>7. \A h, k \in 1..n : (h # k /\ y[h].es # None) => y[h].es # y[k].es
    <2> SUFFICES ASSUME NEW h \in 1..n, NEW k \in 1..n, h # k, y[h].es # None
                 PROVE  y[h].es # y[k].es
      OBVIOUS
    <2>1. CASE h = g
      BY <1>1, <1>3, <2>1
    <2>2. CASE k = g
      BY <1>1, <1>3, <2>2
    <2>3. CASE h # g /\ k # g
      BY <1>1, <1>3, <2>3 DEF PageInv, EffectInv
    <2> QED BY <2>1, <2>2, <2>3
  <1>8. \A h \in 1..n : (y[h].cancelled /\ ~y[h].late) => ~y[h].timer /\ y[h].es = None
    BY <1>1, <1>3 DEF PageInv, EffectInv
  <1>9. \A h \in 1..n : (h # n \/ url = None) => y[h].cancelled
    BY <1>1, <1>4 DEF PageInv, EffectInv
  <1>10. url # None => n \in 1..n /\ ~y[n].cancelled /\ y[n].student = url
    BY <1>1, <1>4 DEF PageInv, EffectInv
  <1>11. EffectInv'
    BY <1>2, <1>3, <1>6, <1>7, <1>8, <1>9, <1>10 DEF EffectInv
  <1> QED BY <1>5, <1>11 DEF PageInv

LEMMA ErrorPage == 
  ASSUME TypeOK, PageInv, NEW g \in DOMAIN eff, Error(g)
  PROVE  PageInv'
  <1>1. PICK r \in EffectState : r = eff[g]
    BY ElementOfSeq DEF TypeOK
  <1>2. PICK x : x = [r EXCEPT !.es = None, !.timer = ~r.cancelled]
    OBVIOUS
  <1>3. /\ x.es = None /\ x.student = r.student /\ x.cancelled = r.cancelled
        /\ x.late = r.late
    BY <1>2 DEF EffectState
  <1>4. eff' = [eff EXCEPT ![g] = x]
    <2>1. eff' = [[eff EXCEPT ![g].es = None] EXCEPT ![g].timer = ~eff[g].cancelled]
      BY DEF Error, OnError
    <2> QED BY <1>1, <1>2, <2>1 DEF TypeOK
  <1>5. r.es # None /\ link' = link \ {r.es} /\ UNCHANGED <<feed, url, items, subs, st>>
    BY <1>1 DEF Error
  <1>6. ~(x.cancelled /\ ~x.late)
    BY <1>1, <1>3, <1>5 DEF PageInv, EffectInv
  <1>7. \A h \in DOMAIN eff : (h # g /\ eff[h].es # None) => 
          /\ eff[h].es \in link' /\ eff[h].es # x.es
          /\ eff[h].es \in subs' => st'[eff[h].es].of = eff[h].student
    BY <1>1, <1>3, <1>5 DEF PageInv, EffectInv
  <1> QED BY <1>1, <1>3, <1>4, <1>5, <1>6, <1>7, EffectPage

LEMMA FirePage == 
  ASSUME TypeOK, PageInv, NEW g \in DOMAIN eff, Fire(g)
  PROVE  PageInv'
  <1>1. PICK r \in EffectState : r = eff[g]
    BY ElementOfSeq DEF TypeOK
  <1>2. PICK c \in Fresh : /\ Connect(c, r.student, {})
                           /\ eff' = [eff EXCEPT ![g].timer = FALSE, ![g].es = c]
    BY <1>1 DEF Fire
  <1>3. /\ c \in Stream /\ c \notin link /\ c # None /\ link' = link \cup {c}
        /\ st'[c].of = r.student /\ subs' = subs \cup {c}
        /\ \A d \in subs : st'[d].of = st[d].of /\ d # c
    <2>1. r.student \in Student
      BY DEF EffectState
    <2> QED BY <1>2, <2>1, ConnectStreams
  <1>4. PICK x : x = [r EXCEPT !.timer = FALSE, !.es = c]
    OBVIOUS
  <1>5. /\ x.es = c /\ x.student = r.student /\ x.cancelled = r.cancelled
        /\ x.late = r.late
    BY <1>4 DEF EffectState
  <1>6. eff' = [eff EXCEPT ![g] = x]
    BY <1>1, <1>2, <1>4 DEF TypeOK
  <1>7. r.timer /\ UNCHANGED <<feed, url, items>>
    BY <1>1 DEF Fire, bus
  <1>8. ~(x.cancelled /\ ~x.late)
    BY <1>1, <1>5, <1>7 DEF PageInv, EffectInv
  <1>9. \A h \in DOMAIN eff : (h # g /\ eff[h].es # None) => 
          /\ eff[h].es \in link' /\ eff[h].es # x.es
          /\ eff[h].es \in subs' => st'[eff[h].es].of = eff[h].student
    <2>1. \A h \in DOMAIN eff : eff[h].es # None => 
            /\ eff[h].es \in link
            /\ eff[h].es \in subs => st[eff[h].es].of = eff[h].student
      BY DEF PageInv, EffectInv
    <2> QED BY <1>3, <1>5, <2>1
  <1>10. x.es \in link' /\ st'[x.es].of = x.student
    BY <1>3, <1>5
  <1>11. x.student = eff[g].student /\ x.cancelled = eff[g].cancelled
         /\ x.late = eff[g].late
    BY <1>1, <1>5
  <1> QED BY <1>6, <1>7, <1>8, <1>9, <1>10, <1>11, EffectPage

LEMMA MessagePage == 
  ASSUME TypeOK, SInv, PageInv, NEW c \in Stream, Message(c)
  PROVE  PageInv'
  <1>1. PICK n \in Nat : n = Len(feed)
    BY STypes
  <1>2. /\ c \in subs /\ st[c] \in StreamState /\ st \in [Stream -> StreamState]
        /\ Joined(Sent(st[c]), st[c], feed, seen) /\ subs \subseteq Stream
    <2>1. st[c] # NoStream
      BY DEF Message, Yield, NoStream
    <2> QED BY <2>1, STypes DEF SInv, StreamsInv, Live, TypeOK, STypeOK
  <1>3. PICK e : e = Head(Pending(c))
    OBVIOUS
  <1>4. e \in 1..n /\ feed[e] = st[c].of
    <2>1. PICK i \in 1..Len(Sent(st[c])) : Sent(st[c])[i] = e
      BY <1>2, <1>3, PassSends DEF Message, Yield, Pending
    <2>2. feed[e] = st[c].of
      BY <1>2, <2>1 DEF Joined, Own
    <2>3. e \in 1..n
      BY <1>1, <1>2, <2>1, SentType
    <2> QED BY <2>2, <2>3
  <1>5. /\ UNCHANGED <<url, eff, feed, link, subs>>
        /\ \A d \in subs : st'[d].of = st[d].of
    <2>1. Pass(st[c]).of = st[c].of
      BY <1>2, PassType DEF Message, Yield, Pending
    <2>2. st' = [st EXCEPT ![c] = Pass(st[c])]
      BY DEF Message, Yield
    <2>3. \A d \in Stream : st'[d].of = st[d].of
      BY <1>2, <2>1, <2>2
    <2> QED BY <1>2, <2>3 DEF Message, Yield, bus
  <1>6. EffectInv'
    BY <1>5 DEF PageInv, EffectInv
  <1>7. CASE items' = items
    BY <1>5, <1>6, <1>7 DEF PageInv, ItemsInv
  <1>8. CASE items' # items
    <2>1. PICK g \in DOMAIN eff : url # None /\ eff[g].es = c
      BY <1>8 DEF Message, Shown
    <2>2. feed[e] = eff[g].student
      BY <1>2, <1>4, <2>1, ClientAssumption DEF PageInv, EffectInv
    <2>3. feed[e] = url \/ eff[g].late
      BY <2>1, <2>2, ClientAssumption DEF PageInv, EffectInv
    <2>0. PICK q \in Seq(1..n) : q = items
      BY <1>1 DEF PageInv, ItemsInv
    <2>4. PICK x \in Seq(1..n) : x = Append(q, e) 
      BY <1>4, AppendProperties
    <2>5. PICK y \in Seq(1..n) : y = items' /\ y = LastOf(x, ItemCap)
      BY <1>3, <1>8, <2>0, <2>4, LastOfProperties, ClientAssumption DEF Message
    <2>6. ASSUME NEW i \in 1..Len(y)
          PROVE  y[i] = e \/ \E k \in 1..Len(items) : y[i] = items[k]
      <3>1. PICK j \in 1..Len(x) : y[i] = x[j]
        <4>1. ItemCap \in Nat
          BY ClientAssumption
        <4>2. \A k \in 1..Len(LastOf(x, ItemCap)) : 
                /\ LastOf(x, ItemCap)[k] = x[Len(x) - Len(LastOf(x, ItemCap)) + k]
                /\ Len(x) - Len(LastOf(x, ItemCap)) + k \in 1..Len(x)
          BY <4>1, LastOfProperties
        <4> QED BY <2>5, <4>2
      <3>2. /\ Len(items) \in Nat /\ Len(x) = Len(items) + 1
            /\ x[Len(items) + 1] = e
            /\ \A k \in 1..Len(items) : x[k] = items[k]
        <4>1. /\ Len(q) \in Nat /\ Len(x) = Len(q) + 1 /\ x[Len(q) + 1] = e
              /\ \A k \in 1..Len(q) : x[k] = q[k]
          BY <2>4, Appended
        <4> QED BY <2>0, <4>1
      <3>3. j \in 1..Len(items) \/ j = Len(items) + 1
        BY <3>2
      <3> QED BY <3>1, <3>2, <3>3
    <2>7. \A k \in 1..Len(items) : 
            \/ feed[items[k]] = url
            \/ \E h \in DOMAIN eff : eff[h].late /\ eff[h].student = feed[items[k]]
      BY DEF PageInv, ItemsInv
    <2>8. \A i \in 1..Len(y) : 
            \/ feed[y[i]] = url
            \/ \E h \in DOMAIN eff : eff[h].late /\ eff[h].student = feed[y[i]]
      <3>1. ASSUME NEW i \in 1..Len(y)
            PROVE  \/ feed[y[i]] = url
                   \/ \E h \in DOMAIN eff : eff[h].late /\ eff[h].student = feed[y[i]]
        <4>1. CASE y[i] = e
          BY <2>2, <2>3, <4>1
        <4>2. ASSUME NEW k \in 1..Len(items), y[i] = items[k]
              PROVE  \/ feed[y[i]] = url
                     \/ \E h \in DOMAIN eff : 
                          eff[h].late /\ eff[h].student = feed[y[i]]
          BY <2>7, <4>2
        <4> QED BY <2>6, <4>1, <4>2
      <3> QED BY <3>1
    <2>9. ItemsInv'
      BY <1>1, <1>5, <2>1, <2>5, <2>8 DEF ItemsInv
    <2> QED BY <1>6, <2>9 DEF PageInv
  <1> QED BY <1>7, <1>8

\* A page shows its student's events, whatever its effects went through.
THEOREM PageCorrect == Spec => []ItemsOfUrl
  <1>1. Init => PageInv
    BY DEF Init, SInit, PageInv, EffectInv, ItemsInv
  <1>2. TypeOK /\ SInv /\ PageInv /\ [Next]_vars => PageInv'
    <2> SUFFICES ASSUME TypeOK, SInv, PageInv, [Next]_vars PROVE PageInv'
      OBVIOUS
    <2>1. ASSUME NEW s \in Student, Select(s) PROVE PageInv'
      BY <2>1, SelectPage
    <2>2. CASE Unmount
      BY <2>2, UnmountPage
    <2>3. ASSUME NEW g \in DOMAIN eff, Error(g) PROVE PageInv'
      BY <2>3, ErrorPage
    <2>4. ASSUME NEW g \in DOMAIN eff, Fire(g) PROVE PageInv'
      BY <2>4, FirePage
    <2>5. ASSUME NEW c \in Stream, Message(c) PROVE PageInv'
      BY <2>5, MessagePage
    <2>6. CASE Server /\ UNCHANGED client
      <3>1. STypeOK'
        BY <2>6, ServerType DEF TypeOK
      <3>2. Len(feed') \in Nat
        BY <3>1 DEF STypeOK
      <3> QED BY <2>6, <3>2, ServerKeeps, PageKept DEF client
    <2>7. CASE UNCHANGED vars
      <3>1. UNCHANGED <<eff, url, items, link, feed, subs, st>>
        BY <2>7 DEF vars, svars, bus, loop, client
      <3>2. Len(feed) \in Nat
        BY STypes
      <3> QED BY <3>1, <3>2, PageKept
    <2> QED BY <2>1, <2>2, <2>3, <2>4, <2>5, <2>6, <2>7 DEF Next, Browser
  <1>3. PageInv => ItemsOfUrl
    <2> SUFFICES ASSUME PageInv PROVE ItemsOfUrl
      OBVIOUS
    <2>1. \A g \in DOMAIN eff : (eff[g].cancelled /\ ~eff[g].late) => eff[g].es = None
      BY DEF PageInv, EffectInv
    <2>2. CASE url = None
      <3>1. items = <<>>
        BY <2>2 DEF PageInv, ItemsInv
      <3> QED BY <2>1, <3>1 DEF ItemsOfUrl
    <2>3. CASE url # None
      BY <2>1, <2>3 DEF PageInv, ItemsInv, ItemsOfUrl, Shown
    <2> QED BY <2>2, <2>3
  <1> QED BY <1>1, <1>2, <1>3, TypeCorrect, StreamsInvariant, PTL DEF Spec
=============================================================================
