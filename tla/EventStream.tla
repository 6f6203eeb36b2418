----------------------------- MODULE EventStream -----------------------------
(***************************************************************************)
(* The dashboard's live events (vitos-dashboard/backend/app/events.py):    *)
(* one task reads the bus, keeps a ring of the last events of each student *)
(* and fans them out to a queue per SSE stream; a stream replays the end   *)
(* of the ring and then drains its queue.                                  *)
(*                                                                         *)
(* All of it runs in one event loop, so what happens between two awaits is *)
(* one step; the critical sections of _lock contain no await, so nobody    *)
(* ever waits for it.  An event is its position in what the bus broadcast. *)
(***************************************************************************)
EXTENDS Naturals, Sequences

CONSTANTS Student,
          Noise,     \* a line that is no JSON or has no student_id
          Poison,    \* a line readline() or ev.get() raises on
          Stream,    \* names for the SSE requests that are under way
          MaxLines,  \* bound: lines the bus broadcasts
          MaxFails,  \* bound: times the bus goes, or drops the dashboard
          RingSize, QueueSize, \* RING_SIZE, and maxsize of a stream's queue
          Replay               \* events a stream starts with

ASSUME SizesAssumption == /\ MaxLines \in Nat /\ MaxFails \in Nat
                          /\ RingSize \in Nat \ {0} /\ QueueSize \in Nat \ {0}
                          /\ Replay \in Nat
ASSUME LinesAssumption == Noise # Poison /\ {Noise, Poison} \cap Student = {}

VARIABLES feed,  \* what the bus has broadcast
          up,    \* the bus accepts connections
          fails, \* times it went or dropped the dashboard
          task,  \* _bus_loop: "away", "reading" or "dead"
          sock,  \* lines that wait in its connection
          eof,   \* the bus has closed that connection
          ring,  \* _rings
          subs,  \* the streams whose queue is in _subscribers
          st,    \* each stream: its generator, queue and what it yielded
          link,  \* the streams whose browser is still there
          seen   \* history: the events put into rings, in that order

bus == <<feed, up, fails>>
loop == <<task, sock, eof, ring, seen>>
svars == <<bus, loop, subs, st, link>>

NoStream == [pc |-> "none", of |-> Noise, queue |-> <<>>, back |-> <<>>, out |-> <<>>,
              base |-> 0,      \* history: Len(seen) when the queue registered,
              snap |-> 0,      \* the length of the replay,
              dropped |-> {}]  \* and the events a full queue refused

SInit == /\ feed = <<>> /\ up = TRUE /\ fails = 0
         /\ task = "away" /\ sock = <<>> /\ eof = FALSE
         /\ ring = [s \in Student |-> <<>>] /\ seen = <<>>
         /\ subs = {} /\ link = {}
         /\ st = [c \in Stream |-> NoStream]

\* The last n elements of a sequence: a deque's maxlen, a slice [-n:].
LastOf(q, n) == SubSeq(q, IF Len(q) > n THEN Len(q) - n + 1 ELSE 1, Len(q))
Elems(q) == {q[i] : i \in 1..Len(q)}

-----------------------------------------------------------------------------
(* vitos-busd.                                                             *)

Cast(line) == 
    /\ up /\ Len(feed) < MaxLines
    /\ feed' = Append(feed, line)
    /\ sock' = IF task = "reading" /\ ~eof THEN Append(sock, Len(feed) + 1) 
               ELSE sock
    /\ UNCHANGED <<up, fails, task, eof, ring, seen, subs, st, link>>

\* It stops, or drops a dashboard that does not read.
Fail == /\ fails < MaxFails /\ up
        /\ fails' = fails + 1
        /\ up' \in BOOLEAN 
        /\ eof' = (eof \/ task = "reading")
        /\ UNCHANGED <<feed, task, sock, ring, seen, subs, st, link>>

Start == ~up /\ up' = TRUE /\ UNCHANGED <<feed, fails, loop, subs, st, link>>

-----------------------------------------------------------------------------
(* _bus_loop.                                                              *)

Dial == /\ task = "away" /\ up
        /\ task' = "reading" /\ sock' = <<>> /\ eof' = FALSE
        /\ UNCHANGED <<bus, ring, seen, subs, st, link>>

\* Mutation: asyncio.Queue() without its maxsize.
Offer_Unbounded(q, e) == [q EXCEPT !.queue = Append(@, e)]
\* put_nowait: a full queue refuses, and nobody is told.
Offer(q, e) == IF Len(q.queue) < QueueSize 
               THEN [q EXCEPT !.queue = Append(@, e)]
               ELSE [q EXCEPT !.dropped = @ \cup {e}]
\* Mutation: the first full queue ends the loop over the others.
Fanout_Stops(s, e) == 
    LET S == {c \in subs : st[c].of = s}
    IN  [c \in Stream |-> IF c \notin S THEN st[c]
                          ELSE IF \E d \in S : Len(st[d].queue) >= QueueSize 
                                                /\ c # d
                          THEN st[c] ELSE Offer(st[c], e)]
Fanout(s, e) == [c \in Stream |-> IF c \in subs /\ st[c].of = s 
                                  THEN Offer(st[c], e) ELSE st[c]]

ReadLine == 
    /\ task = "reading" /\ sock # <<>> 
    /\ sock' = Tail(sock)
    /\ LET e == Head(sock)
           s == feed[e]
       IN  \/ s = Noise /\ UNCHANGED <<task, ring, seen, st>>
           \/ s = Poison /\ task' = "dead" /\ UNCHANGED <<ring, seen, st>>
           \/ /\ s \in Student
              /\ ring' = [ring EXCEPT ![s] = LastOf(Append(@, e), RingSize)]
              /\ seen' = Append(seen, e)
              /\ st' = Fanout(s, e)
              /\ UNCHANGED task
    /\ UNCHANGED <<bus, eof, subs, link>>

\* Mutation: the outer loop is missing.
Eof_Ends == /\ task = "reading" /\ eof
            /\ task' = "dead" /\ sock' = <<>> /\ eof' = FALSE
            /\ UNCHANGED <<bus, ring, seen, subs, st, link>>
\* The end of file, or a reset that takes what was not read yet with it.
Eof == /\ task = "reading" /\ eof
       /\ task' = "away" /\ sock' = <<>> /\ eof' = FALSE
       /\ UNCHANGED <<bus, ring, seen, subs, st, link>>

-----------------------------------------------------------------------------
(* stream_events and its generator.                                        *)

\* The request's queue is registered before its response begins.
Register(c, s) == 
    /\ c \notin link \cup subs
    /\ subs' = subs \cup {c}
    /\ st' = [st EXCEPT ![c] = [@ EXCEPT !.pc = "open", !.of = s, 
                                         !.base = Len(seen)]]

\* get_recent(student, 50).  Mutation: its slice is taken from the other end.
Recent_Oldest(s) == SubSeq(ring[s], 1, IF Len(ring[s]) < Replay
                                       THEN Len(ring[s]) ELSE Replay)
Recent(s) == LastOf(ring[s], Replay)

\* The generator runs for the first time; what it replays is read when it is
\* resumed after its opening comment.
Begin(c) == 
    /\ st[c].pc = "open"
    /\ LET old == Recent(st[c].of)
       IN  st' = [st EXCEPT ![c] = [@ EXCEPT !.pc = "stream", !.back = old, 
                                             !.snap = Len(old)]]
    /\ UNCHANGED <<bus, loop, subs, link>>

\* One event: of the replay, then of the queue.
Pass(q) == LET out == Append(q.out, Head(q.back \o q.queue))
           IN  IF q.back # <<>> THEN [q EXCEPT !.out = out, !.back = Tail(@)]
                                ELSE [q EXCEPT !.out = out, !.queue = Tail(@)]
Pending(c) == st[c].back \o st[c].queue
Yield(c) == 
    /\ st[c].pc = "stream" /\ Pending(c) # <<>>
    /\ st' = [st EXCEPT ![c] = Pass(@)]
    /\ UNCHANGED <<bus, loop, subs, link>>

\* The browser went away before the response began: the generator never runs
\* and neither does its finally.
Abandon(c) == /\ st[c].pc = "open" /\ c \notin link
              /\ st' = [st EXCEPT ![c] = [@ EXCEPT !.pc = "left"]]
              /\ UNCHANGED <<bus, loop, subs, link>>

\* The generator is closed: its finally unregisters the queue.
Finally(c) == /\ st[c].pc = "stream" /\ c \notin link
              /\ subs' = subs \ {c}
              /\ st' = [st EXCEPT ![c] = NoStream]
              /\ UNCHANGED <<bus, loop, link>>

\* The process dies (the handlers, the rings and every stream with it) and
\* Restart=on-failure runs it again.
Crash == /\ fails < MaxFails /\ fails' = fails + 1
         /\ task' = "away" /\ sock' = <<>> /\ eof' = FALSE
         /\ ring' = [s \in Student |-> <<>>] /\ seen' = <<>>
         /\ subs' = {}
         /\ st' = [c \in Stream |-> NoStream]
         /\ UNCHANGED <<feed, up, link>>

Server == \/ Fail \/ Start \/ Crash \/ Dial \/ ReadLine \/ Eof
          \/ \E line \in Student \cup {Noise, Poison} : Cast(line)
          \/ \E c \in Stream : Begin(c) \/ Abandon(c) \/ Finally(c)

-----------------------------------------------------------------------------
(* Properties.                                                             *)

StreamState == 
    [pc : {"none", "open", "stream", "left"}, of : Student \cup {Noise},
     queue : Seq(1..Len(feed)), back : Seq(1..Len(feed)), 
     out : Seq(1..Len(feed)), base : 0..Len(seen), snap : Nat, 
     dropped : SUBSET (1..Len(feed))]
STypeOK == 
    /\ feed \in Seq(Student \cup {Noise, Poison}) /\ up \in BOOLEAN
    /\ Len(feed) <= MaxLines /\ fails \in 0..MaxFails
    /\ task \in {"away", "reading", "dead"} /\ eof \in BOOLEAN
    /\ sock \in Seq(1..Len(feed)) /\ seen \in Seq(1..Len(feed))
    /\ ring \in [Student -> Seq(1..Len(feed))]
    /\ subs \subseteq Stream /\ link \subseteq Stream
    /\ st \in [Stream -> StreamState]
    /\ \A c \in Stream : /\ Len(st[c].queue) <= QueueSize
                         /\ st[c].pc # "none" => st[c].of \in Student

\* What stream c has sent, is about to replay and holds in its queue.
Whole(c) == st[c].out \o Pending(c)
OwnEvent(c, e) == feed[e] = st[c].of

\* A stream misses nothing between its registration and its end except what
\* found its own queue full, and gets it once and in the order of the bus,
\* behind the replay: no other stream, slow or closing, costs it an event.
New(c) == SubSeq(Whole(c), st[c].snap + 1, Len(Whole(c)))
Gapless == 
    \A c \in subs : 
      /\ \A i, j \in 1..Len(New(c)) : i < j => New(c)[i] < New(c)[j]
      /\ Elems(New(c)) = {e \in Elems(SubSeq(seen, st[c].base + 1, Len(seen))) : 
                            OwnEvent(c, e)} \ st[c].dropped

\* The replay joins the live events without a hole: from the first event a
\* stream sends, everything of its student follows, unless dropped.  What
\* it sends twice arrived between its registration and its replay.
Seam == 
    \A c \in subs : (st[c].pc = "stream" /\ Whole(c) # <<>>) =>
      LET old == SubSeq(Whole(c), 1, st[c].snap)
      IN  /\ \A i \in 1..Len(seen) : 
               (OwnEvent(c, seen[i]) /\ seen[i] >= Whole(c)[1]) =>
                 seen[i] \in Elems(old) \cup Elems(New(c)) \cup st[c].dropped
          /\ \A e \in Elems(old) \cap Elems(New(c)) : 
               e \notin Elems(SubSeq(seen, 1, st[c].base))
=============================================================================
