---------------------------- MODULE BroadcastLog ----------------------------
(***************************************************************************)
(* What the VITOS event bus promises its subscribers, with no sockets,     *)
(* locks or goroutines: one sequence of lines, and readers that join at    *)
(* its current end and receive, one at a time and in order, the lines      *)
(* appended after that, until they leave for good.  EventBus implements    *)
(* this specification.                                                     *)
(***************************************************************************)
EXTENDS Naturals, Sequences

CONSTANTS Line,     \* the lines publishers may write
          Reader    \* the subscriber connections

VARIABLES sent,     \* every line published so far, in the order of the bus
          phase,    \* a reader is "out", "in" or "left"
          start,    \* Len(sent) when the reader joined
          received  \* the lines handed to the reader, in order

bvars == <<sent, phase, start, received>>

BInit == /\ sent = <<>>
         /\ phase = [r \in Reader |-> "out"]
         /\ start = [r \in Reader |-> 0]
         /\ received = [r \in Reader |-> <<>>]

Publish(m) == /\ sent' = Append(sent, m)
              /\ UNCHANGED <<phase, start, received>>

Join(r) == /\ phase[r] = "out"
           /\ phase' = [phase EXCEPT ![r] = "in"]
           /\ start' = [start EXCEPT ![r] = Len(sent)]
           /\ UNCHANGED <<sent, received>>

\* The next line a reader gets is the one after the last it got.
Deliver(r) == 
    LET next == start[r] + Len(received[r]) + 1 
    IN  /\ phase[r] = "in"
        /\ next <= Len(sent)
        /\ received' = [received EXCEPT ![r] = Append(@, sent[next])]
        /\ UNCHANGED <<sent, phase, start>>

\* Readers leave one by one, or many at once when the bus goes down, joined
\* or not.
Leave(R) == /\ phase' = [r \in Reader |-> IF r \in R THEN "left" ELSE phase[r]]
            /\ UNCHANGED <<sent, start, received>>

BNext == \/ \E m \in Line : Publish(m)
         \/ \E r \in Reader : Join(r) \/ Deliver(r)
         \/ \E R \in SUBSET Reader : Leave(R)

BSpec == BInit /\ [][BNext]_bvars
=============================================================================
