---------------------------- MODULE MCEventBus ----------------------------
(* Instances of EventBus for TLC: which lines are over-long, and the       *)
(* interchangeable connections.                                            *)
EXTENDS EventBus, TLC

CONSTANTS p1, p2, s1, s2

NoLongLine == {}
SecondOfP2 == {<<p2, 2>>}

\* No definition tells one connection from another, except TooLong.
Interchangeable == Permutations(Pubs) \cup Permutations(Subs)
===========================================================================
