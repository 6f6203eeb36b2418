-------------------------- MODULE MCGhostApproval --------------------------
(* Instances of GhostApproval for TLC: an admin, an approver, one person   *)
(* who is both; commands are interchangeable.                              *)
EXTENDS GhostApproval, TLC

CONSTANTS ann, bob, cat

SomeAdmins == {ann, cat}
SomeApprovers == {bob, cat}
Interchangeable == Permutations(Job)
===========================================================================
