----------------------------- MODULE MCDashboard -----------------------------
(***************************************************************************)
(* Instances of Dashboard for TLC: every session has the same interface,   *)
(* as those have whose ids share their first eight characters.             *)
(***************************************************************************)
EXTENDS Dashboard, TLC

CONSTANTS n1
SharedVeth == [l \in Lab |-> n1]
=============================================================================
