---------------------------- MODULE GhostApproval ----------------------------
(***************************************************************************)
(* vitosctl ghost enable, approve and disable (cli/vitosctl/main.py): an   *)
(* admin files a request, a member of vitos-ghost-approvers turns it into  *)
(* a token, an admin revokes the token.  launch.sh admits a user as soon   *)
(* as the token's file exists.  Each command is a process of its own; they *)
(* share nothing but files, take no lock, and may be killed between any    *)
(* two system calls.                                                       *)
(*                                                                         *)
(* A grant is a (user, profile) pair; it names the file in pending/ and in *)
(* active/.  write_text is an open that empties the file and one write; a  *)
(* process that has the file open keeps writing to it after another one    *)
(* has unlinked it, and nobody reads that.  A command that is refused, or  *)
(* finds no file or one it cannot parse, ends without effect and is no     *)
(* step.                                                                   *)
(***************************************************************************)
EXTENDS Naturals

CONSTANTS Person,    \* who runs the commands
          Admins,    \* members of vitos-admins
          Approvers, \* members of vitos-ghost-approvers
          Grant,     \* (user, profile) pairs
          Job,       \* invocations of vitosctl, each used once
          Absent,    \* no file, or no request
          Empty,     \* an open has emptied the file
          Torn,      \* a file that is no JSON: overwritten in part
          Kills      \* commands may be killed

ASSUME GroupsAssumption == Admins \subseteq Person /\ Approvers \subseteq Person
ASSUME SwitchAssumption == Kills \in BOOLEAN

\* What a file holds; a request is known by the command that filed it.
Request == [job : Job, requester : Person]
Token == [job : Job, requester : Person, approver : Person]

\* A file nobody can read a request or a token from.
Unreadable == {Absent, Empty, Torn}

ASSUME FilesAssumption == 
    /\ Absent # Torn /\ Absent # Empty /\ Empty # Torn /\ Absent \notin Job
    /\ Unreadable \cap (Request \cup Token) = {}

VARIABLES pending, \* pending/<grant>.req
          active,  \* active/<grant>
          pc,      \* of each command
          who, on, \* its caller, as SUDO_USER or USER names them, its grant
          req,     \* the request an approve has read
          owed,    \* history: grants requested since they were last approved
          revoked, \* history: the requests of the tokens disable removed
          alone    \* history: no commands overlapped and none was killed

args == <<who, on, req>>
vars == <<pending, active, pc, args, owed, revoked, alone>>

Pc == {"idle", "write", "orphan", "open", "token", "lost", "unlink", "done",
       "dead"}

Init == /\ pending = [g \in Grant |-> Absent]
        /\ active = [g \in Grant |-> Absent]
        /\ pc = [j \in Job |-> "idle"]
        /\ who \in [Job -> Person] /\ on \in [Job -> Grant]
        /\ req = [j \in Job |-> Absent]
        /\ owed = {} /\ revoked = {} /\ alone = TRUE

Ended == {"idle", "done", "dead"}
\* Mutation: the file name for the caller's name in the payload.
Filed_Swapped(j) == [job |-> j, requester |-> on[j]]
Filed(j) == [job |-> j, requester |-> who[j]]
Signed(j) == [job |-> req[j].job, requester |-> req[j].requester, 
              approver |-> who[j]]

\* Writing from offset 0 over text other processes wrote since the file was
\* emptied leaves its tail there if it was the longer one; with the same
\* names it was as long.
SameNames(old, new) == 
    old \notin Unreadable /\ new = [old EXCEPT !.job = new.job]
Overwrite(old, new) == IF old = Empty \/ SameNames(old, new) 
                       THEN {new} ELSE {new, Torn}

-----------------------------------------------------------------------------
EnableOpen(j) == 
    /\ pc[j] = "idle" /\ who[j] \in Admins
    /\ pending' = [pending EXCEPT ![on[j]] = Empty]
    /\ pc' = [pc EXCEPT ![j] = "write"]
    /\ UNCHANGED <<active, args, owed, revoked>>

EnableWrite(j) == 
    /\ \/ /\ pc[j] = "write"
          /\ \E f \in Overwrite(pending[on[j]], Filed(j)) : 
               pending' = [pending EXCEPT ![on[j]] = f]
       \/ pc[j] = "orphan" /\ UNCHANGED pending
    /\ pc' = [pc EXCEPT ![j] = "done"]
    /\ owed' = owed \cup {on[j]}
    /\ UNCHANGED <<active, args, revoked>>

\* Mutation: an approver may approve a request of their own.
ApproveRead_OwnRequest(j) == 
    /\ pc[j] = "idle" /\ who[j] \in Approvers
    /\ pending[on[j]] \notin Unreadable
    /\ req' = [req EXCEPT ![j] = pending[on[j]]]
    /\ pc' = [pc EXCEPT ![j] = "open"]
    /\ UNCHANGED <<pending, active, who, on, owed, revoked>>

ApproveRead(j) == 
    /\ pc[j] = "idle" /\ who[j] \in Approvers
    /\ pending[on[j]] \notin Unreadable
    /\ pending[on[j]].requester # who[j]
    /\ req' = [req EXCEPT ![j] = pending[on[j]]]
    /\ pc' = [pc EXCEPT ![j] = "open"]
    /\ UNCHANGED <<pending, active, who, on, owed, revoked>>

ApproveOpen(j) == 
    /\ pc[j] = "open"
    /\ active' = [active EXCEPT ![on[j]] = Empty]
    /\ pc' = [pc EXCEPT ![j] = "token"]
    /\ UNCHANGED <<pending, args, owed, revoked>>

ApproveWrite(j) == 
    /\ \/ /\ pc[j] = "token"
          /\ \E f \in Overwrite(active[on[j]], Signed(j)) : 
               active' = [active EXCEPT ![on[j]] = f]
       \/ pc[j] = "lost" /\ UNCHANGED active
    /\ owed' = owed \ {on[j]}
    /\ pc' = [pc EXCEPT ![j] = "unlink"]
    /\ UNCHANGED <<pending, args, revoked>>

\* Mutation: the request stays in pending/.
ApproveUnlink_Keeps(j) == 
    /\ pc[j] = "unlink"
    /\ pc' = [pc EXCEPT ![j] = "done"]
    /\ UNCHANGED <<pending, active, args, owed, revoked>>

\* The request file goes, whatever it holds by now; that it is gone already
\* is an error after the fact.
ApproveUnlink(j) == 
    /\ pc[j] = "unlink"
    /\ pending' = [pending EXCEPT ![on[j]] = Absent]
    /\ pc' = [k \in Job |-> IF k = j THEN "done"
                            ELSE IF pc[k] = "write" /\ on[k] = on[j] 
                            THEN "orphan" ELSE pc[k]]
    /\ UNCHANGED <<active, args, owed, revoked>>

\* Mutation: the request file goes as well.
Disable_Request(j) == 
    /\ pc[j] = "idle" /\ who[j] \in Admins
    /\ active[on[j]] # Absent
    /\ active' = [active EXCEPT ![on[j]] = Absent]
    /\ pending' = [pending EXCEPT ![on[j]] = Absent]
    /\ pc' = [k \in Job |-> IF k = j THEN "done"
                            ELSE IF pc[k] = "write" /\ on[k] = on[j] 
                            THEN "orphan" 
                            ELSE IF pc[k] = "token" /\ on[k] = on[j] 
                            THEN "lost" ELSE pc[k]]
    /\ UNCHANGED <<args, owed, revoked>>

Disable(j) == 
    /\ pc[j] = "idle" /\ who[j] \in Admins
    /\ active[on[j]] # Absent
    /\ active' = [active EXCEPT ![on[j]] = Absent]
    /\ revoked' = revoked \cup (IF active[on[j]] \in Unreadable THEN {} 
                                ELSE {active[on[j]].job})
    /\ pc' = [k \in Job |-> IF k = j THEN "done"
                            ELSE IF pc[k] = "token" /\ on[k] = on[j] 
                            THEN "lost" ELSE pc[k]]
    /\ UNCHANGED <<pending, args, owed>>

Kill(j) == /\ Kills /\ pc[j] \notin Ended
           /\ pc' = [pc EXCEPT ![j] = "dead"]
           /\ UNCHANGED <<pending, active, args, owed, revoked>>

Command(j) == \/ EnableOpen(j) \/ EnableWrite(j)
              \/ ApproveRead(j) \/ ApproveOpen(j) \/ ApproveWrite(j)
              \/ ApproveUnlink(j) \/ Disable(j)
OnlyOne(j) == \A k \in Job \ {j} : pc[k] \in Ended
Next == \E j \in Job : \/ Command(j) /\ alone' = (alone /\ OnlyOne(j))
                       \/ Kill(j) /\ alone' = FALSE

Spec == Init /\ [][Next]_vars

-----------------------------------------------------------------------------
(* Properties.                                                             *)

\* The type invariant.
TypeOK == /\ pending \in [Grant -> Request \cup Unreadable]
          /\ active \in [Grant -> Token \cup Unreadable]
          /\ pc \in [Job -> Pc]
          /\ who \in [Job -> Person] /\ on \in [Job -> Grant]
          /\ req \in [Job -> Request \cup {Absent}]
          /\ \A j \in Job : pc[j] \in {"open", "token", "lost", "unlink"} =>
                              req[j] # Absent
          /\ owed \subseteq Grant /\ revoked \subseteq Job
          /\ alone \in BOOLEAN

\* sp6 design, 7.4: whatever admits a user to ghost mode, a token or the
\* empty file launch.sh takes for one, two people stand behind it: an admin
\* whose command filed a request for this very grant and an approver, another
\* person, whose command read that request; and a token names these two.
Backed(g, j) == /\ who[j] \in Approvers /\ on[j] = g
                /\ req[j] # Absent /\ req[j].requester # who[j]
                /\ Filed(req[j].job) = req[j] /\ on[req[j].job] = g
                /\ req[j].requester \in Admins
DualControl == 
    \A g \in Grant : active[g] # Absent => 
      \E j \in Job : Backed(g, j) /\ active[g] \in {Empty, Torn, Signed(j)}

\* disable revokes a token for good: it takes another request to be active
\* again.
FreshAfterRevoke == 
    \A g \in Grant : active[g] \notin Unreadable => 
      active[g].job \notin revoked

\* As long as no two commands overlap and none is killed it does: an approve
\* leaves nothing behind that a later approve could use.
FreshWhenAlone == alone => FreshAfterRevoke

\* Under the same condition enable's "pending" is true: a grant that was
\* requested after its last approval has a request on file that an approver
\* can read, whatever was approved or disabled in between.
RequestKept == 
    alone => \A g \in owed : 
      (\A j \in Job : on[j] = g => pc[j] # "write") =>
        pending[g] \notin Unreadable
===========================================================================
