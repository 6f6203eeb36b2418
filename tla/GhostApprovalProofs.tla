------------------------ MODULE GhostApprovalProofs ------------------------
(***************************************************************************)
(* Proofs about GhostApproval for any people, groups, grants and commands, *)
(* overlapping and killed in any way.                                      *)
(***************************************************************************)
EXTENDS GhostApproval, TLAPS

\* What makes DualControl inductive: a command that has not run has read
\* nothing (Unread); a request that parses was filed for this grant by the
\* admin it names (Genuine); whatever an approve has read is backed by it and
\* the filer (ReadBacked).  None of it depends on which file a command's
\* steps meet in between.
Unread == \A j \in Job : pc[j] = "idle" => req[j] = Absent
Genuine == \A g \in Grant : pending[g] \notin Unreadable => 
             /\ Filed(pending[g].job) = pending[g] /\ on[pending[g].job] = g
             /\ pending[g].requester \in Admins
Writing == \A j \in Job : pc[j] \in {"write", "orphan"} => who[j] \in Admins
ReadBacked == \A j \in Job : req[j] # Absent => Backed(on[j], j)
DualInv == TypeOK /\ Unread /\ Genuine /\ Writing /\ ReadBacked /\ DualControl

LEMMA InitDual == Init => DualInv
  BY FilesAssumption DEF Init, DualInv, TypeOK, Pc, Unread, Genuine, Writing, 
                         ReadBacked, DualControl, Unreadable

\* A file that parses keeps parsing as one of two writers' texts.
LEMMA OverwriteIn == 
  ASSUME NEW old, NEW new, NEW f \in Overwrite(old, new)
  PROVE  f = new \/ f = Torn
  BY DEF Overwrite

\* Neither a caller nor a grant of a command changes, and what an approve has
\* read stays with it: whoever is backed stays backed.
LEMMA BackedStays == 
  ASSUME NEW g \in Grant, NEW j \in Job, Backed(g, j), 
         who' = who, on' = on, req'[j] = req[j]
  PROVE  Backed(g, j)' /\ Signed(j)' = Signed(j)
  BY DEF Backed, Signed, Filed

\* A step that touches neither tokens nor what was read keeps both facts.
LEMMA TokensStay == 
  ASSUME ReadBacked, DualControl, UNCHANGED <<active, args>>
  PROVE  ReadBacked' /\ DualControl'
  BY DEF args, ReadBacked, DualControl, Backed, Filed, Signed

LEMMA NextDual == DualInv /\ [Next]_vars => DualInv'
<1> SUFFICES ASSUME DualInv, [Next]_vars PROVE DualInv'
  OBVIOUS
<1> USE FilesAssumption
<1> USE DEF DualInv
<1>1. CASE UNCHANGED vars
  BY <1>1 DEF vars, args, TypeOK, Unread, Genuine, Writing, ReadBacked, 
              DualControl, Backed, Filed, Signed
<1>2. ASSUME NEW j \in Job, EnableOpen(j), alone' \in BOOLEAN PROVE DualInv'
  <2>1. TypeOK'
    BY <1>2 DEF EnableOpen, TypeOK, Pc, args, Unreadable
  <2>2. Unread' /\ Writing'
    BY <1>2 DEF EnableOpen, TypeOK, Unread, Writing, args
  <2>3. Genuine'
    BY <1>2 DEF EnableOpen, TypeOK, Genuine, args, Filed, Unreadable
  <2>4. ReadBacked' /\ DualControl'
    BY <1>2, TokensStay DEF EnableOpen
  <2> QED BY <2>1, <2>2, <2>3, <2>4
<1>3. ASSUME NEW j \in Job, EnableWrite(j), alone' \in BOOLEAN PROVE DualInv'
  <2>0. /\ on[j] \in Grant /\ who[j] \in Person /\ who[j] \in Admins
        /\ Filed(j) \in Request
    BY <1>3 DEF EnableWrite, TypeOK, Writing, Filed, Request
  <2>1. \A g \in Grant : pending'[g] \in {pending[g], Empty, Torn} \/ 
                          (g = on[j] /\ pending'[g] = Filed(j))
    BY <1>3, OverwriteIn DEF EnableWrite, TypeOK
  <2>2. TypeOK'
    <3>1. pending' \in [Grant -> Request \cup Unreadable]
      BY <1>3, <2>0, OverwriteIn DEF EnableWrite, TypeOK, Unreadable
    <3> QED BY <1>3, <2>0, <3>1 DEF EnableWrite, TypeOK, Pc, args
  <2>3. Unread' /\ Writing'
    BY <1>3 DEF EnableWrite, TypeOK, Unread, Writing, args
  <2>4. Genuine'
    BY <1>3, <2>0, <2>1 DEF EnableWrite, Genuine, Filed, args, Unreadable
  <2>5. ReadBacked' /\ DualControl'
    BY <1>3, TokensStay DEF EnableWrite
  <2> QED BY <2>2, <2>3, <2>4, <2>5
<1>4. ASSUME NEW j \in Job, ApproveRead(j), alone' \in BOOLEAN PROVE DualInv'
  <2>0. /\ on[j] \in Grant /\ pending[on[j]] \in Request 
        /\ req[j] = Absent /\ req'[j] = pending[on[j]]
        /\ req'[j] # Absent
    BY <1>4 DEF ApproveRead, TypeOK, Unread, Unreadable
  <2>1. TypeOK'
    BY <1>4, <2>0 DEF ApproveRead, TypeOK, Pc
  <2>2. Unread' /\ Writing' /\ Genuine'
    BY <1>4 DEF ApproveRead, TypeOK, Unread, Writing, Genuine, Filed
  <2>3. Backed(on[j], j)'
    BY <1>4, <2>0 DEF ApproveRead, Genuine, Backed, Filed, TypeOK
  <2>4. ReadBacked'
    <3> SUFFICES ASSUME NEW k \in Job, req'[k] # Absent 
                 PROVE  Backed(on[k], k)'
      BY <1>4 DEF ReadBacked, ApproveRead
    <3>1. CASE k = j
      BY <2>3, <3>1
    <3>2. CASE k # j
      <4>1. req'[k] = req[k] /\ on[k] \in Grant
        BY <1>4, <3>2 DEF ApproveRead, TypeOK
      <4> QED BY <1>4, <4>1, BackedStays DEF ApproveRead, ReadBacked
    <3> QED BY <3>1, <3>2
  <2>5. DualControl'
    <3> SUFFICES ASSUME NEW g \in Grant, active'[g] # Absent
                 PROVE  \E k \in Job : Backed(g, k)' 
                                      /\ active'[g] \in {Empty, Torn, Signed(k)'}
      BY DEF DualControl
    <3>1. PICK k \in Job : Backed(g, k) /\ active[g] \in {Empty, Torn, Signed(k)}
      BY <1>4 DEF ApproveRead, DualControl
    <3>2. req'[k] = req[k]
      BY <1>4, <2>0, <3>1 DEF ApproveRead, Backed, TypeOK
    <3> QED BY <1>4, <3>1, <3>2, BackedStays DEF ApproveRead
  <2> QED BY <2>1, <2>2, <2>4, <2>5
<1>5. ASSUME NEW j \in Job, ApproveOpen(j), alone' \in BOOLEAN PROVE DualInv'
  <2>0. on[j] \in Grant /\ req[j] # Absent /\ Backed(on[j], j)
    BY <1>5 DEF ApproveOpen, TypeOK, ReadBacked
  <2>1. TypeOK'
    BY <1>5 DEF ApproveOpen, TypeOK, Pc, args, Unreadable
  <2>2. Unread' /\ Writing' /\ Genuine' /\ ReadBacked'
    BY <1>5 DEF ApproveOpen, TypeOK, Unread, Writing, Genuine, ReadBacked, 
                Backed, Filed, args
  <2>3. DualControl'
    <3> SUFFICES ASSUME NEW g \in Grant, active'[g] # Absent
                 PROVE  \E k \in Job : Backed(g, k)' 
                                      /\ active'[g] \in {Empty, Torn, Signed(k)'}
      BY DEF DualControl
    <3>1. CASE g = on[j]
      BY <1>5, <2>0, <3>1, BackedStays DEF ApproveOpen, TypeOK, args
    <3>2. CASE g # on[j]
      <4>1. active[g] = active'[g]
        BY <1>5, <3>2 DEF ApproveOpen, TypeOK
      <4>2. PICK k \in Job : Backed(g, k) /\ active[g] \in {Empty, Torn, Signed(k)}
        BY <4>1 DEF DualControl
      <4> QED BY <1>5, <4>1, <4>2, BackedStays DEF ApproveOpen, args
    <3> QED BY <3>1, <3>2
  <2> QED BY <2>1, <2>2, <2>3
<1>6. ASSUME NEW j \in Job, ApproveWrite(j), alone' \in BOOLEAN PROVE DualInv'
  <2>0. /\ on[j] \in Grant /\ req[j] # Absent /\ req[j] \in Request
        /\ Backed(on[j], j) /\ Signed(j) \in Token
    BY <1>6 DEF ApproveWrite, TypeOK, ReadBacked, Signed, Request, Token
  <2>1. \A g \in Grant : active'[g] = active[g] \/ 
                          (g = on[j] /\ active'[g] \in {Empty, Torn, Signed(j)})
    BY <1>6, OverwriteIn DEF ApproveWrite, TypeOK
  <2>2. TypeOK'
    <3>1. active' \in [Grant -> Token \cup Unreadable]
      BY <1>6, <2>0, OverwriteIn DEF ApproveWrite, TypeOK, Unreadable
    <3> QED BY <1>6, <2>0, <3>1 DEF ApproveWrite, TypeOK, Pc, args
  <2>3. Unread' /\ Writing' /\ Genuine' /\ ReadBacked'
    BY <1>6 DEF ApproveWrite, TypeOK, Unread, Writing, Genuine, ReadBacked, 
                Backed, Filed, args
  <2>4. DualControl'
    <3> SUFFICES ASSUME NEW g \in Grant, active'[g] # Absent
                 PROVE  \E k \in Job : Backed(g, k)' 
                                      /\ active'[g] \in {Empty, Torn, Signed(k)'}
      BY DEF DualControl
    <3>1. CASE active'[g] = active[g]
      <4>1. PICK k \in Job : Backed(g, k) /\ active[g] \in {Empty, Torn, Signed(k)}
        BY <3>1 DEF DualControl
      <4> QED BY <1>6, <3>1, <4>1, BackedStays DEF ApproveWrite, args
    <3>2. CASE g = on[j] /\ active'[g] \in {Empty, Torn, Signed(j)}
      BY <1>6, <2>0, <3>2, BackedStays DEF ApproveWrite, args
    <3> QED BY <2>1, <3>1, <3>2
  <2> QED BY <2>2, <2>3, <2>4
<1>7. ASSUME NEW j \in Job, ApproveUnlink(j), alone' \in BOOLEAN PROVE DualInv'
  <2>1. TypeOK'
    BY <1>7 DEF ApproveUnlink, TypeOK, Pc, args, Unreadable
  <2>2. Unread' /\ Writing' /\ Genuine'
    BY <1>7 DEF ApproveUnlink, TypeOK, Unread, Writing, Genuine, Filed, args,
           Unreadable
  <2>3. ReadBacked' /\ DualControl'
    BY <1>7, TokensStay DEF ApproveUnlink
  <2> QED BY <2>1, <2>2, <2>3
<1>8. ASSUME NEW j \in Job, Disable(j), alone' \in BOOLEAN PROVE DualInv'
  <2>0. on[j] \in Grant 
        /\ (active[on[j]] \notin Unreadable => active[on[j]].job \in Job)
    BY <1>8 DEF Disable, TypeOK, Token
  <2>1. TypeOK'
    <3>1. /\ active' \in [Grant -> Token \cup Unreadable]
          /\ revoked' \subseteq Job
      BY <1>8, <2>0 DEF Disable, TypeOK, Unreadable
    <3>2. pc' \in [Job -> Pc] 
      BY <1>8 DEF Disable, TypeOK, Pc
    <3>3. \A k \in Job : pc'[k] \in {"open", "token", "lost", "unlink"} =>
                            req[k] # Absent
      BY <1>8 DEF Disable, TypeOK
    <3> QED BY <1>8, <3>1, <3>2, <3>3 DEF Disable, TypeOK, args
  <2>2. Unread' /\ Writing' /\ Genuine' /\ ReadBacked'
    BY <1>8 DEF Disable, TypeOK, Unread, Writing, Genuine, ReadBacked, 
                Backed, Filed, args
  <2>3. DualControl'
    <3> SUFFICES ASSUME NEW g \in Grant, active'[g] # Absent
                 PROVE  \E k \in Job : Backed(g, k)' 
                                      /\ active'[g] \in {Empty, Torn, Signed(k)'}
      BY DEF DualControl
    <3>1. active'[g] = active[g]
      BY <1>8 DEF Disable, TypeOK
    <3>2. PICK k \in Job : Backed(g, k) /\ active[g] \in {Empty, Torn, Signed(k)}
      BY <3>1 DEF DualControl
    <3> QED BY <1>8, <3>1, <3>2, BackedStays DEF Disable, args
  <2> QED BY <2>1, <2>2, <2>3
<1>9. ASSUME NEW j \in Job, Kill(j), alone' \in BOOLEAN PROVE DualInv'
  <2>1. TypeOK'
    BY <1>9 DEF Kill, TypeOK, Pc, args
  <2>2. Unread' /\ Writing' /\ Genuine'
    BY <1>9 DEF Kill, TypeOK, Unread, Writing, Genuine, Filed, args
  <2>3. ReadBacked' /\ DualControl'
    BY <1>9, TokensStay DEF Kill
  <2> QED BY <2>1, <2>2, <2>3
<1>10. ASSUME NEW j \in Job, Command(j), alone' \in BOOLEAN PROVE DualInv'
  BY <1>10, <1>2, <1>3, <1>4, <1>5, <1>6, <1>7, <1>8 DEF Command
<1> QED
  BY <1>1, <1>9, <1>10 DEF Next

LEMMA DualInvariant == Spec => []DualInv
  BY InitDual, NextDual, PTL DEF Spec

\* Every file of the ghost state directory is absent, torn or one that some
\* command wrote, and no command past its read holds an absent request.
THEOREM TypeCorrect == Spec => []TypeOK
<1>1. DualInv => TypeOK
  BY DEF DualInv
<1> QED BY <1>1, DualInvariant, PTL

\* Whatever admits a user to ghost mode has an admin's request for that grant
\* and another person's approval of that request behind it, for any number
\* of commands that overlap or die anywhere.
THEOREM DualControlCorrect == Spec => []DualControl
<1>1. DualInv => DualControl
  BY DEF DualInv
<1> QED BY <1>1, DualInvariant, PTL

-----------------------------------------------------------------------------
(* Commands that take turns.                                               *)

\* What makes FreshWhenAlone and RequestKept inductive while commands take
\* turns: the one that runs finds the files as it left them (InPlace); a
\* request on file, a token and a revoked request come from commands that have
\* ended (Filers); a request on file is not revoked, and is that of the
\* grant's token only until the approve that made it removes it (Unspent); a
\* token's request is of its grant (Placed).
Readable(f) == f \notin Unreadable
Solo == \A j, k \in Job : pc[j] \notin Ended /\ pc[k] \notin Ended => j = k
InPlace == 
    \A j \in Job : 
      /\ pc[j] \notin {"orphan", "lost"}
      /\ pc[j] = "write" => pending[on[j]] = Empty
      /\ pc[j] \in {"open", "token", "unlink"} => pending[on[j]] = req[j]
      /\ pc[j] = "token" => active[on[j]] = Empty
      /\ pc[j] = "unlink" => on[j] \notin owed
Early == {"idle", "write"}
Filers == 
    /\ \A g \in Grant : /\ Readable(pending[g]) => pc[pending[g].job] \notin Early
                        /\ Readable(active[g]) => pc[active[g].job] \notin Early
    /\ \A n \in revoked : pc[n] \notin Early
Unlinking(g) == \E j \in Job : pc[j] = "unlink" /\ on[j] = g
Unspent == 
    \A g \in Grant : Readable(pending[g]) => 
      /\ pending[g].job \notin revoked
      /\ Readable(active[g]) /\ active[g].job = pending[g].job => Unlinking(g)
Placed == \A g \in Grant : Readable(active[g]) => on[active[g].job] = g
Kept == \A g \in owed : \/ Readable(pending[g])
                        \/ \E j \in Job : pc[j] = "write" /\ on[j] = g
InTurn == Solo /\ InPlace /\ Filers /\ Unspent /\ Placed /\ Kept 
            /\ FreshAfterRevoke

\* Files hold records of commands.
LEMMA FileJobs == 
  ASSUME TypeOK
  PROVE  \A g \in Grant : 
           /\ Readable(pending[g]) => pending[g] \in Request /\ pending[g].job \in Job
           /\ Readable(active[g]) => active[g] \in Token /\ active[g].job \in Job
  BY DEF TypeOK, Readable, Request, Token

LEMMA EnableOpenTurn == 
  ASSUME DualInv, InTurn, NEW j \in Job, OnlyOne(j), EnableOpen(j)
  PROVE  InTurn'
<1>0. /\ pc[j] = "idle" /\ pc'[j] = "write" /\ on[j] \in Grant
      /\ \A k \in Job \ {j} : pc'[k] = pc[k] /\ pc[k] \in Ended
      /\ pending'[on[j]] = Empty
      /\ \A g \in Grant \ {on[j]} : pending'[g] = pending[g]
      /\ UNCHANGED <<active, on, who, req, owed, revoked>>
  BY DEF EnableOpen, OnlyOne, DualInv, TypeOK, args
<1>1. Solo' /\ InPlace'
  BY <1>0 DEF InTurn, Solo, InPlace, Ended
<1>2. Filers'
  BY <1>0, FileJobs DEF InTurn, Filers, DualInv, TypeOK, Readable, Early,
           Unreadable
<1>3. Unspent'
  BY <1>0 DEF InTurn, Unspent, Readable, Unlinking, Unreadable
<1>4. Placed' /\ FreshAfterRevoke'
  BY <1>0 DEF InTurn, Placed, FreshAfterRevoke, Readable
<1>5. Kept'
  BY <1>0 DEF InTurn, Kept, DualInv, TypeOK
<1> QED BY <1>1, <1>2, <1>3, <1>4, <1>5 DEF InTurn

LEMMA EnableWriteTurn == 
  ASSUME DualInv, InTurn, NEW j \in Job, OnlyOne(j), EnableWrite(j)
  PROVE  InTurn'
<1>0. /\ pc[j] = "write" /\ pc'[j] = "done" /\ on[j] \in Grant
      /\ \A k \in Job \ {j} : pc'[k] = pc[k] /\ pc[k] \in Ended
      /\ pending'[on[j]] = Filed(j) /\ Filed(j).job = j
      /\ Readable(pending'[on[j]])
      /\ \A g \in Grant \ {on[j]} : pending'[g] = pending[g]
      /\ UNCHANGED <<active, on, who, req, revoked>> /\ owed' = owed \cup {on[j]}
  <2>1. pc[j] = "write" /\ pending[on[j]] = Empty /\ on[j] \in Grant
    BY DEF EnableWrite, InTurn, InPlace, DualInv, TypeOK
  <2>2. pending' = [pending EXCEPT ![on[j]] = Filed(j)]
    BY <2>1 DEF EnableWrite, Overwrite
  <2>3. Filed(j) \in Request /\ Filed(j).job = j
    BY DEF Filed, Request, DualInv, TypeOK
  <2>4. Readable(Filed(j))
    BY <2>3, FilesAssumption DEF Readable
  <2> QED BY <2>1, <2>2, <2>3, <2>4 
          DEF EnableWrite, OnlyOne, DualInv, TypeOK, args
<1>1. Solo' /\ InPlace'
  BY <1>0 DEF InTurn, Solo, InPlace, Ended
<1>2. Filers'
  BY <1>0, FileJobs DEF InTurn, Filers, DualInv, TypeOK, Early
<1>3. Unspent'
  BY <1>0 DEF InTurn, Unspent, Filers, Unlinking, Early
<1>4. Placed' /\ FreshAfterRevoke'
  BY <1>0 DEF InTurn, Placed, FreshAfterRevoke, Readable
<1>5. Kept'
  BY <1>0 DEF InTurn, Kept, DualInv, TypeOK
<1> QED BY <1>1, <1>2, <1>3, <1>4, <1>5 DEF InTurn

LEMMA ApproveReadTurn == 
  ASSUME DualInv, InTurn, NEW j \in Job, OnlyOne(j), ApproveRead(j)
  PROVE  InTurn'
<1>0. /\ pc[j] = "idle" /\ pc'[j] = "open" /\ req'[j] = pending[on[j]]
      /\ \A k \in Job \ {j} : pc'[k] = pc[k] /\ pc[k] \in Ended
      /\ UNCHANGED <<pending, active, on, who, owed, revoked>> 
  BY DEF ApproveRead, OnlyOne, DualInv, TypeOK
<1>1. Solo' /\ InPlace'
  BY <1>0 DEF InTurn, Solo, InPlace, Ended
<1>2. Filers'
  BY <1>0, FileJobs DEF InTurn, Filers, DualInv, TypeOK, Early
<1>3. Unspent'
  BY <1>0 DEF InTurn, Unspent, Unlinking, Ended
<1>4. Placed' /\ FreshAfterRevoke' /\ Kept'
  BY <1>0 DEF InTurn, Placed, FreshAfterRevoke, Kept, Ended
<1> QED BY <1>1, <1>2, <1>3, <1>4 DEF InTurn

LEMMA ApproveOpenTurn == 
  ASSUME DualInv, InTurn, NEW j \in Job, OnlyOne(j), ApproveOpen(j)
  PROVE  InTurn'
<1>0. /\ pc[j] = "open" /\ pc'[j] = "token" /\ on[j] \in Grant
      /\ \A k \in Job \ {j} : pc'[k] = pc[k] /\ pc[k] \in Ended
      /\ active'[on[j]] = Empty
      /\ \A g \in Grant \ {on[j]} : active'[g] = active[g]
      /\ UNCHANGED <<pending, on, who, req, owed, revoked>>
  BY DEF ApproveOpen, OnlyOne, DualInv, TypeOK, args
<1>1. Solo' /\ InPlace'
  BY <1>0 DEF InTurn, Solo, InPlace, Ended
<1>2. Filers'
  BY <1>0, FileJobs DEF InTurn, Filers, DualInv, TypeOK, Readable, Early,
           Unreadable
<1>3. Unspent'
  BY <1>0 DEF InTurn, Unspent, Readable, Unlinking, Ended, Unreadable
<1>4. Placed' /\ FreshAfterRevoke' /\ Kept'
  BY <1>0 DEF InTurn, Placed, FreshAfterRevoke, Kept, Readable, Ended,
           Unreadable
<1> QED BY <1>1, <1>2, <1>3, <1>4 DEF InTurn

LEMMA ApproveWriteTurn == 
  ASSUME DualInv, InTurn, NEW j \in Job, OnlyOne(j), ApproveWrite(j)
  PROVE  InTurn'
<1>0. /\ pc[j] = "token" /\ pc'[j] = "unlink" /\ on[j] \in Grant
      /\ \A k \in Job \ {j} : pc'[k] = pc[k] /\ pc[k] \in Ended
      /\ active'[on[j]] = Signed(j) /\ pending[on[j]] = req[j]
      /\ \A g \in Grant \ {on[j]} : active'[g] = active[g]
      /\ UNCHANGED <<pending, on, who, req, revoked>> /\ owed' = owed \ {on[j]}
  <2>1. /\ pc[j] = "token" /\ active[on[j]] = Empty /\ on[j] \in Grant
        /\ pending[on[j]] = req[j]
    BY DEF ApproveWrite, InTurn, InPlace, DualInv, TypeOK
  <2>2. active' = [active EXCEPT ![on[j]] = Signed(j)]
    BY <2>1 DEF ApproveWrite, Overwrite
  <2> QED BY <2>1, <2>2 DEF ApproveWrite, OnlyOne, DualInv, TypeOK, args
<1>6. /\ Readable(pending[on[j]]) /\ Signed(j).job = req[j].job 
      /\ on[req[j].job] = on[j] /\ req[j].job \in Job
  <2>1. req[j] \in Request /\ Backed(on[j], j)
    BY <1>0 DEF DualInv, TypeOK, ReadBacked
  <2> QED BY <1>0, <2>1, FilesAssumption DEF Readable, Signed, Backed, Request
<1>1. Solo' /\ InPlace'
  BY <1>0 DEF InTurn, Solo, InPlace, Ended
<1>2. Filers'
  BY <1>0, <1>6, FileJobs DEF InTurn, Filers, DualInv, TypeOK, Early
<1>3. Unspent'
  BY <1>0 DEF InTurn, Unspent, Unlinking, Ended
<1>4. Placed' /\ FreshAfterRevoke' 
  BY <1>0, <1>6 DEF InTurn, Placed, FreshAfterRevoke, Unspent, Readable
<1>5. Kept'
  BY <1>0 DEF InTurn, Kept, Ended
<1> QED BY <1>1, <1>2, <1>3, <1>4, <1>5 DEF InTurn

LEMMA ApproveUnlinkTurn == 
  ASSUME DualInv, InTurn, NEW j \in Job, OnlyOne(j), ApproveUnlink(j)
  PROVE  InTurn'
<1>0. /\ pc[j] = "unlink" /\ pc'[j] = "done" /\ on[j] \in Grant
      /\ \A k \in Job \ {j} : pc'[k] = pc[k] /\ pc[k] \in Ended
      /\ pending'[on[j]] = Absent /\ on[j] \notin owed
      /\ \A g \in Grant \ {on[j]} : pending'[g] = pending[g]
      /\ UNCHANGED <<active, on, who, req, owed, revoked>>
  BY DEF ApproveUnlink, OnlyOne, DualInv, TypeOK, args, InTurn, InPlace, Ended
<1>1. Solo' /\ InPlace'
  BY <1>0 DEF InTurn, Solo, InPlace, Ended
<1>2. Filers'
  BY <1>0, FileJobs DEF InTurn, Filers, DualInv, TypeOK, Readable, Early,
           Unreadable
<1>3. Unspent'
  BY <1>0 DEF InTurn, Unspent, Readable, Unlinking, Ended, Unreadable
<1>4. Placed' /\ FreshAfterRevoke' 
  BY <1>0 DEF InTurn, Placed, FreshAfterRevoke
<1>5. Kept'
  BY <1>0 DEF InTurn, Kept, Ended, DualInv, TypeOK
<1> QED BY <1>1, <1>2, <1>3, <1>4, <1>5 DEF InTurn

LEMMA DisableTurn == 
  ASSUME DualInv, InTurn, NEW j \in Job, OnlyOne(j), Disable(j)
  PROVE  InTurn'
<1>0. /\ pc[j] = "idle" /\ pc'[j] = "done" /\ on[j] \in Grant
      /\ \A k \in Job \ {j} : pc'[k] = pc[k] /\ pc[k] \in Ended
      /\ active[on[j]] # Absent /\ active'[on[j]] = Absent
      /\ \A g \in Grant \ {on[j]} : active'[g] = active[g]
      /\ revoked' = revoked \cup (IF active[on[j]] \in Unreadable THEN {} 
                                  ELSE {active[on[j]].job})
      /\ UNCHANGED <<pending, on, who, req, owed>>
  BY DEF Disable, OnlyOne, DualInv, TypeOK, args, Ended
<1>6. \A n \in revoked' : n \in revoked \/ (Readable(active[on[j]]) 
                                              /\ n = active[on[j]].job)
  BY <1>0 DEF Readable
<1>7. \A k \in Job : pc[k] # "unlink"
  BY <1>0 DEF Ended
<1>1. Solo' /\ InPlace'
  BY <1>0 DEF InTurn, Solo, InPlace, Ended
<1>2. Filers'
  BY <1>0, <1>6, FileJobs DEF InTurn, Filers, DualInv, TypeOK, Readable, Early,
           Unreadable
<1>3. Unspent'
  <2> SUFFICES ASSUME NEW g \in Grant, Readable(pending[g])
               PROVE  /\ pending[g].job \notin revoked'
                      /\ ~(Readable(active'[g]) /\ active'[g].job = pending[g].job)
    BY <1>0 DEF Unspent
  <2>1. pending[g].job \notin revoked /\ on[pending[g].job] = g
    BY DEF InTurn, Unspent, DualInv, Genuine, Readable
  <2>2. ~(Readable(active[g]) /\ active[g].job = pending[g].job)
    BY <1>7 DEF InTurn, Unspent, Unlinking
  <2>3. pending[g].job \notin revoked'
    BY <1>0, <1>6, <2>1, <2>2 DEF InTurn, Placed
  <2> QED BY <1>0, <2>2, <2>3 DEF Readable, Unreadable
<1>4. Placed' 
  BY <1>0 DEF InTurn, Placed, Readable, Unreadable
<1>8. FreshAfterRevoke' 
  <2> SUFFICES ASSUME NEW g \in Grant, Readable(active'[g])
               PROVE  active'[g].job \notin revoked'
    BY DEF FreshAfterRevoke, Readable
  <2>1. g # on[j] /\ active'[g] = active[g]
    BY <1>0 DEF Readable, Unreadable
  <2>2. on[active[g].job] = g /\ active[g].job \notin revoked
    BY <2>1 DEF InTurn, Placed, FreshAfterRevoke, Readable
  <2> QED BY <1>0, <1>6, <2>1, <2>2 DEF InTurn, Placed
<1>5. Kept'
  BY <1>0 DEF InTurn, Kept, Ended
<1> QED BY <1>1, <1>2, <1>3, <1>4, <1>5, <1>8 DEF InTurn

LEMMA NextTurn == DualInv /\ (alone => InTurn) /\ [Next]_vars => (alone' => InTurn')
<1> SUFFICES ASSUME DualInv, alone => InTurn, [Next]_vars, alone' PROVE InTurn'
  OBVIOUS
<1>1. CASE UNCHANGED vars
  BY <1>1 DEF vars, args, InTurn, Solo, InPlace, Filers, Unspent, Unlinking, 
              Placed, Kept, FreshAfterRevoke
<1>2. ASSUME NEW j \in Job, Command(j), alone' = (alone /\ OnlyOne(j))
      PROVE  InTurn'
  <2>1. InTurn /\ OnlyOne(j)
    BY <1>2
  <2> QED BY <1>2, <2>1, EnableOpenTurn, EnableWriteTurn, ApproveReadTurn, 
             ApproveOpenTurn, ApproveWriteTurn, ApproveUnlinkTurn, DisableTurn 
          DEF Command
<1>3. ASSUME NEW j \in Job, Kill(j), alone' = FALSE PROVE InTurn'
  BY <1>3
<1> QED BY <1>1, <1>2, <1>3 DEF Next

LEMMA TurnInvariant == Spec => [](alone => InTurn)
<1>1. Init => InTurn
  BY DEF Init, InTurn, Solo, InPlace, Filers, Unspent, Placed, Kept, Readable, 
         FreshAfterRevoke, Ended, Unreadable
<1> QED BY <1>1, NextTurn, DualInvariant, PTL DEF Spec

\* Among commands that take turns a revoked request stays revoked.
THEOREM FreshWhenAloneCorrect == Spec => []FreshWhenAlone
<1>1. (alone => InTurn) => FreshWhenAlone
  BY DEF InTurn, FreshWhenAlone
<1> QED BY <1>1, TurnInvariant, PTL

\* Among commands that take turns no request is lost.
THEOREM RequestKeptCorrect == Spec => []RequestKept
<1>1. (alone => InTurn) => RequestKept
  BY DEF InTurn, Kept, RequestKept, Readable
<1> QED BY <1>1, TurnInvariant, PTL
===========================================================================
