-------------------------- MODULE DashboardProofs --------------------------
(***************************************************************************)
(* Proofs about Dashboard for any users, sessions, terminals and requests, *)
(* interleaved and interrupted in any way: types, who acts, the terminals, *)
(* and what the audit log tells.                                           *)
(***************************************************************************)
EXTENDS Dashboard, TLAPS

-----------------------------------------------------------------------------
(* Types.                                                                  *)

\* What most steps do to a request.
LEMMA ReqChange == 
  ASSUME ReqTypeOK, NEW r \in Req, NEW e \in Request, 
         req' = [req EXCEPT ![r] = e],
         e.pc # "new" => e.key \in Key /\ e.op \in Op /\ e.lab \in Lab,
         e.pc = "check" => e.row \in Row
  PROVE  ReqTypeOK'
  BY DEF ReqTypeOK

LEMMA GotoType == 
  ASSUME ReqTypeOK, NEW r \in Req, NEW pc \in Pcs \ {"check"}, Goto(r, pc), 
         req[r].pc # "new"
  PROVE  ReqTypeOK'
  <1> DEFINE e == [req[r] EXCEPT !.pc = pc]
  <1>1. req[r] \in Request
    BY DEF ReqTypeOK
  <1>2. e \in Request
    BY <1>1 DEF Request
  <1>3. /\ e.key = req[r].key /\ e.op = req[r].op /\ e.lab = req[r].lab
        /\ e.pc # "check"
    BY <1>1 DEF Request
  <1>4. req' = [req EXCEPT ![r] = e]
    BY DEF Goto
  <1>5. e.key \in Key /\ e.op \in Op /\ e.lab \in Lab
    BY <1>3 DEF ReqTypeOK
  <1> HIDE DEF e
  <1> QED BY <1>2, <1>3, <1>4, <1>5, ReqChange

LEMMA InitType == Init => TypeOK
  BY TimeAssumption, VethAssumption 
     DEF Init, AuthInit, NewReq, NoTerm, TypeOK, AuthTypeOK, Row, Pcs,
         ReqTypeOK, Request, Ttyd, Bridge

LEMMA AccountsType == TypeOK /\ Accounts /\ Idle /\ UNCHANGED prior => TypeOK'
  <1> SUFFICES ASSUME TypeOK, Accounts, Idle, UNCHANGED prior PROVE TypeOK'
    OBVIOUS
  <1>1. /\ UNCHANGED <<req, link, audit, proc, inst, lock, term, faults>>
        /\ UNCHANGED <<acted, by, ran, prior>>
    BY DEF Accounts, Tick, Login, IssueSession, Logout, Idle, ttyds, set
  <1>2. AuthTypeOK'
    <2>1. CASE Tick
      BY <2>1, TimeAssumption DEF Tick, TypeOK, AuthTypeOK
    <2>2. ASSUME NEW u \in User, Login(u) PROVE AuthTypeOK'
      <3>1. PICK k \in Key : 
              /\ rows' = [rows EXCEPT ![k] = [user |-> u, expires |-> now + Ttl]]
              /\ issued' = [issued EXCEPT ![k] = rows'[k]]
        BY <2>2 DEF Login, IssueSession
      <3>2. [user |-> u, expires |-> now + Ttl] \in Row
        BY TimeAssumption DEF TypeOK, AuthTypeOK, Row
      <3> QED BY <2>2, <3>1, <3>2 DEF Login, IssueSession, TypeOK, AuthTypeOK
    <2>3. ASSUME NEW k \in Key, Logout(k) PROVE AuthTypeOK'
      BY <2>3 DEF Logout, RevokeSession, TypeOK, AuthTypeOK
    <2> QED BY <2>1, <2>2, <2>3 DEF Accounts
  <1> QED BY <1>1, <1>2 DEF TypeOK, ReqTypeOK

LEMMA AdmissionType == 
  ASSUME TypeOK, NEW r \in Req, Idle,
         UNCHANGED prior \/ prior' = [prior EXCEPT ![r] = Over],
         \/ CurrentAdmin(r)
         \/ \E k \in Key, op \in Op, l \in Lab : Arrive(r, k, op, l)
  PROVE  TypeOK'
  <1>0. prior' \in [Req -> SUBSET Req]
    <2>1. Over \in SUBSET Req
      BY DEF Over
    <2> QED BY <2>1 DEF TypeOK
  <1>1. /\ UNCHANGED <<link, audit, proc, inst, lock, term, faults, ran, acted>>
        /\ UNCHANGED by
    BY DEF Idle, ttyds, set
  <1>2. AuthTypeOK'
    BY DEF CurrentAdmin, Arrive, Select, Check, RevokeSession, TypeOK, 
           AuthTypeOK, auth
  <1> DEFINE q == req[r]
  <1>3. q \in Request /\ (q.pc # "new" => q.key \in Key /\ q.op \in Op 
                                            /\ q.lab \in Lab)
    BY DEF TypeOK, ReqTypeOK
  <1>4. CASE Select(r)
    <2>1. CASE rows[q.key] = None
      BY <1>0, <1>1, <1>2, <1>4, <2>1, GotoType DEF Select, Goto, TypeOK, Pcs
    <2>2. CASE rows[q.key] # None
      <3> DEFINE e == [[q EXCEPT !.pc = "check"] EXCEPT !.row = rows[q.key]]
      <3>1. rows[q.key] \in Row
        BY <1>3, <1>4, <2>2 DEF Select, TypeOK, AuthTypeOK
      <3>2. e \in Request /\ e.key = q.key /\ e.op = q.op /\ e.lab = q.lab
            /\ e.row = rows[q.key]
        BY <1>3, <3>1 DEF Request, Pcs
      <3>3. req' = [req EXCEPT ![r] = e]
        BY <1>4, <2>2 DEF Select, TypeOK, ReqTypeOK
      <3> HIDE DEF e
      <3> QED BY <1>0, <1>1, <1>2, <1>3, <1>4, <3>1, <3>2, <3>3, ReqChange 
              DEF Select, TypeOK
    <2> QED BY <2>1, <2>2
  <1>5. CASE Check(r)
    <2>1. CASE Expired(q.row)
      BY <1>0, <1>1, <1>2, <1>5, <2>1, GotoType DEF Check, Goto, TypeOK, Pcs
    <2>2. CASE ~Expired(q.row)
      <3> DEFINE e == [[[[q EXCEPT !.pc = "in"] EXCEPT !.at = now] 
                          EXCEPT !.user = q.row.user] EXCEPT !.row = None]
      <3>1. q.row.user \in User /\ now \in 0..MaxTime
        BY <1>3, <1>5 DEF Check, TypeOK, AuthTypeOK, ReqTypeOK, Row
      <3>2. /\ e \in Request /\ e.key = q.key /\ e.op = q.op /\ e.lab = q.lab
            /\ e.pc # "check"
        BY <1>3, <3>1 DEF Request, Pcs
      <3>3. req' = [req EXCEPT ![r] = e]
        BY <1>5, <2>2 DEF Check, TypeOK, ReqTypeOK
      <3> HIDE DEF e
      <3> QED BY <1>0, <1>1, <1>2, <1>3, <1>5, <3>2, <3>3, ReqChange 
              DEF Check, TypeOK
    <2> QED BY <2>1, <2>2
  <1>6. ASSUME NEW k \in Key, NEW op \in Op, NEW l \in Lab, Arrive(r, k, op, l)
        PROVE  TypeOK'
    <2> DEFINE e == [[[[[NewReq EXCEPT !.pc = "lookup"] EXCEPT !.key = k] 
                         EXCEPT !.op = op] EXCEPT !.lab = l] 
                         EXCEPT !.before = k \in revoked]
    <2>1. 0 \in 0..MaxTime
      BY TimeAssumption
    <2>2. (k \in revoked) \in BOOLEAN
      OBVIOUS
    <2>3. /\ e \in Request /\ e.key = k /\ e.op = op /\ e.lab = l
          /\ e.pc # "check"
      BY <2>1, <2>2 DEF NewReq, Request, Pcs
    <2>4. req' = [req EXCEPT ![r] = e]
      BY <1>6 DEF Arrive
    <2> HIDE DEF e
    <2> QED BY <1>0, <1>1, <1>2, <2>3, <2>4, ReqChange DEF TypeOK
  <1> QED BY <1>4, <1>5, <1>6 DEF CurrentAdmin

\* A step that sets no interface, or sets one for r.
LEMMA SetType == 
  ASSUME TypeOK, NEW r \in Req, UNCHANGED set \/ SetLink(r),
         req[r].pc # "new"
  PROVE  /\ link' \in [Net -> {"up", "down"}] /\ acted' \subseteq Req
         /\ by' \in [Net -> Req \cup {None}]
  <1>1. Veth(r) \in Net /\ LinkState(req[r].op) \in {"up", "down"}
    BY VethAssumption DEF Veth, LinkState, TypeOK, ReqTypeOK
  <1>2. CASE UNCHANGED set
    BY <1>2 DEF set, TypeOK
  <1>3. CASE SetLink(r)
    BY <1>1, <1>3 DEF SetLink, TypeOK
  <1> QED BY <1>2, <1>3

LEMMA ControlType == 
  ASSUME TypeOK, NEW r \in Req, 
         \/ Freeze(r) \/ Stop(r) \/ Isolate(r) \/ CommandFails(r) 
         \/ AuditFails(r)
  PROVE  TypeOK'
  <1>1. AuthTypeOK' /\ UNCHANGED <<audit, proc, inst, lock, term, prior>>
    BY DEF Freeze, Stop, Isolate, CommandFails, AuditFails, TypeOK, AuthTypeOK, 
           auth, ttyds, past
  <1>2. /\ req[r].pc # "new" /\ \E pc \in {"ran", "kill", "done"} : Goto(r, pc)
        /\ ran' \subseteq Req /\ faults' \in 0..MaxFaults
    BY VethAssumption DEF Freeze, Stop, Isolate, CommandFails, AuditFails, Ran, 
                          Control, Fault, TypeOK, past
  <1>3. ReqTypeOK'
    BY <1>2, GotoType DEF TypeOK, Pcs
  <1>4. /\ link' \in [Net -> {"up", "down"}] /\ acted' \subseteq Req
        /\ by' \in [Net -> Req \cup {None}]
    <2>1. UNCHANGED set \/ SetLink(r)
      BY DEF Freeze, Stop, Isolate, CommandFails, AuditFails
    <2> QED BY <1>2, <2>1, SetType
  <1> QED BY <1>1, <1>2, <1>3, <1>4 DEF TypeOK

LEMMA ElsewhereType == 
  ASSUME TypeOK, NEW n \in Net, Elsewhere(n) PROVE TypeOK'
  <1>1. /\ link' \in [Net -> {"up", "down"}] /\ faults' \in 0..MaxFaults
        /\ by' \in [Net -> Req \cup {None}]
    BY VethAssumption DEF Elsewhere, Fault, TypeOK
  <1>2. /\ UNCHANGED <<now, rows, issued, revoked, req, audit, proc, inst, lock>>
        /\ UNCHANGED <<term, acted, ran, prior>>
    BY DEF Elsewhere, auth, ttyds, past
  <1> QED BY <1>1, <1>2 DEF TypeOK, AuthTypeOK, ReqTypeOK

LEMMA LoggedType == 
  ASSUME TypeOK, NEW r \in Req, AuditControl(r) \/ Report(r) \/ Attach(r)
  PROVE  TypeOK'
  <1>1. /\ AuthTypeOK' /\ UNCHANGED <<proc, inst, lock, term, link, faults>>
        /\ UNCHANGED <<acted, by, ran, prior>>
    BY DEF AuditControl, Report, Attach, TypeOK, AuthTypeOK, auth, ttyds, set, 
           past
  <1>2. req[r].pc # "new" /\ \E pc \in {"ensure", "done"} : Goto(r, pc)
    BY DEF AuditControl, Report, Attach
  <1>4. audit' \in Seq(Req)
    <2>1. audit' = Append(audit, r)
      BY DEF AuditControl, Report, Attach, AuditWrite
    <2>2. audit \in Seq(Req)
      BY DEF TypeOK
    <2> QED BY <2>1, <2>2
  <1>3. ReqTypeOK'
    BY <1>2, GotoType DEF TypeOK, Pcs
  <1> QED BY <1>1, <1>3, <1>4 DEF TypeOK

\* A record for a terminal or a ttyd that differs in some fields.
LEMMA BridgeChange == 
  ASSUME TypeOK, NEW r \in Req
  PROVE  /\ term[r] \in Bridge /\ Closed(term[r]) \in Bridge
         /\ Closed(term[r]).p = term[r].p
         /\ \A p \in Proc \cup {None} : [term[r] EXCEPT !.p = p] \in Bridge
         /\ \A b \in BOOLEAN : /\ [term[r] EXCEPT !.client = b] \in Bridge
                              /\ [term[r] EXCEPT !.c2u = b] \in Bridge
                              /\ [term[r] EXCEPT !.u2c = b] \in Bridge
                              /\ [term[r] EXCEPT !.typed = b] \in Bridge
  BY DEF TypeOK, Bridge, Closed

LEMMA TerminalType == 
  ASSUME TypeOK, NEW r \in Req, 
         \/ Reuse(r) \/ Spawn(r) \/ TtydFails(r) \/ Register(r) \/ Connect(r)
         \/ Kill(r) \/ KillEnds(r)
  PROVE  TypeOK'
  <1>1. /\ AuthTypeOK' /\ UNCHANGED <<link, acted, by, ran, prior>> 
        /\ faults' \in 0..MaxFaults
    BY VethAssumption DEF Reuse, Spawn, TtydFails, Register, Connect, Kill, 
           KillEnds, Fault, TypeOK, AuthTypeOK, auth, ttyds, set, past
  <1>2. req[r].pc # "new" /\ audit' = audit
    BY DEF Reuse, Spawn, TtydFails, Register, Connect, Kill, KillEnds
  <1>3. \E pc \in {"connect", "spawned", "bridge", "done", "killing"} : Goto(r, pc)
    BY DEF Reuse, Spawn, TtydFails, Register, Connect, Kill, KillEnds
  <1>4. ReqTypeOK' 
    BY <1>2, <1>3, GotoType DEF TypeOK, Pcs
  <1>5. /\ req[r].lab \in Lab /\ inst[req[r].lab] \in Proc \cup {None}
        /\ term[r].p \in Proc \cup {None}
    BY <1>2 DEF TypeOK, ReqTypeOK, Bridge
  <1>6. term' \in [Req -> Bridge]
    <2>1. term' = term \/ \E p \in Proc \cup {None} : 
                           term' = [term EXCEPT ![r].p = p]
      BY <1>5 DEF Reuse, Spawn, TtydFails, Register, Connect, Kill, KillEnds, 
                  ttyds
    <2>2. \A p \in Proc \cup {None} : [term[r] EXCEPT !.p = p] \in Bridge
      BY BridgeChange
    <2>3. term \in [Req -> Bridge]
      BY DEF TypeOK
    <2>4. ASSUME NEW p \in Proc \cup {None}, term' = [term EXCEPT ![r].p = p]
          PROVE  term' \in [Req -> Bridge]
      BY <2>2, <2>3, <2>4
    <2> QED BY <2>1, <2>3, <2>4
  <1>7. inst' \in [Lab -> Proc \cup {None}] /\ lock' \in Req \cup {None}
    BY <1>5 DEF Reuse, Spawn, TtydFails, Register, Connect, Kill, KillEnds, 
                ttyds, TypeOK
  <1>8. proc' \in [Proc -> Ttyd]
    <2>1. CASE Spawn(r)
      <3>1. PICK p \in Proc : proc' = [proc EXCEPT ![p] = 
              [st |-> "alive", lab |-> req[r].lab, rw |-> Writable(r)]]
        BY <2>1 DEF Spawn
      <3>2. [st |-> "alive", lab |-> req[r].lab, rw |-> Writable(r)] \in Ttyd
        BY <1>5 DEF Ttyd, Writable
      <3> QED BY <3>1, <3>2 DEF TypeOK
    <2>2. CASE KillEnds(r)
      BY <2>2 DEF KillEnds, Dies, TypeOK, Ttyd
    <2>3. CASE ~Spawn(r) /\ ~KillEnds(r)
      BY <2>3 DEF Reuse, TtydFails, Register, Connect, Kill, ttyds, TypeOK
    <2> QED BY <2>1, <2>2, <2>3
  <1> QED BY <1>1, <1>2, <1>4, <1>6, <1>7, <1>8 DEF TypeOK

LEMMA BridgeType == 
  ASSUME TypeOK, NEW r \in Req, 
         \/ ClientGoes(r) \/ Type(r) \/ ClientEnds(r) \/ UpstreamEnds(r) 
         \/ GatherEnds(r)
  PROVE  TypeOK'
  <1>1. /\ AuthTypeOK' /\ UNCHANGED <<link, acted, by, ran, prior>> 
        /\ UNCHANGED <<audit, proc, inst, lock, faults>>
    BY DEF ClientGoes, Type, ClientEnds, UpstreamEnds, GatherEnds, TypeOK, 
           AuthTypeOK, auth, set, past
  <1>2. req[r].pc # "new" /\ (req' = req \/ Goto(r, "done"))
    BY DEF ClientGoes, Type, ClientEnds, UpstreamEnds, GatherEnds
  <1>3. ReqTypeOK' 
    BY <1>2, GotoType DEF TypeOK, Pcs, ReqTypeOK
  <1>4. term' \in [Req -> Bridge]
    <2>1. CASE ClientGoes(r)
      BY <2>1, BridgeChange DEF ClientGoes, TypeOK
    <2>2. CASE Type(r)
      BY <2>2, BridgeChange DEF Type, TypeOK
    <2>3. CASE ClientEnds(r)
      BY <2>3, BridgeChange DEF ClientEnds, TypeOK
    <2>4. CASE UpstreamEnds(r)
      BY <2>4, BridgeChange DEF UpstreamEnds, TypeOK
    <2>5. CASE GatherEnds(r)
      BY <2>5, BridgeChange DEF GatherEnds, TypeOK
    <2> QED BY <2>1, <2>2, <2>3, <2>4, <2>5
  <1> QED BY <1>1, <1>3, <1>4 DEF TypeOK

LEMMA TtydDiesType == 
  ASSUME TypeOK, NEW p \in Proc, TtydDies(p) PROVE TypeOK'
  <1>1. proc' \in [Proc -> Ttyd] 
    <2>1. [proc[p] EXCEPT !.st = "dead"] \in Ttyd
      BY DEF TypeOK, Ttyd
    <2> QED BY <2>1 DEF TtydDies, Dies, TypeOK
  <1>3. faults' \in 0..MaxFaults
    BY VethAssumption DEF TtydDies, Fault, TypeOK
  <1>2. UNCHANGED <<now, rows, issued, revoked, req, link, audit, inst, lock, 
                    term, acted, by, ran, prior>>
    BY DEF TtydDies, auth, set, past
  <1> QED BY <1>1, <1>2, <1>3 DEF TypeOK, AuthTypeOK, ReqTypeOK

LEMMA CrashType == TypeOK /\ Crash => TypeOK'
  <1> SUFFICES ASSUME TypeOK, Crash PROVE TypeOK'
    OBVIOUS
  <1> DEFINE lost == {r \in Req : req[r].pc \notin {"new", "done"}}
             silent == {r \in lost : req[r].pc = "ran"}
  <1>1. /\ AuthTypeOK' /\ UNCHANGED <<link, acted, by, audit, prior>> 
        /\ faults' \in 0..MaxFaults
    BY VethAssumption DEF Crash, Fault, TypeOK, AuthTypeOK, auth, set
  <1>2. ReqTypeOK'
    <2>1. req' = [r \in Req |-> IF r \in lost THEN [req[r] EXCEPT !.pc = "done"]
                                ELSE req[r]]
      BY DEF Crash
    <2>2. ASSUME NEW r \in Req, r \in lost
          PROVE  /\ [req[r] EXCEPT !.pc = "done"] \in Request
                 /\ [req[r] EXCEPT !.pc = "done"].pc = "done"
                 /\ [req[r] EXCEPT !.pc = "done"].key = req[r].key
                 /\ [req[r] EXCEPT !.pc = "done"].op = req[r].op
                 /\ [req[r] EXCEPT !.pc = "done"].lab = req[r].lab
      <3>1. req[r] \in Request
        BY DEF TypeOK, ReqTypeOK
      <3> QED BY <3>1 DEF Request, Pcs
    <2> QED BY <2>1, <2>2 DEF TypeOK, ReqTypeOK
  <1>3. proc' \in [Proc -> Ttyd]
    BY DEF Crash, TypeOK, Ttyd
  <1>4. term' \in [Req -> Bridge]
    BY BridgeChange DEF Crash, TypeOK
  <1>5. inst' \in [Lab -> Proc \cup {None}] /\ lock' \in Req \cup {None}
    BY DEF Crash
  <1>6. ran' \subseteq Req
    BY DEF Crash, TypeOK
  <1> QED BY <1>1, <1>2, <1>3, <1>4, <1>5, <1>6 DEF TypeOK

\* The type invariant, for any requests and any faults.
THEOREM TypeCorrect == Spec => []TypeOK
  <1>1. TypeOK /\ [Next]_vars => TypeOK'
    <2>1. TypeOK /\ Next => TypeOK'
      BY AccountsType, AdmissionType, ControlType, LoggedType, TerminalType,
         BridgeType, ElsewhereType, TtydDiesType, CrashType 
         DEF Next, Handler, Terminal
    <2>2. TypeOK /\ UNCHANGED vars => TypeOK'
      BY DEF vars, auth, ttyds, set, past, TypeOK, AuthTypeOK, ReqTypeOK
    <2> QED BY <2>1, <2>2
  <1> QED BY <1>1, InitType, PTL DEF Spec

-----------------------------------------------------------------------------
(* Who is let in.                                                          *)

\* What makes Authorised inductive: a row is the one its key was issued with
\* or none, and none after a logout (Table); a request has a key that was
\* issued, holds that key's row while it is checked, and has no user before
\* that; once it came with a key that was logged out it never gets one.
Table == \A k \in Key : 
    /\ rows[k] # None => rows[k] = issued[k]
    /\ k \in revoked => rows[k] = None /\ issued[k] # None
Admission(q, iss, rev) == 
    /\ q.pc # "new" => iss[q.key] # None
    /\ q.pc \in {"new", "lookup", "check"} => q.user = None
    /\ q.pc = "check" => q.row # None /\ q.row = iss[q.key]
    /\ q.before => /\ q.pc \in {"lookup", "done"} /\ q.user = None
                   /\ q.key \in rev
Admitted(q, iss) == q.user # None => 
    /\ iss[q.key] # None /\ iss[q.key].user = q.user
    /\ q.at <= iss[q.key].expires /\ ~q.before
AuthInv == /\ Table 
           /\ \A r \in Req : /\ Admission(req[r], issued, revoked) 
                             /\ Admitted(req[r], issued)

LEMMA InitAuth == Init => AuthInv
  BY DEF Init, AuthInit, NewReq, AuthInv, Table, Admission, Admitted

LEMMA AccountsAuth == TypeOK /\ AuthInv /\ Accounts => AuthInv'
  <1> SUFFICES ASSUME TypeOK, AuthInv, Accounts PROVE AuthInv'
    OBVIOUS
  <1>1. CASE Tick
    BY <1>1 DEF Tick, AuthInv, Table, Admission, Admitted
  <1>2. ASSUME NEW u \in User, Login(u) PROVE AuthInv'
    <2>1. PICK k \in Key : 
            /\ issued[k] = None
            /\ rows' = [rows EXCEPT ![k] = [user |-> u, expires |-> now + Ttl]]
            /\ issued' = [issued EXCEPT ![k] = rows'[k]]
      BY <1>2 DEF Login, IssueSession
    <2>2. rows'[k] = issued'[k] /\ k \notin revoked
      BY <2>1 DEF TypeOK, AuthTypeOK, AuthInv, Table
    <2>3. \A l \in Key \ {k} : rows'[l] = rows[l] /\ issued'[l] = issued[l]
      BY <2>1 DEF TypeOK, AuthTypeOK
    <2>4. Table'
      BY <1>2, <2>2, <2>3 DEF Login, IssueSession, AuthInv, Table
    <2>5. \A r \in Req : req[r].pc # "new" => issued'[req[r].key] = issued[req[r].key]
      BY <2>1, <2>3 DEF TypeOK, ReqTypeOK, AuthInv, Admission
    <2>6. \A r \in Req : req[r].pc = "new" => req[r].user = None
      BY DEF AuthInv, Admission
    <2> QED BY <1>2, <2>4, <2>5, <2>6 DEF Login, IssueSession, AuthInv, Admission, Admitted
  <1>3. ASSUME NEW k \in Key, Logout(k) PROVE AuthInv'
    BY <1>3 DEF Logout, RevokeSession, TypeOK, AuthTypeOK, AuthInv, Table, 
                Admission, Admitted
  <1> QED BY <1>1, <1>2, <1>3 DEF Accounts

LEMMA AuthChange == 
  ASSUME ReqTypeOK, AuthInv, NEW r \in Req, NEW e, req' = [req EXCEPT ![r] = e],
         Table', UNCHANGED <<issued, revoked>>,
         Admission(e, issued, revoked), Admitted(e, issued)
  PROVE  AuthInv'
  <1> SUFFICES ASSUME NEW q \in Req 
               PROVE  /\ Admission(req'[q], issued', revoked') 
                      /\ Admitted(req'[q], issued')
    BY DEF AuthInv
  <1>1. CASE q = r
    BY <1>1 DEF ReqTypeOK
  <1>2. CASE q # r
    BY <1>2 DEF ReqTypeOK, AuthInv
  <1> QED BY <1>1, <1>2

\* A step that leaves the table alone and moves one admitted request on.
LEMMA GotoAuth == 
  ASSUME TypeOK, AuthInv, NEW r \in Req, NEW pc, Goto(r, pc), UNCHANGED auth,
         req[r].pc \notin {"new", "lookup", "check", "done"} \/ pc = "done",
         req[r].pc # "new", pc \notin {"new", "lookup", "check"}
  PROVE  AuthInv'
  <1> DEFINE e == [req[r] EXCEPT !.pc = pc]
  <1>1. req[r] \in Request
    BY DEF TypeOK, ReqTypeOK
  <1>2. /\ e.pc = pc /\ e.key = req[r].key /\ e.row = req[r].row
        /\ e.user = req[r].user /\ e.at = req[r].at 
        /\ e.before = req[r].before
    BY <1>1 DEF Request
  <1>3. req' = [req EXCEPT ![r] = e] /\ req \in [Req -> Request]
    BY DEF Goto, TypeOK, ReqTypeOK
  <1>4. Admission(req[r], issued, revoked) /\ Admitted(req[r], issued)
    BY DEF AuthInv
  <1> HIDE DEF e
  <1>5. Table' /\ UNCHANGED <<issued, revoked>>
    BY DEF auth, AuthInv, Table
  <1>6. Admission(e, issued, revoked) /\ Admitted(e, issued)
    BY <1>2, <1>4, <1>5 DEF Admission, Admitted
  <1> QED BY <1>3, <1>5, <1>6, AuthChange DEF TypeOK

LEMMA AdmissionAuth == 
  ASSUME TypeOK, AuthInv, NEW r \in Req, 
         \/ CurrentAdmin(r)
         \/ \E k \in Key, op \in Op, l \in Lab : Arrive(r, k, op, l)
  PROVE  AuthInv'
  <1> DEFINE q == req[r]
  <1>1. q \in Request /\ req \in [Req -> Request] 
        /\ (q.pc # "new" => q.key \in Key)
    BY DEF TypeOK, ReqTypeOK
  <1>2. Admission(q, issued, revoked) /\ Admitted(q, issued)
    BY DEF AuthInv
  <1>3. CASE Select(r)
    <2>1. CASE rows[q.key] = None
      <3>1. Goto(r, "done") /\ UNCHANGED auth /\ req[r].pc = "lookup"
        BY <1>3, <2>1 DEF Select, Goto
      <3> QED BY <3>1, GotoAuth
    <2>2. CASE rows[q.key] # None
      <3> DEFINE e == [[q EXCEPT !.pc = "check"] EXCEPT !.row = rows[q.key]]
      <3>1. /\ e.pc = "check" /\ e.row = rows[q.key] /\ e.key = q.key 
            /\ e.user = q.user /\ e.before = q.before /\ e.at = q.at
        BY <1>1 DEF Request
      <3>2. req' = [req EXCEPT ![r] = e] /\ UNCHANGED auth
        BY <1>1, <1>3, <2>2 DEF Select
      <3> HIDE DEF e
      <3>3. Table' /\ UNCHANGED <<issued, revoked>>
        BY <3>2 DEF auth, AuthInv, Table
      <3>4. Admission(e, issued, revoked) /\ Admitted(e, issued)
        BY <1>1, <1>2, <1>3, <2>2, <3>1, <3>3 
           DEF Select, Admission, Admitted, AuthInv, Table
      <3> QED BY <1>1, <3>2, <3>3, <3>4, AuthChange DEF TypeOK
    <2> QED BY <2>1, <2>2
  <1>4. CASE Check(r)
    <2>1. CASE Expired(q.row)
      <3> DEFINE e == [q EXCEPT !.pc = "done"]
      <3>1. /\ e.pc = "done" /\ e.key = q.key /\ e.user = q.user
            /\ e.before = q.before
        BY <1>1 DEF Request
      <3>2. /\ req' = [req EXCEPT ![r] = e] /\ UNCHANGED <<issued, revoked>>
            /\ rows' = [rows EXCEPT ![q.key] = None]
        BY <1>4, <2>1 DEF Check, RevokeSession
      <3> HIDE DEF e
      <3>3. Table'
        BY <3>2 DEF AuthInv, Table, TypeOK, AuthTypeOK
      <3>4. Admission(e, issued, revoked) /\ Admitted(e, issued)
        BY <1>2, <1>4, <3>1, <3>2 DEF Check, Admission, Admitted
      <3> QED BY <1>1, <3>2, <3>3, <3>4, AuthChange DEF TypeOK
    <2>2. CASE ~Expired(q.row)
      <3> DEFINE e == [[[[q EXCEPT !.pc = "in"] EXCEPT !.at = now] 
                          EXCEPT !.user = q.row.user] EXCEPT !.row = None]
      <3>1. /\ e.pc = "in" /\ e.key = q.key /\ e.user = q.row.user
            /\ e.before = q.before /\ e.at = now
        BY <1>1 DEF Request
      <3>2. req' = [req EXCEPT ![r] = e] /\ UNCHANGED <<rows, issued, revoked>>
        BY <1>1, <1>4, <2>2 DEF Check
      <3> HIDE DEF e
      <3>3. Table'
        BY <3>2 DEF AuthInv, Table
      <3>4. /\ q.row = issued[q.key] /\ q.row # None /\ ~q.before
            /\ now <= q.row.expires
        <4>1. q.row \in Row /\ now \in 0..MaxTime
          BY <1>4 DEF Check, TypeOK, ReqTypeOK, AuthTypeOK
        <4>2. q.row.expires \in Nat /\ now \in Nat
          BY <4>1, TimeAssumption DEF Row
        <4> QED BY <1>2, <1>4, <2>2, <4>2 DEF Check, Expired, Admission
      <3>5. Admission(e, issued, revoked) /\ Admitted(e, issued)
        BY <3>1, <3>2, <3>4 DEF Admission, Admitted
      <3> QED BY <1>1, <3>2, <3>3, <3>5, AuthChange DEF TypeOK
    <2> QED BY <2>1, <2>2
  <1>5. ASSUME NEW k \in Key, NEW op \in Op, NEW l \in Lab, Arrive(r, k, op, l)
        PROVE  AuthInv'
    <2> DEFINE e == [[[[[NewReq EXCEPT !.pc = "lookup"] EXCEPT !.key = k] 
                         EXCEPT !.op = op] EXCEPT !.lab = l] 
                         EXCEPT !.before = k \in revoked]
    <2>1. /\ e.pc = "lookup" /\ e.key = k /\ e.user = None
          /\ e.before = (k \in revoked)
      BY DEF NewReq
    <2>2. /\ req' = [req EXCEPT ![r] = e] /\ UNCHANGED <<rows, issued, revoked>>
          /\ issued[k] # None
      BY <1>5 DEF Arrive, auth
    <2> HIDE DEF e
    <2>3. Table'
      BY <2>2 DEF AuthInv, Table
    <2>4. Admission(e, issued, revoked) /\ Admitted(e, issued)
      BY <2>1, <2>2 DEF Admission, Admitted
    <2> QED BY <1>1, <2>2, <2>3, <2>4, AuthChange DEF TypeOK
  <1> QED BY <1>3, <1>4, <1>5 DEF CurrentAdmin

\* What the other handlers do to a request: they move an admitted one on.
Onward(r) == 
    /\ req[r].pc \notin {"new", "lookup", "check", "done"} /\ UNCHANGED auth
    /\ req' = req \/ \E pc \in Pcs \ {"new", "lookup", "check"} : Goto(r, pc)

LEMMA HandlersGoOn == 
  ASSUME NEW r \in Req, 
         \/ Handler(r) \/ CommandFails(r) \/ AuditFails(r) \/ Terminal(r)
         \/ TtydFails(r) \/ ClientGoes(r) \/ Type(r) \/ UpstreamEnds(r)
  PROVE  Onward(r)
  <1>1. CASE Handler(r) \/ CommandFails(r) \/ AuditFails(r)
    BY <1>1 DEF Handler, CommandFails, AuditFails, Freeze, Stop, Isolate, AuditControl, 
           Report, Ran, Onward, Pcs
  <1>2. CASE Terminal(r) \/ TtydFails(r)
    BY <1>2 DEF Terminal, TtydFails, Attach, Reuse, Spawn, Register, Connect,
           ClientEnds, GatherEnds, Kill, KillEnds, Onward, Pcs
  <1>3. CASE ClientGoes(r) \/ Type(r) \/ UpstreamEnds(r)
    BY <1>3 DEF ClientGoes, Type, UpstreamEnds, Onward, Pcs
  <1> QED BY <1>1, <1>2, <1>3

LEMMA CrashAuth == TypeOK /\ AuthInv /\ Crash => AuthInv'
  <1> SUFFICES ASSUME TypeOK, AuthInv, Crash PROVE AuthInv'
    OBVIOUS
  <1>1. Table' /\ UNCHANGED <<issued, revoked>>
    BY DEF Crash, auth, AuthInv, Table
  <1>2. ASSUME NEW r \in Req PROVE Admission(req'[r], issued', revoked') 
                                       /\ Admitted(req'[r], issued')
    <2>1. req[r] \in Request /\ Admission(req[r], issued, revoked) /\ Admitted(req[r], issued)
      BY DEF TypeOK, ReqTypeOK, AuthInv
    <2>2. CASE req[r].pc \in {"new", "done"}
      <3>1. req'[r] = req[r]
        BY <2>2 DEF Crash
      <3> QED BY <1>1, <2>1, <3>1 DEF Admission, Admitted
    <2>3. CASE req[r].pc \notin {"new", "done"}
      <3> DEFINE e == [req[r] EXCEPT !.pc = "done"]
      <3>1. req'[r] = e
        BY <2>3 DEF Crash
      <3>2. /\ e.pc = "done" /\ e.key = req[r].key /\ e.user = req[r].user 
            /\ e.at = req[r].at /\ e.before = req[r].before
        BY <2>1 DEF Request
      <3> HIDE DEF e
      <3> QED BY <1>1, <2>1, <2>3, <3>1, <3>2 DEF Admission, Admitted
    <2> QED BY <2>2, <2>3
  <1> QED BY <1>1, <1>2 DEF AuthInv

LEMMA NextAuth == TypeOK /\ AuthInv /\ [Next]_vars => AuthInv'
  <1> SUFFICES ASSUME TypeOK, AuthInv, [Next]_vars PROVE AuthInv'
    OBVIOUS
  <1>1. ASSUME UNCHANGED auth, UNCHANGED req PROVE AuthInv'
    BY <1>1 DEF auth, AuthInv, Table, Admission, Admitted
  <1>2. ASSUME NEW r \in Req, Onward(r) PROVE AuthInv'
    BY <1>1, <1>2, GotoAuth DEF Onward
  <1>3. ASSUME (\E p \in Proc : TtydDies(p)) \/ \E n \in Net : Elsewhere(n) 
        PROVE  AuthInv'
    BY <1>1, <1>3 DEF TtydDies, Elsewhere
  <1>4. CASE UNCHANGED vars
    BY <1>1, <1>4 DEF vars
  <1> QED BY <1>2, <1>3, <1>4, AccountsAuth, AdmissionAuth, HandlersGoOn, 
             CrashAuth DEF Next

\* Whoever is let in holds a session that was theirs, unexpired when it was
\* checked and not logged out when the request came, for any interleaving.
THEOREM AuthorisedCorrect == Spec => []Authorised
  <1>1. AuthInv => Authorised
    BY DEF AuthInv, Admitted, Authorised
  <1> QED BY <1>1, InitAuth, NextAuth, TypeCorrect, PTL DEF Spec

-----------------------------------------------------------------------------
(* Terminals.                                                              *)

\* What makes NoOrphan inductive: the lock is held by the one request that
\* has spawned a ttyd and not yet registered it; that ttyd is for the
\* request's session, whose instance, if any, has ended; an instance belongs
\* to the session it is registered for.
Locked == /\ lock # None => req[lock].pc = "spawned"
          /\ \A r \in Req : req[r].pc = "spawned" => lock = r
Fresh(r) == /\ term[r].p \in Proc /\ proc[term[r].p].lab = req[r].lab
            /\ proc[term[r].p].st # "none" /\ ~Alive(inst[req[r].lab])
Registered(l) == inst[l] # None => /\ proc[inst[l]].st # "none" 
                                   /\ proc[inst[l]].lab = l
TermInv == /\ Locked /\ \A l \in Lab : Registered(l)
           /\ \A r \in Req : req[r].pc = "spawned" => Fresh(r)
           /\ NoOrphan

LEMMA InitTerm == Init => TermInv
  BY DEF Init, AuthInit, NewReq, TermInv, Locked, Registered, Fresh, NoOrphan, 
         Alive

\* Requests that are neither starting a ttyd nor ending one do not matter.
LEMMA QuietTerm == 
  ASSUME TypeOK, TermInv, UNCHANGED <<proc, inst, lock>>,
         \A r \in Req : 
           req[r].pc \in {"spawned", "killing"} \/ req'[r].pc = "spawned" =>
             /\ req'[r].pc = req[r].pc /\ req'[r].lab = req[r].lab 
             /\ term'[r].p = term[r].p
  PROVE  TermInv'
  <1>1. Locked'
    BY DEF TermInv, Locked, TypeOK
  <1>2. (\A l \in Lab : Registered(l))'
    BY DEF TermInv, Registered
  <1>3. (\A r \in Req : req[r].pc = "spawned" => Fresh(r))'
    BY DEF TermInv, Fresh, Alive
  <1>4. NoOrphan'
    BY DEF TermInv, NoOrphan, Alive
  <1> QED BY <1>1, <1>2, <1>3, <1>4 DEF TermInv

LEMMA QuietStep == 
  ASSUME TypeOK, TermInv, UNCHANGED <<proc, inst, lock>>, NEW r \in Req,
         req[r].pc \notin {"spawned", "killing"}, req'[r].pc # "spawned",
         \A q \in Req \ {r} : req'[q] = req[q] /\ term'[q] = term[q]
  PROVE  TermInv'
  BY QuietTerm

\* The steps of one request that start or end no ttyd.
LEMMA OthersTerm == 
  ASSUME TypeOK, TermInv, NEW r \in Req,
         \/ Idle /\ CurrentAdmin(r)
         \/ Idle /\ \E k \in Key, op \in Op, l \in Lab : Arrive(r, k, op, l)
         \/ Handler(r) \/ CommandFails(r) \/ AuditFails(r) \/ Attach(r) 
         \/ Reuse(r) \/ Connect(r) \/ TtydFails(r) \/ ClientGoes(r) \/ Type(r) \/ ClientEnds(r) 
         \/ UpstreamEnds(r) \/ GatherEnds(r)
  PROVE  TermInv'
  <1>0. req \in [Req -> Request] /\ req[r] \in Request /\ term \in [Req -> Bridge]
    BY DEF TypeOK, ReqTypeOK
  <1>1. UNCHANGED <<proc, inst, lock>> /\ req[r].pc \notin {"spawned", "killing"}
    BY DEF CurrentAdmin, Select, Check, Arrive, Idle, Handler, Freeze, Stop, 
           Isolate, AuditControl, Report, CommandFails, AuditFails, Attach, Reuse, Connect, 
           TtydFails, ClientGoes, Type, ClientEnds, UpstreamEnds, GatherEnds, 
           ttyds
  <1>2. \A q \in Req \ {r} : req'[q] = req[q] /\ term'[q] = term[q]
    BY <1>0 DEF CurrentAdmin, Select, Check, Arrive, Idle, Handler, Freeze, Stop,
           Isolate, AuditControl, Report, CommandFails, AuditFails, Attach, Reuse, Connect, 
           TtydFails, ClientGoes, Type, ClientEnds, UpstreamEnds, GatherEnds, 
           ttyds, Ran, Goto
  <1>3. req'[r].pc # "spawned"
    <2>1. CASE CurrentAdmin(r)
      BY <1>0, <2>1 DEF CurrentAdmin, Select, Check, Request
    <2>2. CASE \E k \in Key, op \in Op, l \in Lab : Arrive(r, k, op, l)
      <3>1. PICK k \in Key, op \in Op, l \in Lab : Arrive(r, k, op, l)
        BY <2>2
      <3> DEFINE e == [[[[[NewReq EXCEPT !.pc = "lookup"] EXCEPT !.key = k] 
                           EXCEPT !.op = op] EXCEPT !.lab = l] 
                           EXCEPT !.before = k \in revoked]
      <3>2. req' = [req EXCEPT ![r] = e]
        BY <3>1 DEF Arrive
      <3>3. e.pc = "lookup"
        BY DEF NewReq
      <3> HIDE DEF e
      <3> QED BY <1>0, <3>2, <3>3
    <2>3. CASE \/ req' = req 
               \/ \E pc \in {"ran", "kill", "done", "ensure", "connect", 
                             "bridge"} : Goto(r, pc)
      BY <1>0, <1>1, <2>3 DEF Goto, Request
    <2> QED BY <2>1, <2>2, <2>3 
            DEF Handler, Freeze, Stop, Isolate, AuditControl, Report, Ran, 
                CommandFails, AuditFails, Attach, Reuse, Connect, TtydFails, ClientGoes, 
                Type, ClientEnds, UpstreamEnds, GatherEnds
  <1> QED BY <1>1, <1>2, <1>3, QuietStep

LEMMA SpawnTerm == 
  ASSUME TypeOK, TermInv, NEW r \in Req, Spawn(r) PROVE TermInv'
  <1>1. PICK p \in Proc : 
          /\ proc[p].st = "none"
          /\ proc' = [proc EXCEPT ![p] = [st |-> "alive", lab |-> req[r].lab,
                                          rw |-> Writable(r)]]
          /\ term' = [term EXCEPT ![r].p = p]
    BY DEF Spawn
  <1>2. /\ lock = None /\ lock' = r /\ ~Alive(inst[req[r].lab])
        /\ req[r].pc = "ensure" /\ req' = [req EXCEPT ![r].pc = "spawned"]
        /\ inst' = inst /\ req[r].lab \in Lab
    BY DEF Spawn, LockFree, Goto, TypeOK, ReqTypeOK
  <1>3. /\ req'[r].pc = "spawned" /\ req'[r].lab = req[r].lab
        /\ \A q \in Req \ {r} : req'[q] = req[q] /\ term'[q] = term[q]
        /\ term'[r].p = p
    BY <1>1, <1>2 DEF TypeOK, ReqTypeOK, Request, Bridge
  <1>4. /\ proc'[p].st = "alive" /\ proc'[p].lab = req[r].lab
        /\ \A q \in Proc \ {p} : proc'[q] = proc[q]
    BY <1>1 DEF TypeOK
  <1>5. \A q \in Req : req[q].pc # "spawned"
    BY <1>2, NoneAssumption DEF TermInv, Locked
  <1>6. Locked'
    BY <1>2, <1>3, <1>5 DEF Locked
  <1>7. \A l \in Lab : inst[l] # p \/ inst[l] = None
    BY <1>1 DEF TermInv, Registered
  <1>8. (\A l \in Lab : Registered(l))'
    BY <1>2, <1>4, <1>7 DEF TermInv, Registered, TypeOK
  <1>9. (\A q \in Req : req[q].pc = "spawned" => Fresh(q))'
    BY <1>2, <1>3, <1>4, <1>5, <1>7 DEF Fresh, Alive, TypeOK
  <1>10. NoOrphan'
    <2> SUFFICES ASSUME NEW q \in Proc, Alive(q)'
                 PROVE  \/ inst'[proc'[q].lab] = q
                        \/ \E k \in Req : /\ req'[k].pc \in {"spawned", "killing"} 
                                         /\ term'[k].p = q
      BY DEF NoOrphan
    <2>1. CASE q = p
      BY <1>3, <2>1
    <2>2. CASE q # p
      BY <1>2, <1>3, <1>4, <2>2 DEF Alive, TermInv, NoOrphan
    <2> QED BY <2>1, <2>2
  <1> QED BY <1>6, <1>8, <1>9, <1>10 DEF TermInv

LEMMA RegisterTerm == 
  ASSUME TypeOK, TermInv, NEW r \in Req, Register(r) PROVE TermInv'
  <1>1. /\ req[r].pc = "spawned" /\ lock' = None /\ proc' = proc /\ term' = term
        /\ req' = [req EXCEPT ![r].pc = "connect"] /\ req[r].lab \in Lab
        /\ inst' = [inst EXCEPT ![req[r].lab] = term[r].p]
    BY DEF Register, Goto, TypeOK, ReqTypeOK
  <1>2. req'[r].pc = "connect" /\ \A q \in Req \ {r} : req'[q] = req[q]
    BY <1>1 DEF TypeOK, ReqTypeOK, Request
  <1>3. \A q \in Req : req[q].pc = "spawned" => q = r
    BY <1>1 DEF TermInv, Locked
  <1>4. Fresh(r)
    BY <1>1 DEF TermInv
  <1>5. \A l \in Lab : inst'[l] = IF l = req[r].lab THEN term[r].p ELSE inst[l]
    BY <1>1 DEF TypeOK
  <1>6. Locked' /\ (\A q \in Req : req[q].pc = "spawned" => Fresh(q))'
    BY <1>1, <1>2, <1>3 DEF Locked
  <1>7. (\A l \in Lab : Registered(l))'
    BY <1>1, <1>4, <1>5 DEF TermInv, Registered, Fresh
  <1>8. NoOrphan'
    <2> SUFFICES ASSUME NEW q \in Proc, Alive(q)'
                 PROVE  \/ inst'[proc'[q].lab] = q
                        \/ \E k \in Req : /\ req'[k].pc \in {"spawned", "killing"} 
                                         /\ term'[k].p = q
      BY DEF NoOrphan
    <2>1. Alive(q)
      BY <1>1 DEF Alive
    <2>2. CASE inst[proc[q].lab] = q 
      <3>1. proc[q].lab # req[r].lab
        BY <1>4, <2>1, <2>2 DEF Fresh
      <3>2. inst'[proc[q].lab] = inst[proc[q].lab]
        BY <1>1, <3>1 DEF TypeOK
      <3> QED BY <1>1, <2>2, <3>2
    <2>3. CASE \E k \in Req : req[k].pc \in {"spawned", "killing"} /\ term[k].p = q
      BY <1>1, <1>2, <1>4, <1>5, <2>3 DEF Fresh
    <2> QED BY <2>1, <2>2, <2>3 DEF TermInv, NoOrphan
  <1> QED BY <1>6, <1>7, <1>8 DEF TermInv

LEMMA KillTerm == 
  ASSUME TypeOK, TermInv, NEW r \in Req, Kill(r) PROVE TermInv'
  <1> DEFINE l == req[r].lab
  <1>1. /\ req[r].pc = "in" /\ lock = None /\ lock' = lock /\ proc' = proc 
        /\ term' = [term EXCEPT ![r].p = inst[l]] /\ l \in Lab
        /\ inst' = [inst EXCEPT ![l] = None]
        /\ req' = [req EXCEPT ![r].pc = IF Alive(inst[l]) THEN "killing" ELSE "done"]
    BY DEF Kill, Goto, LockFree, TypeOK, ReqTypeOK
  <1>2. /\ \A q \in Req \ {r} : req'[q] = req[q] /\ term'[q] = term[q]
        /\ term'[r].p = inst[l] 
        /\ req'[r].pc = IF Alive(inst[l]) THEN "killing" ELSE "done"
    BY <1>1 DEF TypeOK, ReqTypeOK, Request, Bridge
  <1>3. \A q \in Req : req[q].pc # "spawned"
    BY <1>1, NoneAssumption DEF TermInv, Locked
  <1>4. Locked' /\ (\A q \in Req : req[q].pc = "spawned" => Fresh(q))'
    BY <1>1, <1>2, <1>3 DEF Locked
  <1>5. \A k \in Lab : inst'[k] = IF k = l THEN None ELSE inst[k]
    BY <1>1 DEF TypeOK
  <1>6. (\A k \in Lab : Registered(k))'
    BY <1>1, <1>5 DEF TermInv, Registered
  <1>7. NoOrphan'
    <2> SUFFICES ASSUME NEW q \in Proc, Alive(q)'
                 PROVE  \/ inst'[proc'[q].lab] = q
                        \/ \E k \in Req : /\ req'[k].pc \in {"spawned", "killing"} 
                                         /\ term'[k].p = q
      BY DEF NoOrphan
    <2>1. Alive(q)
      BY <1>1 DEF Alive
    <2>2. CASE inst[proc[q].lab] = q /\ proc[q].lab = l
      BY <1>2, <2>1, <2>2
    <2>3. CASE inst[proc[q].lab] = q /\ proc[q].lab # l
      <3>1. inst'[proc[q].lab] = inst[proc[q].lab]
        BY <1>1, <2>3 DEF TypeOK
      <3> QED BY <1>1, <2>3, <3>1
    <2>4. CASE \E k \in Req : req[k].pc \in {"spawned", "killing"} /\ term[k].p = q
      BY <1>1, <1>2, <2>4
    <2> QED BY <2>1, <2>2, <2>3, <2>4 DEF TermInv, NoOrphan
  <1> QED BY <1>4, <1>6, <1>7 DEF TermInv

\* A ttyd that ends can only make things better, the rest being as it was.
LEMMA DiesTerm == 
  ASSUME TypeOK, TermInv, NEW p \in Proc, Dies(p), UNCHANGED <<inst, lock, term>>,
         \A r \in Req : \/ req'[r] = req[r]
                      \/ /\ req[r].pc = "killing" /\ term[r].p = p
                         /\ req'[r].pc = "done"
  PROVE  TermInv'
  <1>1. /\ proc'[p].st = "dead" /\ proc'[p].lab = proc[p].lab
        /\ \A q \in Proc \ {p} : proc'[q] = proc[q]
    BY DEF Dies, TypeOK, Ttyd
  <1>2. Locked'
    BY DEF TermInv, Locked, TypeOK
  <1>3. (\A l \in Lab : Registered(l))'
    BY <1>1 DEF TermInv, Registered, TypeOK
  <1>4. (\A r \in Req : req[r].pc = "spawned" => Fresh(r))'
    <2> SUFFICES ASSUME NEW r \in Req, req'[r].pc = "spawned" PROVE Fresh(r)'
      OBVIOUS
    <2>1. req'[r] = req[r] /\ Fresh(r)
      BY DEF TermInv
    <2>2. inst[req[r].lab] \in Proc \cup {None}
      BY <2>1 DEF TypeOK, ReqTypeOK
    <2> QED BY <1>1, <2>1, <2>2 DEF Fresh, Alive
  <1>5. NoOrphan'
    <2> SUFFICES ASSUME NEW q \in Proc, Alive(q)'
                 PROVE  \/ inst'[proc'[q].lab] = q
                        \/ \E k \in Req : /\ req'[k].pc \in {"spawned", "killing"} 
                                         /\ term'[k].p = q
      BY DEF NoOrphan
    <2>1. q # p /\ Alive(q)
      BY <1>1 DEF Alive
    <2> QED BY <1>1, <2>1 DEF TermInv, NoOrphan
  <1> QED BY <1>2, <1>3, <1>4, <1>5 DEF TermInv

LEMMA KillEndsTerm == 
  ASSUME TypeOK, TermInv, NEW r \in Req, KillEnds(r) PROVE TermInv'
  <1>1. /\ req[r].pc = "killing" /\ Dies(term[r].p) 
        /\ UNCHANGED <<inst, lock, term>>
        /\ req' = [req EXCEPT ![r].pc = "done"]
    BY DEF KillEnds, Goto
  <1>2. req'[r].pc = "done" /\ \A q \in Req \ {r} : req'[q] = req[q]
    BY <1>1 DEF TypeOK, ReqTypeOK, Request
  <1>3. CASE term[r].p \in Proc
    BY <1>1, <1>2, <1>3, DiesTerm
  <1>4. CASE term[r].p \notin Proc
    <2>1. proc' = proc
      BY <1>1, <1>4 DEF Dies, TypeOK
    <2>2. Locked' /\ (\A q \in Req : req[q].pc = "spawned" => Fresh(q))'
      BY <1>1, <1>2, <2>1 DEF TermInv, Locked, Fresh, Alive, TypeOK
    <2>3. (\A l \in Lab : Registered(l))'
      BY <1>1, <2>1 DEF TermInv, Registered
    <2>4. NoOrphan'
      BY <1>1, <1>2, <1>4, <2>1 DEF TermInv, NoOrphan, Alive
    <2> QED BY <2>2, <2>3, <2>4 DEF TermInv
  <1> QED BY <1>3, <1>4

LEMMA CrashTerm == 
  ASSUME TypeOK, TermInv, Crash PROVE TermInv'
  <1>1. lock' = None /\ \A l \in Lab : inst'[l] = None
    BY DEF Crash
  <1>2. \A r \in Req : req'[r].pc \in {"new", "done"}
    BY DEF Crash, TypeOK, ReqTypeOK, Request
  <1>3. \A p \in Proc : ~Alive(p)'
    BY DEF Crash, Alive, TypeOK, Ttyd
  <1>4. Locked' /\ (\A l \in Lab : Registered(l))'
    BY <1>1, <1>2 DEF Locked, Registered
  <1>5. NoOrphan' /\ (\A r \in Req : req[r].pc = "spawned" => Fresh(r))'
    BY <1>2, <1>3 DEF NoOrphan
  <1> QED BY <1>4, <1>5 DEF TermInv

LEMMA NextTerm == TypeOK /\ TermInv /\ [Next]_vars => TermInv'
  <1> SUFFICES ASSUME TypeOK, TermInv, [Next]_vars PROVE TermInv'
    OBVIOUS
  <1>1. ASSUME UNCHANGED <<req, proc, inst, lock, term>> PROVE TermInv'
    BY <1>1 DEF TermInv, Locked, Registered, Fresh, NoOrphan, Alive
  <1>2. CASE (Accounts /\ Idle) \/ UNCHANGED vars
    BY <1>1, <1>2 DEF Accounts, Tick, Login, IssueSession, Logout, Idle, vars, ttyds
  <1>3. ASSUME NEW r \in Req, Terminal(r) PROVE TermInv'
    BY <1>3, OthersTerm, SpawnTerm, RegisterTerm, KillTerm, KillEndsTerm 
       DEF Terminal
  <1>4. ASSUME NEW p \in Proc, TtydDies(p) PROVE TermInv'
    BY <1>4, DiesTerm DEF TtydDies
  <1>5. ASSUME NEW n \in Net, Elsewhere(n) PROVE TermInv'
    BY <1>1, <1>5 DEF Elsewhere, ttyds
  <1> QED BY <1>2, <1>3, <1>4, <1>5, OthersTerm, CrashTerm DEF Next

\* No ttyd is left behind, whatever attaches, ends and dies at the same time.
THEOREM NoOrphanCorrect == Spec => []NoOrphan
  <1>1. TermInv => NoOrphan
    BY DEF TermInv
  <1> QED BY <1>1, InitTerm, NextTerm, TypeCorrect, PTL DEF Spec

-----------------------------------------------------------------------------
(* Writable terminals.                                                     *)

\* Who may spawn a ttyd is on record.
AskInv == /\ \A r \in Req : req[r].pc = "ensure" => r \in Logged
          /\ \A r \in Logged : req[r].pc # "new"
          /\ WritableAsked

LEMMA LoggedGrows == 
  ASSUME TypeOK, NEW r \in Req, AuditWrite(r) 
  PROVE  Logged' = Logged \cup {r}
  <1>1. audit \in Seq(Req) /\ audit' = Append(audit, r)
    BY DEF AuditWrite, TypeOK
  <1> QED BY <1>1 DEF Logged

\* A step that starts no ttyd: what a logged request asked for stays.
LEMMA QuietAsk == 
  ASSUME TypeOK, TypeOK', AskInv, Logged \subseteq Logged',
         \A p \in Proc : proc'[p].rw = proc[p].rw /\ proc'[p].lab = proc[p].lab,
         \A r \in Req : 
           /\ req'[r].pc = "ensure" /\ req[r].pc # "ensure" => r \in Logged'
           /\ r \in Logged' => req'[r].pc # "new"
           /\ req[r].pc # "new" => /\ req'[r].op = req[r].op 
                                   /\ req'[r].lab = req[r].lab
  PROVE  AskInv'
  <1>1. Logged \subseteq Req
    BY DEF Logged, TypeOK
  <1>2. Logged' \subseteq Req
    BY DEF Logged, TypeOK
  <1> QED BY <1>1, <1>2 DEF AskInv, WritableAsked

\* What one request's steps do to it and to the log.
Keeps(r) == /\ req[r].pc # "new" => /\ req'[r].op = req[r].op 
                                     /\ req'[r].lab = req[r].lab
                                     /\ req'[r].pc # "new"
            /\ req'[r].pc = "ensure" => req[r].pc = "ensure" \/ Attach(r)
            /\ \A q \in Req \ {r} : req'[q] = req[q]
            /\ audit' = audit \/ (AuditWrite(r) /\ req[r].pc # "new")

LEMMA KeepsAsk == 
  ASSUME TypeOK, TypeOK', AskInv, NEW r \in Req, Keeps(r),
         \A p \in Proc : proc'[p].rw = proc[p].rw /\ proc'[p].lab = proc[p].lab
  PROVE  AskInv'
  <1>1. Logged' = Logged \/ (Logged' = Logged \cup {r} /\ req[r].pc # "new")
    <2>1. audit' = audit => Logged' = Logged
      BY DEF Logged
    <2>2. AuditWrite(r) => Logged' = Logged \cup {r}
      BY LoggedGrows
    <2>3. audit' = audit \/ (AuditWrite(r) /\ req[r].pc # "new")
      BY DEF Keeps
    <2> QED BY <2>1, <2>2, <2>3
  <1>2. Attach(r) => r \in Logged'
    BY LoggedGrows DEF Attach
  <1>3. req'[r].pc = "ensure" => r \in Logged'
    BY <1>1, <1>2 DEF Keeps, AskInv
  <1>4. \A q \in Logged' : q \in Req /\ req'[q].pc # "new"
    <2>1. Logged' \subseteq Req
      BY DEF Logged, TypeOK
    <2>2. \A q \in Logged' : req[q].pc # "new"
      BY <1>1 DEF AskInv
    <2> QED BY <2>1, <2>2 DEF Keeps
  <1>5. \A q \in Req : req[q].pc # "new" => /\ req'[q].op = req[q].op 
                                           /\ req'[q].lab = req[q].lab
    BY DEF Keeps
  <1>6. \A q \in Req : req'[q].pc = "ensure" /\ req[q].pc # "ensure" => q \in Logged'
    BY <1>3 DEF Keeps
  <1>7. Logged \subseteq Logged'
    BY <1>1
  <1> QED BY <1>4, <1>5, <1>6, <1>7, QuietAsk

LEMMA GotoKeeps == 
  ASSUME TypeOK, NEW r \in Req, NEW pc, Goto(r, pc), 
         pc # "new", pc = "ensure" => Attach(r),
         audit' = audit \/ (AuditWrite(r) /\ req[r].pc # "new")
  PROVE  Keeps(r)
  BY DEF Goto, Keeps, TypeOK, ReqTypeOK, Request

\* Every step of a request does that.
LEMMA StepKeeps == 
  ASSUME TypeOK, NEW r \in Req,
         \/ Idle /\ CurrentAdmin(r)
         \/ Idle /\ \E k \in Key, op \in Op, l \in Lab : Arrive(r, k, op, l)
         \/ Handler(r) \/ CommandFails(r) \/ AuditFails(r) \/ Terminal(r)
         \/ TtydFails(r) \/ ClientGoes(r) \/ Type(r) \/ UpstreamEnds(r)
  PROVE  Keeps(r)
  <1>1. req \in [Req -> Request] /\ req[r] \in Request
    BY DEF TypeOK, ReqTypeOK
  <1>2. CASE Idle /\ Select(r)
    BY <1>1, <1>2 DEF Idle, Select, Keeps, Request
  <1>3. CASE Idle /\ Check(r)
    BY <1>1, <1>3 DEF Idle, Check, Keeps, Request
  <1>4. ASSUME NEW k \in Key, NEW op \in Op, NEW l \in Lab, Arrive(r, k, op, l),
               Idle
        PROVE  Keeps(r)
    <2> DEFINE e == [[[[[NewReq EXCEPT !.pc = "lookup"] EXCEPT !.key = k] 
                         EXCEPT !.op = op] EXCEPT !.lab = l] 
                         EXCEPT !.before = k \in revoked]
    <2>1. req' = [req EXCEPT ![r] = e] /\ req[r].pc = "new" /\ audit' = audit
      BY <1>4 DEF Arrive, Idle
    <2>2. e.pc = "lookup"
      BY DEF NewReq
    <2> HIDE DEF e
    <2> QED BY <1>1, <2>1, <2>2 DEF Keeps
  <1>5. CASE Handler(r) \/ CommandFails(r) \/ AuditFails(r)
    BY <1>5, GotoKeeps DEF Handler, Freeze, Stop, Isolate, AuditControl, Report, 
                           CommandFails, AuditFails, Ran
  <1>6. CASE Terminal(r) \/ TtydFails(r)
    <2>1. CASE ClientEnds(r)
      BY <1>1, <2>1 DEF ClientEnds, Keeps
    <2>2. CASE ~ClientEnds(r)
      BY <1>6, <2>2, GotoKeeps DEF Terminal, TtydFails, Attach, Reuse, Spawn, 
             Register, Connect, GatherEnds, Kill, KillEnds
    <2> QED BY <2>1, <2>2
  <1>7. CASE ClientGoes(r) \/ Type(r) \/ UpstreamEnds(r)
    <2>1. audit' = audit /\ (req' = req \/ Goto(r, "done"))
      BY <1>7 DEF ClientGoes, Type, UpstreamEnds
    <2>2. req' = req => Keeps(r)
      BY <2>1 DEF Keeps
    <2> QED BY <2>1, <2>2, GotoKeeps
  <1> QED BY <1>2, <1>3, <1>4, <1>5, <1>6, <1>7 DEF CurrentAdmin

LEMMA SpawnAsk == 
  ASSUME TypeOK, TypeOK', AskInv, NEW r \in Req, Spawn(r) PROVE AskInv'
  <1>1. PICK p \in Proc : 
          proc' = [proc EXCEPT ![p] = [st |-> "alive", lab |-> req[r].lab,
                                       rw |-> Writable(r)]]
    BY DEF Spawn
  <1>2. Keeps(r) /\ audit' = audit /\ req[r].pc = "ensure"
    BY StepKeeps DEF Terminal, Spawn
  <1>3. Logged' = Logged /\ r \in Logged
    BY <1>2 DEF Logged, AskInv
  <1>4. \A q \in Logged : q \in Req /\ req'[q].op = req[q].op 
                         /\ req'[q].lab = req[q].lab /\ req'[q].pc # "new"
    BY <1>2 DEF AskInv, Keeps, Logged, TypeOK
  <1>5. (\A q \in Req : req[q].pc = "ensure" => q \in Logged)'
    BY <1>2, <1>3 DEF AskInv, Keeps, Attach
  <1>6. WritableAsked'
    <2> SUFFICES ASSUME NEW q \in Proc, proc'[q].rw
                 PROVE  \E k \in Logged : /\ req'[k].op = "rw" 
                                         /\ req'[k].lab = proc'[q].lab
      BY <1>3 DEF WritableAsked
    <2>1. CASE q = p
      <3>1. Writable(r) /\ proc'[q].lab = req[r].lab
        BY <1>1, <2>1 DEF TypeOK
      <3> QED BY <1>3, <1>4, <3>1 DEF Writable
    <2>2. CASE q # p
      <3>1. proc'[q] = proc[q]
        BY <1>1, <2>2 DEF TypeOK
      <3> QED BY <1>4, <3>1 DEF AskInv, WritableAsked
    <2> QED BY <2>1, <2>2
  <1> QED BY <1>3, <1>4, <1>5, <1>6 DEF AskInv

LEMMA NextAsk == TypeOK /\ TypeOK' /\ AskInv /\ [Next]_vars => AskInv'
  <1> SUFFICES ASSUME TypeOK, TypeOK', AskInv, [Next]_vars PROVE AskInv'
    OBVIOUS
  <1>1. CASE \/ UNCHANGED vars \/ (Accounts /\ Idle)
             \/ \E n \in Net : Elsewhere(n)
    <2>1. UNCHANGED <<req, audit, proc>>
      BY <1>1 DEF vars, ttyds, Elsewhere, Accounts, Tick, Login, IssueSession, Logout, Idle
    <2> QED BY <2>1 DEF AskInv, Logged, WritableAsked
  <1>2. ASSUME NEW r \in Req, Keeps(r), ~Spawn(r),
               \/ UNCHANGED proc \/ \E p : Dies(p)
        PROVE  AskInv'
    <2>1. \A p \in Proc : proc'[p].rw = proc[p].rw /\ proc'[p].lab = proc[p].lab
      <3>1. CASE UNCHANGED proc
        BY <3>1
      <3>2. ASSUME NEW q, Dies(q), NEW p \in Proc
            PROVE  proc'[p].rw = proc[p].rw /\ proc'[p].lab = proc[p].lab
        BY <3>2 DEF Dies, TypeOK, Ttyd
      <3> QED BY <1>2, <3>1, <3>2
    <2> QED BY <1>2, <2>1, KeepsAsk
  <1>3. ASSUME NEW r \in Req, Idle,
               \/ CurrentAdmin(r)
               \/ \E k \in Key, op \in Op, l \in Lab : Arrive(r, k, op, l)
        PROVE  AskInv'
    <2>1. Keeps(r) /\ UNCHANGED proc /\ ~Spawn(r)
      BY <1>3, StepKeeps 
         DEF Idle, ttyds, CurrentAdmin, Select, Check, Arrive, Spawn
    <2> QED BY <1>2, <2>1
  <1>4. ASSUME NEW r \in Req, ~Spawn(r),
               \/ Handler(r) \/ CommandFails(r) \/ AuditFails(r) \/ Terminal(r)
               \/ TtydFails(r) \/ ClientGoes(r) \/ Type(r) \/ UpstreamEnds(r)
        PROVE  AskInv'
    <2>1. Keeps(r)
      BY <1>4, StepKeeps
    <2>2. UNCHANGED proc \/ \E p : Dies(p)
      BY <1>4 DEF Handler, Freeze, Stop, Isolate, AuditControl, Report, 
             CommandFails, AuditFails, Terminal, Attach, Reuse, Register, Connect, 
             ClientEnds, GatherEnds, Kill, KillEnds, TtydFails, ClientGoes, 
             Type, UpstreamEnds, ttyds
    <2> QED BY <1>2, <1>4, <2>1, <2>2
  <1>5. ASSUME NEW p \in Proc, TtydDies(p) PROVE AskInv'
    <2>1. /\ UNCHANGED <<req, audit>>
          /\ \A q \in Proc : proc'[q].rw = proc[q].rw /\ proc'[q].lab = proc[q].lab
      BY <1>5 DEF TtydDies, Dies, TypeOK, Ttyd
    <2> QED BY <2>1, QuietAsk DEF Logged, AskInv
  <1>6. CASE Crash
    <2>1. /\ audit' = audit
          /\ \A q \in Proc : proc'[q].rw = proc[q].rw /\ proc'[q].lab = proc[q].lab
      BY <1>6 DEF Crash, TypeOK, Ttyd
    <2>2. \A r \in Req : /\ req'[r].op = req[r].op /\ req'[r].lab = req[r].lab
                        /\ req'[r].pc \in {req[r].pc, "done"}
      BY <1>6 DEF Crash, TypeOK, ReqTypeOK, Request
    <2> QED BY <2>1, <2>2, QuietAsk DEF Logged, AskInv
  <1> QED BY <1>1, <1>3, <1>4, <1>5, <1>6, SpawnAsk DEF Next, Terminal

LEMMA AskInvariant == Spec => []AskInv
  <1>1. Init => AskInv
    BY DEF Init, AuthInit, NewReq, AskInv, Logged, WritableAsked
  <1> QED BY <1>1, NextAsk, TypeCorrect, PTL DEF Spec

\* Every writable terminal was asked for, on record, by an admitted request.
THEOREM WritableAskedCorrect == Spec => []WritableAsked
  <1>1. AskInv => WritableAsked
    BY DEF AskInv
  <1> QED BY <1>1, AskInvariant, PTL

-----------------------------------------------------------------------------
(* What is in the log.                                                     *)

\* What makes Audited inductive: the log holds a request at most once, because
\* the step that logs it is the last in which it could be; until then it has
\* a user as soon as it is let in, and has run exactly if it is about to be
\* logged; a request that has just come has no terminal.
Once == \A i, j \in 1..Len(audit) : audit[i] = audit[j] => i = j
Early == {"new", "lookup", "check", "in", "kill", "ran"}
Entry(r) == 
    /\ r \in Logged => /\ req[r].user # None /\ req[r].pc \notin Early
                       /\ req[r].op \in Control => r \in ran
    /\ req[r].pc \in {"in", "kill", "ran"} => req[r].user # None
    /\ req[r].pc = "ran" => r \in ran
    /\ r \in ran => req[r].pc = "ran" \/ (req[r].pc = "done" /\ r \in Logged)
    /\ req[r].pc = "new" => term[r].p = None
    /\ req[r].op \in {"ro", "rw"} /\ term[r].p # None => r \in Logged
LogInv == Once /\ \A r \in Req : Entry(r)

LEMMA InitLog == Init => LogInv
  BY DEF Init, AuthInit, NewReq, NoTerm, LogInv, Once, Entry, Logged, Early

LEMMA LogGivesAudited == TypeOK /\ LogInv => Audited
  <1> SUFFICES ASSUME TypeOK, LogInv PROVE Audited
    OBVIOUS
  <1>1. Logged \subseteq Req
    BY DEF Logged, TypeOK
  <1>2. \A i, j \in 1..Len(audit) : audit[i] = audit[j] => i = j
    BY DEF LogInv, Once
  <1>3. ASSUME NEW r \in Logged
        PROVE  req[r].user # None /\ (req[r].op \in Control => r \in ran)
    BY <1>1 DEF LogInv, Entry
  <1>4. ASSUME NEW r \in ran, req[r].pc = "done" PROVE r \in Logged
    <2>1. r \in Req
      BY DEF TypeOK
    <2> QED BY <1>4, <2>1 DEF LogInv, Entry
  <1>5. ASSUME NEW r \in Req, req[r].op \in {"ro", "rw"}, term[r].p # None
        PROVE  r \in Logged
    BY <1>5 DEF LogInv, Entry
  <1> QED BY <1>2, <1>3, <1>4, <1>5 DEF Audited

\* A step of one request: only that one needs to be looked at again.
LEMMA OneEntry == 
  ASSUME TypeOK, LogInv, NEW r \in Req,
         \A q \in Req \ {r} : /\ req'[q] = req[q] /\ term'[q] = term[q]
                              /\ q \in ran' <=> q \in ran,
         audit' = audit \/ (AuditWrite(r) /\ req[r].pc \in Early),
         Entry(r)'
  PROVE  LogInv'
  <1>1. Logged' = Logged \/ Logged' = Logged \cup {r}
    BY LoggedGrows DEF Logged
  <1>2. ASSUME NEW q \in Req, q # r PROVE Entry(q)'
    <2>1. q \in Logged' <=> q \in Logged
      BY <1>1, <1>2
    <2> QED BY <1>2, <2>1 DEF LogInv, Entry
  <1>3. Once'
    <2>1. CASE audit' = audit
      BY <2>1 DEF LogInv, Once
    <2>2. CASE AuditWrite(r) /\ req[r].pc \in Early
      <3>1. audit \in Seq(Req) /\ audit' = Append(audit, r)
        BY <2>2 DEF AuditWrite, TypeOK
      <3>2. /\ Len(audit') = Len(audit) + 1 /\ audit'[Len(audit) + 1] = r
            /\ \A i \in 1..Len(audit) : audit'[i] = audit[i]
            /\ Len(audit) \in Nat
        BY <3>1
      <3>3. r \notin Logged
        BY <2>2 DEF LogInv, Entry
      <3>4. \A i \in 1..Len(audit) : audit[i] # r
        BY <3>3 DEF Logged
      <3>5. \A i \in 1..Len(audit') : i \in 1..Len(audit) \/ i = Len(audit) + 1
        BY <3>2
      <3> QED BY <3>2, <3>4, <3>5 DEF LogInv, Once
    <2> QED BY <2>1, <2>2
  <1> QED BY <1>2, <1>3 DEF LogInv

\* What Goto leaves of a request.
LEMMA GotoKeepsRest == 
  ASSUME TypeOK, NEW r \in Req, NEW pc, Goto(r, pc)
  PROVE  /\ req'[r].pc = pc /\ req'[r].op = req[r].op 
         /\ req'[r].lab = req[r].lab /\ req'[r].user = req[r].user
         /\ \A q \in Req \ {r} : req'[q] = req[q]
  BY DEF Goto, TypeOK, ReqTypeOK, Request

LEMMA AdmissionLog == 
  ASSUME TypeOK, LogInv, NEW r \in Req, Idle,
         \/ CurrentAdmin(r)
         \/ \E k \in Key, op \in Op, l \in Lab : Arrive(r, k, op, l)
  PROVE  LogInv'
  <1>1. UNCHANGED <<audit, term, ran>> /\ Logged' = Logged
    BY DEF Idle, ttyds, Logged
  <1>2. req \in [Req -> Request] /\ req[r] \in Request /\ Entry(r)
    BY DEF TypeOK, ReqTypeOK, LogInv
  <1>3. \A q \in Req \ {r} : req'[q] = req[q]
    BY <1>2 DEF CurrentAdmin, Select, Check, Goto, Arrive
  <1>4. CASE Select(r)
    <2>1. /\ req[r].pc = "lookup" /\ req'[r].pc \in {"done", "check"}
          /\ req'[r].op = req[r].op /\ req'[r].user = req[r].user
      BY <1>2, <1>4 DEF Select, Request
    <2>2. Entry(r)'
      BY <1>1, <1>2, <2>1 DEF Entry, Early
    <2> QED BY <1>1, <1>3, <2>2, OneEntry
  <1>5. CASE Check(r)
    <2>1. /\ req[r].pc = "check" /\ req'[r].op = req[r].op
          /\ \/ req'[r].pc = "done" /\ req'[r].user = req[r].user
             \/ req'[r].pc = "in" /\ req'[r].user = req[r].row.user
      BY <1>2, <1>5 DEF Check, Request
    <2>2. req[r].row.user # None
      BY <2>1, NoneAssumption DEF TypeOK, ReqTypeOK, Row
    <2>3. Entry(r)'
      BY <1>1, <1>2, <2>1, <2>2 DEF Entry, Early
    <2> QED BY <1>1, <1>3, <2>3, OneEntry
  <1>6. ASSUME NEW k \in Key, NEW op \in Op, NEW l \in Lab, Arrive(r, k, op, l)
        PROVE  LogInv'
    <2> DEFINE e == [[[[[NewReq EXCEPT !.pc = "lookup"] EXCEPT !.key = k] 
                         EXCEPT !.op = op] EXCEPT !.lab = l] 
                         EXCEPT !.before = k \in revoked]
    <2>1. req' = [req EXCEPT ![r] = e] /\ req[r].pc = "new"
      BY <1>6 DEF Arrive
    <2>2. e.pc = "lookup"
      BY DEF NewReq
    <2> HIDE DEF e
    <2>3. req'[r].pc = "lookup"
      BY <1>2, <2>1, <2>2
    <2>4. Entry(r)'
      BY <1>1, <1>2, <2>1, <2>3 DEF Entry, Early
    <2> QED BY <1>1, <1>3, <2>4, OneEntry
  <1> QED BY <1>4, <1>5, <1>6 DEF CurrentAdmin

LEMMA ControlLog == 
  ASSUME TypeOK, LogInv, NEW r \in Req, 
         Handler(r) \/ CommandFails(r) \/ AuditFails(r)
  PROVE  LogInv'
  <1>1. UNCHANGED term /\ Entry(r)
    BY DEF Handler, Freeze, Stop, Isolate, AuditControl, Report, CommandFails, 
           AuditFails, ttyds, LogInv
  <1>2. CASE AuditControl(r) \/ Report(r)
    <2>1. /\ Goto(r, "done") /\ AuditWrite(r) /\ req[r].pc \in Early 
          /\ UNCHANGED ran
          /\ req[r].pc = "ran" \/ (req[r].pc = "in" /\ req[r].op = "report")
      BY <1>2 DEF AuditControl, Report, Early, past
    <2>2. Logged' = Logged \cup {r}
      BY <2>1, LoggedGrows
    <2>3. /\ req'[r].pc = "done" /\ req'[r].op = req[r].op 
          /\ req'[r].user = req[r].user
          /\ \A q \in Req \ {r} : req'[q] = req[q]
      BY <2>1, GotoKeepsRest
    <2>4. Entry(r)'
      BY <1>1, <2>1, <2>2, <2>3 DEF Entry, Early, Control
    <2> QED BY <1>1, <2>1, <2>3, <2>4, OneEntry
  <1>3. CASE Freeze(r) \/ Stop(r) \/ Isolate(r) \/ CommandFails(r)
    <2>1. /\ \E pc \in {"ran", "kill", "done"} : 
               /\ Goto(r, pc)
               /\ ran' = IF pc = "ran" THEN ran \cup {r} ELSE ran
          /\ req[r].pc \in {"in", "kill"} /\ UNCHANGED audit
      BY <1>3 DEF Freeze, Stop, Isolate, CommandFails, Ran, past
    <2>2. /\ req'[r].pc \in {"ran", "kill", "done"} 
          /\ req'[r].op = req[r].op /\ req'[r].user = req[r].user
          /\ ran' = IF req'[r].pc = "ran" THEN ran \cup {r} ELSE ran
          /\ \A q \in Req \ {r} : req'[q] = req[q]
      BY <2>1, GotoKeepsRest
    <2>3. Logged' = Logged
      BY <2>1 DEF Logged
    <2>4. Entry(r)'
      BY <1>1, <2>1, <2>2, <2>3 DEF Entry, Early
    <2> QED BY <1>1, <2>1, <2>2, <2>4, OneEntry
  <1>4. CASE AuditFails(r)
    <2>1. /\ Goto(r, "done") /\ UNCHANGED audit /\ ran' = ran \ {r}
          /\ req[r].pc = "ran" 
               \/ (req[r].pc = "in" /\ req[r].op \notin Control)
      BY <1>4 DEF AuditFails, set, Control
    <2>2. /\ req'[r].pc = "done" /\ req'[r].op = req[r].op 
          /\ req'[r].user = req[r].user
          /\ \A q \in Req \ {r} : req'[q] = req[q]
      BY <2>1, GotoKeepsRest
    <2>3. Logged' = Logged
      BY <2>1 DEF Logged
    <2>4. Entry(r)'
      BY <1>1, <2>1, <2>2, <2>3 DEF Entry, Early
    <2> QED BY <1>1, <2>1, <2>2, <2>4, OneEntry
  <1> QED BY <1>2, <1>3, <1>4 DEF Handler

LEMMA TerminalLog == 
  ASSUME TypeOK, LogInv, AskInv, NEW r \in Req, 
         \/ Terminal(r) \/ TtydFails(r) \/ ClientGoes(r) \/ Type(r) 
         \/ UpstreamEnds(r)
  PROVE  LogInv'
  <1>1. Entry(r) /\ UNCHANGED ran /\ term \in [Req -> Bridge]
    BY DEF Terminal, Attach, Reuse, Spawn, Register, Connect, ClientEnds, 
           GatherEnds, Kill, KillEnds, TtydFails, ClientGoes, Type, 
           UpstreamEnds, past, LogInv, TypeOK
  <1>2. \A q \in Req \ {r} : term'[q] = term[q]
    BY <1>1 DEF Terminal, Attach, Reuse, Spawn, Register, Connect, ClientEnds, 
           GatherEnds, Kill, KillEnds, TtydFails, ClientGoes, Type, 
           UpstreamEnds, ttyds
  <1>3. CASE Attach(r)
    <2>1. /\ Goto(r, "ensure") /\ AuditWrite(r) /\ req[r].pc = "in" 
          /\ req[r].op \notin Control /\ UNCHANGED term
      BY <1>3 DEF Attach, Control, ttyds
    <2>2. Logged' = Logged \cup {r}
      BY <2>1, LoggedGrows
    <2>3. /\ req'[r].pc = "ensure" /\ req'[r].op = req[r].op 
          /\ req'[r].user = req[r].user
          /\ \A q \in Req \ {r} : req'[q] = req[q]
      BY <2>1, GotoKeepsRest
    <2>4. Entry(r)'
      BY <1>1, <2>1, <2>2, <2>3 DEF Entry, Early
    <2> QED BY <1>1, <2>1, <2>3, <2>4, OneEntry DEF Early
  <1>4. CASE ~Attach(r)
    <2>1. /\ UNCHANGED audit 
          /\ req[r].pc \notin Early \/ (req[r].pc = "in" /\ req[r].op = "kill")
          /\ req' = req \/ \E pc \in Pcs \ Early : Goto(r, pc)
      BY <1>4 DEF Terminal, Reuse, Spawn, Register, Connect, ClientEnds, 
             GatherEnds, Kill, KillEnds, TtydFails, ClientGoes, Type, 
             UpstreamEnds, Pcs, Early
    <2>2. /\ \/ req'[r].pc \notin Early /\ req'[r].op = req[r].op
             \/ req' = req
          /\ req'[r].user = req[r].user
          /\ \A q \in Req \ {r} : req'[q] = req[q]
      BY <2>1, GotoKeepsRest
    <2>3. Logged' = Logged
      BY <2>1 DEF Logged
    <2>4. \/ term'[r].p = term[r].p \/ req[r].op = "kill"
          \/ req[r].pc = "ensure" /\ r \in Logged
      BY <1>1, <1>4 
         DEF Terminal, Reuse, Spawn, Register, Connect, ClientEnds, 
             GatherEnds, Kill, KillEnds, TtydFails, ClientGoes, Type, 
             UpstreamEnds, ttyds, AskInv, Closed, Bridge
    <2>5. req[r].pc = "done" => req'[r].pc = "done"
      BY <1>4 DEF Terminal, Reuse, Spawn, Register, Connect, ClientEnds, 
             GatherEnds, Kill, KillEnds, TtydFails, ClientGoes, Type, 
             UpstreamEnds
    <2>6. Entry(r)'
      BY <1>1, <2>1, <2>2, <2>3, <2>4, <2>5 DEF Entry, Early
    <2> QED BY <1>1, <1>2, <2>1, <2>2, <2>6, OneEntry
  <1> QED BY <1>3, <1>4

LEMMA CrashLog == TypeOK /\ LogInv /\ Crash => LogInv'
  <1> SUFFICES ASSUME TypeOK, LogInv, Crash PROVE LogInv'
    OBVIOUS
  <1>1. audit' = audit /\ Logged' = Logged
    BY DEF Crash, Logged
  <1>2. ASSUME NEW r \in Req PROVE Entry(r)'
    <2>1. /\ req'[r].op = req[r].op /\ req'[r].user = req[r].user
          /\ req'[r].pc = IF req[r].pc = "new" THEN "new" ELSE "done"
      BY DEF Crash, TypeOK, ReqTypeOK, Request
    <2>2. term'[r].p = term[r].p
      BY BridgeChange DEF Crash
    <2>3. r \in ran' <=> r \in ran /\ req[r].pc # "ran"
      BY DEF Crash
    <2>4. Entry(r)
      BY DEF LogInv
    <2> QED BY <1>1, <2>1, <2>2, <2>3, <2>4 DEF Entry, Early
  <1> QED BY <1>1, <1>2 DEF LogInv, Once

LEMMA NextLog == TypeOK /\ AskInv /\ LogInv /\ [Next]_vars => LogInv'
  <1> SUFFICES ASSUME TypeOK, AskInv, LogInv, [Next]_vars PROVE LogInv'
    OBVIOUS
  <1>1. ASSUME UNCHANGED <<req, term, audit, ran>> PROVE LogInv'
    BY <1>1 DEF LogInv, Once, Entry, Logged
  <1>2. CASE UNCHANGED vars \/ (Accounts /\ Idle)
    BY <1>1, <1>2 DEF vars, ttyds, past, Accounts, Tick, Login, IssueSession, 
                      Logout, Idle
  <1>3. ASSUME (\E p \in Proc : TtydDies(p)) \/ \E n \in Net : Elsewhere(n) 
        PROVE  LogInv'
    BY <1>1, <1>3 DEF TtydDies, Elsewhere, ttyds, past
  <1> QED BY <1>2, <1>3, AdmissionLog, ControlLog, TerminalLog, CrashLog DEF Next

LEMMA LogInvariant == Spec => []LogInv
  BY InitLog, NextLog, TypeCorrect, AskInvariant, PTL DEF Spec

\* The log tells what was done, for any requests, threads and faults.
THEOREM AuditedCorrect == Spec => []Audited
  BY LogInvariant, LogGivesAudited, TypeCorrect, PTL

-----------------------------------------------------------------------------
(* What the log tells of an interface.                                     *)

\* What makes LinkExplained inductive: a request that was over when another
\* came stays over, so it neither sets an interface nor is logged after that;
\* an interface is as the console's request that set it last wants it; and
\* that request was not over when any other one that has set it came.
PriorOver == \A q, r \in Req : q \in prior[r] => req[q].pc = "done"
AsLastSet(n) == by[n] # None => 
    by[n] \in acted /\ Sets(by[n], n) /\ AsWanted(n, by[n])
SetInOrder(n) == \A r \in acted : 
    Sets(r, n) /\ by[n] # None => by[n] \notin prior[r]
LinkInv == /\ PriorOver /\ InTheirOrder
           /\ \A r \in acted : req[r].pc # "new"
           /\ \A n \in Net : AsLastSet(n) /\ SetInOrder(n)

LEMMA InLog == 
  ASSUME TypeOK PROVE \A i \in 1..Len(audit) : audit[i] \in Logged /\ audit[i] \in Req
  BY DEF Logged, TypeOK

LEMMA InitLink == Init => LinkInv
  BY DEF Init, LinkInv, PriorOver, InTheirOrder, AsLastSet, SetInOrder

LEMMA LinkGivesExplained == TypeOK /\ LinkInv => LinkExplained
  <1> SUFFICES ASSUME TypeOK, LinkInv, NEW n \in Net, NEW r \in acted, 
                      LastEntry(n, r), by[n] \in Logged
               PROVE  \/ AsWanted(n, r)
                      \/ AsWanted(n, by[n]) /\ Overlap(by[n], r)
    BY DEF LinkExplained, LinkInv
  <1>1. PICK i \in 1..Len(audit) : /\ audit[i] = r /\ Sets(r, n)
                                   /\ \A j \in Settings(n) : j <= i
    BY DEF LastEntry, Settings
  <1>2. PICK k \in 1..Len(audit) : audit[k] = by[n]
    BY DEF Logged
  <1>3. by[n] \in Req /\ by[n] # None
    BY <1>2, InLog, NoneAssumption
  <1>4. Sets(by[n], n) /\ AsWanted(n, by[n]) /\ by[n] \notin prior[r]
    BY <1>1, <1>3 DEF LinkInv, AsLastSet, SetInOrder
  <1>5. k <= i
    BY <1>1, <1>2, <1>4 DEF Settings
  <1>6. CASE k = i
    BY <1>1, <1>2, <1>4, <1>6
  <1>7. CASE k < i
    <2>1. r \notin prior[by[n]]
      BY <1>1, <1>2, <1>7 DEF LinkInv, InTheirOrder
    <2> QED BY <1>4, <2>1 DEF Overlap
  <1> QED BY <1>5, <1>6, <1>7

\* A request that has come stays the one it is, and a request that is over
\* stays so.
Steady == \A r \in Req : req[r].pc # "new" => 
    /\ req'[r].op = req[r].op /\ req'[r].lab = req[r].lab /\ req'[r].pc # "new"
    /\ req[r].pc = "done" => req'[r].pc = "done"

LEMMA SteadyStep == 
  ASSUME NEW r \in Req, Keeps(r), req[r].pc # "done" PROVE Steady
  BY DEF Keeps, Steady

LEMMA SteadyOver == 
  ASSUME Steady, PriorOver, UNCHANGED prior PROVE PriorOver'
  BY DEF Steady, PriorOver

LEMMA SteadySets == 
  ASSUME TypeOK, LinkInv, Steady, NEW q \in acted, NEW n
  PROVE  /\ req'[q].pc # "new" /\ (Sets(q, n)' <=> Sets(q, n)) 
         /\ req'[q].op = req[q].op
  BY DEF Steady, LinkInv, Sets, Veth, TypeOK

\* A step that sets no interface and logs nothing.
LEMMA QuietLink == 
  ASSUME TypeOK, LogInv, LinkInv, Steady, UNCHANGED <<set, audit>>,
         \/ UNCHANGED prior
         \/ \E r \in Req : /\ req[r].pc = "new" 
                           /\ prior' = [prior EXCEPT ![r] = Over]
  PROVE  LinkInv'
  <1>1. \A q \in Req : req[q].pc # "new" => prior'[q] = prior[q]
    BY DEF TypeOK
  <1>2. PriorOver'
    <2>1. ASSUME NEW q \in Req, NEW r \in Req, q \in prior'[r]
          PROVE  req[q].pc = "done"
      <3>1. q \in prior[r] \/ q \in Over
        BY <2>1 DEF TypeOK
      <3> QED BY <3>1 DEF Over, LinkInv, PriorOver
    <2> QED BY <2>1 DEF PriorOver, Steady
  <1>3. InTheirOrder'
    <2>1. \A i \in 1..Len(audit) : prior'[audit[i]] = prior[audit[i]]
      <3>1. \A r \in Logged : r \in Req => req[r].pc # "new"
        BY DEF LogInv, Entry, Early
      <3> QED BY <1>1, <3>1, InLog
    <2> QED BY <2>1 DEF LinkInv, InTheirOrder
  <1>4. UNCHANGED <<link, acted, by>>
    BY DEF set
  <1>5. ASSUME NEW n \in Net PROVE AsLastSet(n)' /\ SetInOrder(n)'
    <2>1. AsLastSet(n) /\ SetInOrder(n)
      BY DEF LinkInv
    <2>2. AsLastSet(n)'
      BY <1>4, <2>1, SteadySets DEF AsLastSet, AsWanted
    <2>3. ASSUME NEW r \in acted, Sets(r, n)', by[n] # None
          PROVE  by[n] \notin prior'[r]
      <3>1. prior'[r] = prior[r] /\ Sets(r, n)
        BY <1>1, <2>3, SteadySets DEF LinkInv, TypeOK
      <3> QED BY <2>1, <2>3, <3>1 DEF SetInOrder
    <2> QED BY <1>4, <2>2, <2>3 DEF SetInOrder
  <1>6. \A r \in acted' : req'[r].pc # "new"
    BY <1>4, SteadySets
  <1> QED BY <1>2, <1>3, <1>5, <1>6 DEF LinkInv

\* A request that is still at it sets its interface.
LEMMA SetLinkLink == 
  ASSUME TypeOK, LinkInv, Steady, NEW r \in Req, SetLink(r), 
         req[r].pc \notin {"new", "done"}, req[r].op \in {"isolate", "release"},
         UNCHANGED <<audit, prior>>
  PROVE  LinkInv'
  <1> DEFINE m == Veth(r)
  <1>1. /\ link' = [link EXCEPT ![m] = LinkState(req[r].op)]
        /\ by' = [by EXCEPT ![m] = r] /\ acted' = acted \cup {r}
        /\ m \in Net
    BY VethAssumption DEF SetLink, Veth, TypeOK, ReqTypeOK
  <1>2. PriorOver'
    BY SteadyOver DEF LinkInv
  <1>3. InTheirOrder'
    BY DEF LinkInv, InTheirOrder
  <1>4. /\ req'[r].op = req[r].op /\ req'[r].pc # "new"
        /\ \A n : Sets(r, n)' <=> Sets(r, n)
    BY DEF Steady, Sets, Veth
  <1>5. \A q \in Req : r \notin prior[q]
    BY DEF LinkInv, PriorOver
  <1>6. ASSUME NEW n \in Net PROVE AsLastSet(n)' /\ SetInOrder(n)'
    <2>1. AsLastSet(n) /\ SetInOrder(n)
      BY DEF LinkInv
    <2>2. CASE n = m
      <3>1. by'[n] = r /\ link'[n] = LinkState(req[r].op)
        BY <1>1, <2>2 DEF TypeOK
      <3>2. Sets(r, n)
        BY <2>2 DEF Sets
      <3>3. AsLastSet(n)'
        BY <1>1, <1>4, <3>1, <3>2 DEF AsLastSet, AsWanted, LinkState
      <3>4. SetInOrder(n)'
        BY <1>1, <1>5, <3>1 DEF SetInOrder, TypeOK
      <3> QED BY <3>3, <3>4
    <2>3. CASE n # m
      <3>1. by'[n] = by[n] /\ link'[n] = link[n]
        BY <1>1, <2>3 DEF TypeOK
      <3>2. ~Sets(r, n)
        BY <2>3 DEF Sets
      <3>3. AsLastSet(n)'
        BY <1>1, <2>1, <3>1, SteadySets DEF AsLastSet, AsWanted
      <3>4. SetInOrder(n)'
        BY <1>1, <1>4, <2>1, <3>1, <3>2, SteadySets DEF SetInOrder
      <3> QED BY <3>3, <3>4
    <2> QED BY <2>2, <2>3
  <1>7. \A q \in acted' : req'[q].pc # "new"
    BY <1>1, <1>4, SteadySets
  <1> QED BY <1>2, <1>3, <1>6, <1>7 DEF LinkInv

\* A request that is still at it is logged.
LEMMA LogLink == 
  ASSUME TypeOK, LinkInv, Steady, NEW r \in Req, AuditWrite(r), 
         req[r].pc # "done", UNCHANGED <<set, prior>>
  PROVE  LinkInv'
  <1>1. audit \in Seq(Req) /\ audit' = Append(audit, r)
    BY DEF AuditWrite, TypeOK
  <1>2. PICK k \in Nat : 
          /\ Len(audit) = k /\ Len(audit') = k + 1 /\ audit'[k + 1] = r
          /\ \A i \in 1..k : audit'[i] = audit[i]
    <2>1. Len(audit) \in Nat 
      BY <1>1
    <2> QED BY <1>1, <2>1
  <1>3. \A q \in Req : r \notin prior[q]
    BY DEF LinkInv, PriorOver
  <1>4. InTheirOrder'
    <2>1. ASSUME NEW i \in 1..(k + 1), NEW j \in 1..(k + 1), i < j
          PROVE  audit'[j] \notin prior[audit'[i]]
      <3>1. i \in 1..k /\ audit'[i] = audit[i] /\ audit[i] \in Req
        BY <1>2, <2>1, InLog
      <3>2. CASE j = k + 1
        BY <1>2, <1>3, <3>1, <3>2
      <3>3. CASE j \in 1..k
        BY <1>2, <2>1, <3>1, <3>3 DEF LinkInv, InTheirOrder
      <3> QED BY <3>2, <3>3
    <2> QED BY <1>2, <2>1 DEF InTheirOrder
  <1>5. PriorOver'
    BY SteadyOver DEF LinkInv
  <1>6. UNCHANGED <<link, acted, by>>
    BY DEF set
  <1>7. ASSUME NEW n \in Net PROVE AsLastSet(n)' /\ SetInOrder(n)'
    <2>1. AsLastSet(n) /\ SetInOrder(n)
      BY DEF LinkInv
    <2> QED BY <1>6, <2>1, SteadySets DEF AsLastSet, SetInOrder, AsWanted
  <1>8. \A q \in acted' : req'[q].pc # "new"
    BY <1>6, SteadySets
  <1> QED BY <1>4, <1>5, <1>7, <1>8 DEF LinkInv

LEMMA ElsewhereLink == 
  ASSUME TypeOK, LinkInv, NEW m \in Net, Elsewhere(m) PROVE LinkInv'
  <1>1. /\ UNCHANGED <<req, acted, audit, prior>>
        /\ \A n \in Net \ {m} : by'[n] = by[n] /\ link'[n] = link[n]
        /\ by'[m] = None
    BY DEF Elsewhere, past, TypeOK
  <1>2. PriorOver' /\ InTheirOrder' /\ \A r \in acted' : req'[r].pc # "new"
    BY <1>1 DEF LinkInv, PriorOver, InTheirOrder
  <1>3. ASSUME NEW n \in Net PROVE AsLastSet(n)' /\ SetInOrder(n)'
    <2>1. AsLastSet(n) /\ SetInOrder(n)
      BY DEF LinkInv
    <2>2. CASE n = m
      BY <1>1, <2>2 DEF AsLastSet, SetInOrder
    <2>3. CASE n # m
      BY <1>1, <2>1, <2>3 DEF AsLastSet, SetInOrder, AsWanted, Sets, Veth
    <2> QED BY <2>2, <2>3
  <1> QED BY <1>2, <1>3 DEF LinkInv

LEMMA ControlLink == 
  ASSUME TypeOK, LogInv, LinkInv, NEW r \in Req, 
         Handler(r) \/ CommandFails(r) \/ AuditFails(r)
  PROVE  LinkInv'
  <1>1. Steady
    BY HandlersGoOn, StepKeeps, SteadyStep DEF Onward
  <1>2. /\ UNCHANGED prior /\ req[r].pc \notin {"new", "done"}
        /\ \/ UNCHANGED <<set, audit>>
           \/ AuditWrite(r) /\ UNCHANGED set
           \/ /\ SetLink(r) /\ UNCHANGED audit
              /\ req[r].op \in {"isolate", "release"}
    BY DEF Handler, Freeze, Stop, Isolate, AuditControl, Report, CommandFails,
           AuditFails, Control, past
  <1> QED BY <1>1, <1>2, QuietLink, LogLink, SetLinkLink

LEMMA AdmissionLink == 
  ASSUME TypeOK, LogInv, LinkInv, NEW r \in Req, Idle,
         \/ CurrentAdmin(r) /\ UNCHANGED prior
         \/ \E k \in Key, op \in Op, l \in Lab : 
              Arrive(r, k, op, l) /\ prior' = [prior EXCEPT ![r] = Over]
  PROVE  LinkInv'
  <1>1. Keeps(r) /\ UNCHANGED <<set, audit>>
    BY StepKeeps DEF Idle
  <1>2. /\ req[r].pc # "done"
        /\ UNCHANGED prior \/ (req[r].pc = "new" 
                                 /\ prior' = [prior EXCEPT ![r] = Over])
    BY DEF CurrentAdmin, Select, Check, Arrive
  <1> QED BY <1>1, <1>2, SteadyStep, QuietLink

LEMMA TerminalLink == 
  ASSUME TypeOK, LogInv, LinkInv, NEW r \in Req, 
         \/ Terminal(r) \/ TtydFails(r) \/ ClientGoes(r) \/ Type(r) 
         \/ UpstreamEnds(r)
  PROVE  LinkInv'
  <1>1. Steady
    BY HandlersGoOn, StepKeeps, SteadyStep DEF Onward
  <1>2. /\ UNCHANGED <<set, prior>> /\ req[r].pc # "done"
        /\ UNCHANGED audit \/ AuditWrite(r)
    BY DEF Terminal, Attach, Reuse, Spawn, Register, Connect, ClientEnds, 
           GatherEnds, Kill, KillEnds, TtydFails, ClientGoes, Type, 
           UpstreamEnds, past
  <1> QED BY <1>1, <1>2, QuietLink, LogLink

LEMMA NextLink == TypeOK /\ LogInv /\ LinkInv /\ [Next]_vars => LinkInv'
  <1> SUFFICES ASSUME TypeOK, LogInv, LinkInv, [Next]_vars PROVE LinkInv'
    OBVIOUS
  <1>1. ASSUME UNCHANGED <<req, set, audit, prior>> PROVE LinkInv'
    <2>1. Steady
      BY <1>1 DEF Steady
    <2> QED BY <1>1, <2>1, QuietLink
  <1>2. CASE UNCHANGED vars \/ (Accounts /\ Idle /\ UNCHANGED prior)
    BY <1>1, <1>2 DEF vars, past, Accounts, Tick, Login, IssueSession, Logout, 
                      Idle
  <1>3. ASSUME NEW p \in Proc, TtydDies(p) PROVE LinkInv'
    BY <1>1, <1>3 DEF TtydDies, past
  <1>4. CASE Crash
    <2>1. \A r \in Req : /\ req'[r].op = req[r].op /\ req'[r].lab = req[r].lab
                         /\ req'[r].pc \in {req[r].pc, "done"}
      BY <1>4 DEF Crash, TypeOK, ReqTypeOK, Request
    <2>2. Steady /\ UNCHANGED <<set, audit, prior>>
      BY <1>4, <2>1 DEF Crash, Steady
    <2> QED BY <2>2, QuietLink
  <1> QED BY <1>2, <1>3, <1>4, ControlLink, AdmissionLink, TerminalLink, 
             ElsewhereLink DEF Next

\* What the log says of an interface, however requests overlap and fail and
\* whoever else sets it: if it is not as the last entry says, somebody without
\* an entry has set it, or an overlapping request whose entry says so.
THEOREM LinkExplainedCorrect == Spec => []LinkExplained
  BY InitLink, NextLink, LinkGivesExplained, LogInvariant, TypeCorrect, PTL 
     DEF Spec
=============================================================================
