------------------------------ MODULE Dashboard ------------------------------
(***************************************************************************)
(* The console's requests: session control (sessions.py over vitosctl),    *)
(* reports (reports.py), terminals (ttyd_proxy.py) and the audit log       *)
(* (audit.py), behind AdminSession.  Each request runs once.               *)
(*                                                                         *)
(* Requests interleave between their statements (control, reports: threads *)
(* and processes) or between their awaits (terminals: one event loop).     *)
(***************************************************************************)
EXTENDS AdminSession, Sequences

CONSTANTS Net, VethOf,  \* interface names: vitos-<first eight characters>
          Proc,         \* ttyd processes, each started once
          MaxFaults     \* bound: crashes, ttyds that die, commands and writes
                        \* that fail, commands run past the console

ASSUME VethAssumption == VethOf \in [Lab -> Net] /\ MaxFaults \in Nat
ASSUME OpAssumption == Op \subseteq {"freeze", "isolate", "release", "report",
                                     "ro", "rw", "kill"}

VARIABLES link,   \* "up" or "down"
          audit,  \* dashboard-audit.jsonl: the requests, in the file's order
          proc,   \* the ttyds
          inst,   \* _instances
          lock,   \* the request that holds ttyd_proxy's _lock, or None
          term,   \* each request's terminal: its ttyd and its bridge
          faults,
          ran,    \* history: the requests whose command has run, without
                  \* those whose entry a crash or a failing write took
          acted,  \* history: the requests for which ip has set an interface
          by,     \* history: the request that set an interface last, None if
                  \* nobody did or it was set past the console
          prior   \* history: the requests that were over when this one came

ttyds == <<proc, inst, lock, term>>
set == <<link, acted, by>>
past == <<ran, prior>>
vars == <<auth, req, set, audit, ttyds, faults, past>>

\* The end of the request closes both sides.
Closed(t) == [t EXCEPT !.client = FALSE, !.c2u = FALSE, !.u2c = FALSE]

NoTerm == [p |-> None, client |-> TRUE, c2u |-> TRUE, u2c |-> TRUE,
           typed |-> FALSE] \* history: a read-only request has typed

Init == /\ AuthInit
        /\ link = [n \in Net |-> "up"]
        /\ audit = <<>> 
        /\ proc = [p \in Proc |-> [st |-> "none", lab |-> None, rw |-> FALSE]]
        /\ inst = [l \in Lab |-> None] /\ lock = None
        /\ term = [r \in Req |-> NoTerm]
        /\ faults = 0 /\ ran = {} /\ acted = {}
        /\ by = [n \in Net |-> None] /\ prior = [r \in Req |-> {}]

Veth(r) == VethOf[req[r].lab]
Sets(r, n) == req[r].op \in {"isolate", "release"} /\ Veth(r) = n
Goto(r, pc) == req' = [req EXCEPT ![r].pc = pc]
Control == {"freeze", "isolate", "release"}
Fault == faults < MaxFaults /\ faults' = faults + 1

-----------------------------------------------------------------------------
(* sessions.py and vitosctl session.                                       *)

\* The command has ended with status 0.
Ran(r) == /\ Goto(r, "ran")
          /\ ran' = ran \cup {r}

\* vitosctl session freeze: without a pid file it says so and succeeds; the
\* process of the pid it read may be gone when it is stopped, an error.  Which
\* sessions there are is open.
Freeze(r) == 
    /\ req[r].pc = "in" /\ req[r].op = "freeze"
    /\ Ran(r) \/ (Goto(r, "kill") /\ UNCHANGED ran)
    /\ UNCHANGED <<auth, set, audit, ttyds, faults, prior>>
Stop(r) == 
    /\ req[r].pc = "kill"
    /\ Ran(r) \/ (Goto(r, "done") /\ UNCHANGED ran)
    /\ UNCHANGED <<auth, set, audit, ttyds, faults, prior>>

\* vitosctl session isolate [--revert].  Mutation: the flag is passed on.
LinkState_Flag(op) == IF op = "release" THEN "--revert" ELSE "down"
LinkState(op) == IF op = "release" THEN "up" ELSE "down"
SetLink(r) == /\ link' = [link EXCEPT ![Veth(r)] = LinkState(req[r].op)]
              /\ by' = [by EXCEPT ![Veth(r)] = r]
              /\ acted' = acted \cup {r}

\* Mutation: the command is started and not waited for.
Isolate_Detached(r) == 
    /\ req[r].op \in {"isolate", "release"}
    /\ \/ req[r].pc = "in" /\ Ran(r) /\ UNCHANGED set
       \/ r \in ran \ acted /\ SetLink(r) /\ UNCHANGED <<req, ran>>
    /\ UNCHANGED <<auth, audit, ttyds, faults, prior>>

\* What ip says is not looked at.
Isolate(r) == 
    /\ req[r].pc = "in" /\ req[r].op \in {"isolate", "release"}
    /\ \/ SetLink(r) /\ UNCHANGED faults
       \/ Fault /\ UNCHANGED set
    /\ Ran(r)
    /\ UNCHANGED <<auth, audit, ttyds, prior>>

\* vitosctl is missing or exits with an error, before or after ip has done its
\* work: 500, and nothing is logged.
CommandFails(r) == 
    /\ req[r].pc = "in" /\ req[r].op \in Control /\ Fault
    /\ UNCHANGED set \/ (req[r].op # "freeze" /\ SetLink(r))
    /\ Goto(r, "done")
    /\ UNCHANGED <<auth, audit, ttyds, past>>

\* The same command past the console: an administrator types it in a shell, or
\* the engine runs it on a session it finds Critical (as shipped it finds none:
\* LearningMode of BehaviorEngine).  Nothing is logged here.
Elsewhere(n) == 
    /\ \E s \in {"up", "down"} : link' = [link EXCEPT ![n] = s]
    /\ by' = [by EXCEPT ![n] = None] /\ Fault
    /\ UNCHANGED <<auth, req, acted, audit, ttyds, past>>

\* audit.write.  Mutation: the file is opened to write, not to append.
AuditWrite_Truncates(r) == audit' = <<r>>
AuditWrite(r) == audit' = Append(audit, r)
AuditControl(r) == 
    /\ req[r].pc = "ran"
    /\ AuditWrite(r) /\ Goto(r, "done")
    /\ UNCHANGED <<auth, set, ttyds, faults, past>>

\* It raises, on a full disk or a missing directory: the request ends there,
\* after its command or before its report or terminal.
AuditFails(r) == 
    /\ \/ req[r].pc = "ran"
       \/ req[r].pc = "in" /\ req[r].op \in {"report", "ro", "rw"}
    /\ Fault /\ Goto(r, "done") /\ ran' = ran \ {r}
    /\ UNCHANGED <<auth, set, audit, ttyds, prior>>

\* A report is logged before it is made.
Report(r) == /\ req[r].pc = "in" /\ req[r].op = "report"
             /\ AuditWrite(r) /\ Goto(r, "done")
             /\ UNCHANGED <<auth, set, ttyds, faults, past>>

-----------------------------------------------------------------------------
(* ttyd_proxy.py.                                                          *)

Alive(p) == p # None /\ proc[p].st = "alive"

Attach(r) == /\ req[r].pc = "in" /\ req[r].op \in {"ro", "rw"}
             /\ AuditWrite(r) /\ Goto(r, "ensure")
             /\ UNCHANGED <<auth, set, ttyds, faults, past>>

\* Mutation: no lock.
LockFree_Always == TRUE
LockFree == lock = None

\* The ttyd of the session is there: it is used, whatever mode it has.
Reuse(r) == /\ req[r].pc = "ensure" /\ LockFree /\ Alive(inst[req[r].lab])
            /\ term' = [term EXCEPT ![r].p = inst[req[r].lab]]
            /\ Goto(r, "connect")
            /\ UNCHANGED <<auth, set, audit, proc, inst, lock, faults, past>>

\* Mutation: -R is forgotten.
Writable_Always(r) == TRUE
Writable(r) == req[r].op = "rw"
Spawn(r) == 
    /\ req[r].pc = "ensure" /\ LockFree /\ ~Alive(inst[req[r].lab])
    /\ \E p \in {q \in Proc : proc[q].st = "none"} : 
         /\ p = CHOOSE q \in Proc : proc[q].st = "none"
         /\ proc' = [proc EXCEPT ![p] = [st |-> "alive", lab |-> req[r].lab,
                                         rw |-> Writable(r)]]
         /\ term' = [term EXCEPT ![r].p = p]
    /\ lock' = r /\ Goto(r, "spawned")
    /\ UNCHANGED <<auth, set, audit, inst, faults, past>>

\* ttyd is not installed, cannot be started, or still does not listen when the
\* bridge connects.
TtydFails(r) == /\ \/ /\ req[r].pc = "ensure" /\ LockFree 
                      /\ ~Alive(inst[req[r].lab])
                   \/ req[r].pc = "connect"
                /\ Fault /\ Goto(r, "done")
                /\ UNCHANGED <<auth, set, audit, ttyds, past>>

\* It has answered, or was waited for in vain.
Register(r) == /\ req[r].pc = "spawned"
               /\ inst' = [inst EXCEPT ![req[r].lab] = term[r].p]
               /\ lock' = None /\ Goto(r, "connect")
               /\ UNCHANGED <<auth, set, audit, proc, term, faults, past>>

\* accept(), and the connection to ttyd: refused, the request ends.
Connect(r) == 
    /\ req[r].pc = "connect"
    /\ Goto(r, IF Alive(term[r].p) THEN "bridge" ELSE "done")
    /\ UNCHANGED <<auth, set, audit, ttyds, faults, past>>

\* (A client that goes before the bridge is noticed only by the bridge.)
ClientGoes(r) == /\ req[r].pc = "bridge" /\ term[r].client
                 /\ term' = [term EXCEPT ![r].client = FALSE]
                 /\ UNCHANGED <<auth, req, set, audit, proc, inst, lock, 
                                faults, past>>

\* client_to_upstream: a keystroke; after the end of ttyd it raises, which
\* ends the gather.
Type(r) == 
    /\ req[r].pc = "bridge" /\ term[r].c2u /\ term[r].client
    /\ IF Alive(term[r].p) 
       THEN /\ proc[term[r].p].rw
            /\ term' = [term EXCEPT ![r].typed = req[r].op = "ro"]
            /\ UNCHANGED req
       ELSE /\ Goto(r, "done") 
            /\ term' = [term EXCEPT ![r] = Closed(@)]
    /\ UNCHANGED <<auth, set, audit, proc, inst, lock, faults, past>>

\* It returns when the client has gone.  Mutation: it waits on.
Disconnected_Ignored(r) == FALSE
Disconnected(r) == ~term[r].client
ClientEnds(r) == 
    /\ req[r].pc = "bridge" /\ term[r].c2u /\ Disconnected(r)
    /\ term' = [term EXCEPT ![r].c2u = FALSE]
    /\ UNCHANGED <<auth, req, set, audit, proc, inst, lock, faults, past>>

\* upstream_to_client returns when ttyd has gone, or when it has output for a
\* client that has.
UpstreamEnds(r) == 
    /\ req[r].pc = "bridge" /\ term[r].u2c 
    /\ ~Alive(term[r].p) \/ ~term[r].client
    /\ term' = [term EXCEPT ![r].u2c = FALSE]
    /\ UNCHANGED <<auth, req, set, audit, proc, inst, lock, faults, past>>

GatherEnds(r) == 
    /\ req[r].pc = "bridge" /\ ~term[r].c2u /\ ~term[r].u2c
    /\ Goto(r, "done") /\ term' = [term EXCEPT ![r] = Closed(@)]
    /\ UNCHANGED <<auth, set, audit, proc, inst, lock, faults, past>>

\* DELETE: forgotten at once, then asked to end.
Kill(r) == 
    /\ req[r].pc = "in" /\ req[r].op = "kill" /\ LockFree
    /\ inst' = [inst EXCEPT ![req[r].lab] = None]
    /\ term' = [term EXCEPT ![r].p = inst[req[r].lab]]
    /\ Goto(r, IF Alive(inst[req[r].lab]) THEN "killing" ELSE "done")
    /\ UNCHANGED <<auth, set, audit, proc, lock, faults, past>>

Dies(p) == proc' = [proc EXCEPT ![p].st = "dead"]
\* wait() has returned, or two seconds are over.
KillEnds(r) == 
    /\ req[r].pc = "killing"
    /\ Goto(r, "done") /\ Dies(term[r].p)
    /\ UNCHANGED <<auth, set, audit, inst, lock, term, faults, past>>

\* A ttyd ends: on SIGTERM, or by itself.
TtydDies(p) == 
    /\ Alive(p) /\ Dies(p)
    /\ (\E r \in Req : req[r].pc = "killing" /\ term[r].p = p /\ UNCHANGED faults)
         \/ Fault
    /\ UNCHANGED <<auth, req, set, audit, inst, lock, term, past>>

-----------------------------------------------------------------------------

\* The dashboard dies, with its requests and, in its control group, its ttyds.
\* The table and the audit log stay.
Crash == 
    /\ Fault
    /\ LET lost == {r \in Req : req[r].pc \notin {"new", "done"}}
           silent == {r \in lost : req[r].pc = "ran"}
       IN  /\ req' = [r \in Req |-> IF r \in lost 
                                    THEN [req[r] EXCEPT !.pc = "done"]
                                    ELSE req[r]]
           /\ term' = [r \in Req |-> IF r \in lost THEN Closed(term[r]) 
                                     ELSE term[r]]
           /\ ran' = ran \ silent
    /\ proc' = [p \in Proc |-> IF Alive(p) THEN [proc[p] EXCEPT !.st = "dead"]
                               ELSE proc[p]]
    /\ inst' = [l \in Lab |-> None] /\ lock' = None
    /\ UNCHANGED <<auth, set, audit, prior>>

Idle == UNCHANGED <<set, audit, ttyds, faults, ran>>
Over == {q \in Req : req[q].pc = "done"}
Handler(r) == Freeze(r) \/ Stop(r) \/ Isolate(r) \/ AuditControl(r) \/ Report(r)
Terminal(r) == Attach(r) \/ Reuse(r) \/ Spawn(r) \/ Register(r) \/ Connect(r) 
                 \/ ClientEnds(r) \/ GatherEnds(r) \/ Kill(r) \/ KillEnds(r)
Next == 
    \/ (Accounts \/ \E r \in Req : CurrentAdmin(r)) /\ Idle /\ UNCHANGED prior
    \/ \E r \in Req, k \in Key, op \in Op, l \in Lab : 
         Arrive(r, k, op, l) /\ Idle /\ prior' = [prior EXCEPT ![r] = Over]
    \/ \E r \in Req : \/ Handler(r) \/ CommandFails(r) \/ AuditFails(r)
                      \/ Terminal(r) \/ TtydFails(r) \/ ClientGoes(r)
                      \/ Type(r) \/ UpstreamEnds(r)
    \/ \E n \in Net : Elsewhere(n)
    \/ \E p \in Proc : TtydDies(p)
    \/ Crash
Spec == Init /\ [][Next]_vars

\* Threads and coroutines run while they can and the end of a ttyd is noticed;
\* nobody has to type, leave, print or fail.
UpstreamGone(r) == UpstreamEnds(r) /\ ~Alive(term[r].p)
Fairness == \A r \in Req : WF_vars(Terminal(r) \/ UpstreamGone(r))
FairSpec == Spec /\ Fairness

-----------------------------------------------------------------------------
(* Properties.                                                             *)

Pcs == {"new", "lookup", "check", "in", "kill", "ran", "ensure", "spawned",
        "connect", "bridge", "killing", "done"}
Request == [pc : Pcs, key : Key \cup {None}, row : Row \cup {None}, 
            user : User \cup {None}, op : Op \cup {None}, 
            lab : Lab \cup {None}, at : 0..MaxTime, before : BOOLEAN]
Ttyd == [st : {"none", "alive", "dead"}, lab : Lab \cup {None}, rw : BOOLEAN]
Bridge == [p : Proc \cup {None}, client : BOOLEAN, c2u : BOOLEAN, 
           u2c : BOOLEAN, typed : BOOLEAN]
ReqTypeOK == 
    /\ req \in [Req -> Request] 
    /\ \A r \in Req : 
         /\ req[r].pc # "new" => 
              req[r].key \in Key /\ req[r].op \in Op /\ req[r].lab \in Lab
         /\ req[r].pc = "check" => req[r].row \in Row
\* The type invariant.
TypeOK == 
    /\ AuthTypeOK /\ ReqTypeOK
    /\ link \in [Net -> {"up", "down"}] /\ audit \in Seq(Req)
    /\ proc \in [Proc -> Ttyd] /\ term \in [Req -> Bridge]
    /\ inst \in [Lab -> Proc \cup {None}] /\ lock \in Req \cup {None}
    /\ faults \in 0..MaxFaults /\ ran \subseteq Req /\ acted \subseteq Req
    /\ by \in [Net -> Req \cup {None}] /\ prior \in [Req -> SUBSET Req]

\* The audit log tells what was done: each command that ran and each terminal
\* that was given is in it, once, under an admitted user, and no command that
\* did not run; only a crash between a command and its entry, or the failing
\* write of that entry, hides one.
Logged == {audit[i] : i \in 1..Len(audit)}
Audited == 
    /\ \A i, j \in 1..Len(audit) : audit[i] = audit[j] => i = j
    /\ \A r \in Logged : /\ req[r].user # None
                         /\ req[r].op \in Control => r \in ran
    /\ \A r \in ran : req[r].pc = "done" => r \in Logged
    /\ \A r \in Req : 
         req[r].op \in {"ro", "rw"} /\ term[r].p # None => r \in Logged

\* The audit log captures who did what when (sp5 design, line 198), as far as
\* it can: the entries of two requests are in the order of the requests,
\* unless these overlapped.  So an interface that is not as the last entry
\* about it says (its ip having worked) was set by somebody without an entry
\* (elsewhere, by a command that is about to be logged or never will), or by
\* a request that overlapped that last one and whose entry says it.
Settings(n) == {i \in 1..Len(audit) : Sets(audit[i], n)}
LastEntry(n, r) == 
    \E i \in Settings(n) : audit[i] = r /\ \A j \in Settings(n) : j <= i
AsWanted(n, r) == link[n] = "down" <=> req[r].op = "isolate"
Overlap(q, r) == q \notin prior[r] /\ r \notin prior[q]
InTheirOrder == 
    \A i, j \in 1..Len(audit) : i < j => audit[j] \notin prior[audit[i]]
LinkExplained == 
    /\ InTheirOrder
    /\ \A n \in Net, r \in acted : LastEntry(n, r) => 
         \/ AsWanted(n, r)
         \/ by[n] \notin Logged
         \/ AsWanted(n, by[n]) /\ Overlap(by[n], r)

\* No ttyd is left running that the dashboard has forgotten: it is the
\* session's instance, about to become it, or being killed, and whoever
\* kills it ends only when it is dead.
NoOrphan == 
    \A p \in Proc : Alive(p) => 
      \/ inst[proc[p].lab] = p
      \/ \E r \in Req : req[r].pc \in {"spawned", "killing"} /\ term[r].p = p

\* A writable terminal exists only where somebody asked for one, on record.
WritableAsked == 
    \A p \in Proc : proc[p].rw => 
      \E r \in Logged : req[r].op = "rw" /\ req[r].lab = proc[p].lab

\* ttyd_proxy.py:4: "Read-only by default - admin must pass ?write=1 to enable
\* keystroke pass-through".
ReadOnlyTerminal == \A r \in Req : req[r].op = "ro" => ~term[r].typed

\* Every request for a terminal gets past the lock, which another one may hold
\* or wait for, and a bridge with nobody at either end is taken down.
TerminalEnds == 
    \A r \in Req : 
      /\ (req[r].pc \in {"ensure", "spawned"}) ~> 
           (req[r].pc \in {"connect", "bridge", "done"} 
              \/ \A p \in Proc : proc[p].st # "none")
      /\ (req[r].pc = "bridge" /\ ~term[r].client /\ ~Alive(term[r].p)) ~> 
           (req[r].pc = "done")
=============================================================================
