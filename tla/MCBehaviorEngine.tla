-------------------------- MODULE MCBehaviorEngine --------------------------
(***************************************************************************)
(* Instances of BehaviorEngine for TLC: the students and sessions, what    *)
(* the events of a run may be, and what the classifier may answer.         *)
(***************************************************************************)
EXTENDS BehaviorEngine, TLC

CONSTANTS ann, bob, none
A1 == <<ann, 1>>
B1 == <<bob, 1>>

OneStudent == {A1}
TwoStudents == {A1, B1}

Event(key, kind, ts, what) == 
    [key |-> key, kind |-> kind, ts |-> ts, what |-> what, 
     cmd |-> kind \in {"shell_cmd", "tool_exec"}]

\* Commands and tools of two students in any order, a tool without arguments,
\* unattributed, unparsable and raising lines among them, and one session's
\* network events, stamped by clocks that run ahead and late, one of them
\* without a port.
Commands == {Event(A1, "shell_cmd", 0, "sh"), Event(B1, "tool_exec", 0, "nmap"),
             [Event(B1, "tool_exec", 0, "nmap") EXCEPT !.cmd = FALSE],
             Event(A1, "exec", NoTs, "sh"), Event(none, "exec", 0, "sh"),
             Event(none, "garbage", 0, "")}
Late == {Event(A1, "net_flow", t, 443) : t \in {0, 1, 2}}
          \cup {Event(A1, "net_flow", 2, NoPort)}
Broken == {Event(none, "broken", 0, "")}
MixedFeed == <<Commands \cup Late, Commands \cup Late \cup Broken, 
               Commands \cup Late>>

\* tests/ai-replay/recon.jsonl: nmap, a flow to port 443, a hydra command.
ReconFeed == <<{Event(A1, "tool_exec", 0, "nmap")}, 
               {Event(A1, "net_flow", 1, 443)}, 
               {Event(A1, "shell_cmd", 2, "hydra")}>>

\* The confidence is the model's own number: it may exceed 1.
AnyReply == [label : {"BENIGN", "RECON", "EXFIL"}, conf : {0, 70, 400}]
BestReply == [label : Label, conf : {100}]
NoTools == {"wireshark"}
NoPorts == {22}
===========================================================================
