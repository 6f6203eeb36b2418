---------------------------- MODULE AdminSession ----------------------------
(***************************************************************************)
(* Who is let in: the console's server-side sessions                       *)
(* (vitos-dashboard/backend/app/auth.py).  Handlers run in a pool of       *)
(* threads, so a request's lookup, the removal of a row it found expired,  *)
(* logins and logouts interleave; each SQL statement is atomic.            *)
(*                                                                         *)
(* A request goes through pc "new", "lookup", "check" and then "in", with  *)
(* the rights of req[r].user, or "done".                                   *)
(***************************************************************************)
EXTENDS Naturals

CONSTANTS User, Key, Req, \* people, session ids, requests
          None,
          Op, Lab,        \* what a request asks for, of which session
          Ttl,            \* SESSION_TTL
          MaxTime         \* bound

ASSUME TimeAssumption == Ttl \in Nat /\ MaxTime \in Nat
ASSUME NoneAssumption == None \notin User \cup Key \cup Req \cup Lab

VARIABLES now,     \* the clock
          rows,    \* the table: [user, expires] of a key, or None
          req,     \* the requests
          issued,  \* history: the row each key was issued with
          revoked  \* history: the keys logged out

auth == <<now, rows, issued, revoked>>

NewReq == [pc |-> "new", key |-> None, row |-> None, user |-> None,
           op |-> None, lab |-> None,
           at |-> 0,          \* history: when its row was checked
           before |-> FALSE]  \* history: its key was logged out when it came

AuthInit == /\ now = 0
            /\ rows = [k \in Key |-> None] 
            /\ req = [r \in Req |-> NewReq]
            /\ issued = [k \in Key |-> None] /\ revoked = {}

Tick == /\ now < MaxTime /\ now' = now + 1
        /\ UNCHANGED <<rows, req, issued, revoked>>

IssueSession(k, u) == 
    rows' = [rows EXCEPT ![k] = [user |-> u, expires |-> now + Ttl]]

\* PAM has accepted u and u is in vitos-admins, which is looked at only here;
\* the id is a fresh one.
Login(u) == /\ \E k \in Key : 
                 /\ issued[k] = None
                 /\ IssueSession(k, u)
                 /\ issued' = [issued EXCEPT ![k] = rows'[k]]
            /\ UNCHANGED <<now, req, revoked>>

\* Mutation: the cookie is deleted, the row is not.
RevokeSession_Keeps(k) == UNCHANGED rows
RevokeSession(k) == rows' = [rows EXCEPT ![k] = None]
Logout(k) == /\ issued[k] # None /\ k \notin revoked
             /\ RevokeSession(k)
             /\ revoked' = revoked \cup {k}
             /\ UNCHANGED <<now, req, issued>>

\* A request comes in with a key that its browser once got (requests are
\* alike: they come in a fixed order).
Arrive(r, k, op, l) == 
    /\ req[r].pc = "new" /\ r = CHOOSE q \in Req : req[q].pc = "new"
    /\ issued[k] # None
    /\ req' = [req EXCEPT ![r] = [NewReq EXCEPT 
                 !.pc = "lookup", !.key = k, !.op = op, !.lab = l,
                 !.before = k \in revoked]]
    /\ UNCHANGED auth

Select(r) == 
    /\ req[r].pc = "lookup"
    /\ req' = IF rows[req[r].key] = None 
              THEN [req EXCEPT ![r].pc = "done"]
              ELSE [req EXCEPT ![r].pc = "check", ![r].row = rows[req[r].key]]
    /\ UNCHANGED auth

\* Mutation: the comparison is turned around.
Expired_Reversed(row) == now < row.expires
Expired(row) == row.expires < now
Check(r) == 
    /\ req[r].pc = "check"
    /\ IF Expired(req[r].row)
       THEN /\ RevokeSession(req[r].key)
            /\ req' = [req EXCEPT ![r].pc = "done"]
       ELSE /\ req' = [req EXCEPT ![r].pc = "in", ![r].at = now,
                                  ![r].user = req[r].row.user, ![r].row = None]
            /\ UNCHANGED rows
    /\ UNCHANGED <<now, issued, revoked>>

CurrentAdmin(r) == Select(r) \/ Check(r)
Accounts == \/ Tick \/ \E u \in User : Login(u)
            \/ \E k \in Key : Logout(k)

-----------------------------------------------------------------------------
(* Properties.                                                             *)

Row == [user : User, expires : 0..(MaxTime + Ttl)]
AuthTypeOK == 
    /\ now \in 0..MaxTime /\ revoked \subseteq Key
    /\ rows \in [Key -> Row \cup {None}] /\ issued \in [Key -> Row \cup {None}]

\* A request that acts for a user came with a session issued to that user,
\* which had not expired when it was checked and had not been logged out
\* when the request came, whatever other requests did to the table meanwhile.
Authorised == 
    \A r \in Req : req[r].user # None => 
      /\ issued[req[r].key] # None /\ issued[req[r].key].user = req[r].user
      /\ req[r].at <= issued[req[r].key].expires
      /\ ~req[r].before
=============================================================================
