------------------------------ MODULE SseClient ------------------------------
(***************************************************************************)
(* A page of the console on the live events: useSSE (web/src/lib/sse.ts)   *)
(* as Network.tsx and Process.tsx use it, composed with EventStream.  Each *)
(* selection of a student runs an effect with an EventSource, a timer for  *)
(* its reconnection and a cleanup.  The delays are left out: a timer that  *)
(* is set fires at some time.                                              *)
(***************************************************************************)
EXTENDS EventStream

CONSTANTS None, MaxEffects, \* bound: effects, one per selection
          ItemCap           \* items the page keeps

ASSUME ClientAssumption == None \notin Student \cup Stream 
                           /\ MaxEffects \in Nat /\ ItemCap \in Nat \ {0}

VARIABLES url,  \* the selected student, or None before and after the visit
          eff,  \* the effects so far
          items \* what the page shows: the hook's state

client == <<url, eff, items>>
vars == <<svars, client>>

Init == SInit /\ url = None /\ eff = <<>> /\ items = <<>>

\* The effects of the page that is shown.
Shown == IF url = None THEN {} ELSE DOMAIN eff
Fresh == Stream \ (link \cup subs)
Effect(s, c) == [student |-> s, es |-> c, cancelled |-> FALSE,
                 timer |-> FALSE, 
                 late |-> FALSE] \* history: cancelled with its timer set

\* The cleanup of the last effect.  Mutation: it leaves the source open.
Cleanup_Open == [g \in DOMAIN eff |-> 
    IF g # Len(eff) THEN eff[g]
    ELSE [eff[g] EXCEPT !.cancelled = TRUE, !.late = eff[g].timer]]
Cleanup == [g \in DOMAIN eff |-> 
    IF g # Len(eff) THEN eff[g]
    ELSE [eff[g] EXCEPT !.cancelled = TRUE, !.late = eff[g].timer, !.es = None]]
Closed(new) == {eff[g].es : g \in {h \in DOMAIN eff : new[h].es # eff[h].es}}

\* connect() of effect g, whose source is then the stream c.
Connect(c, s, closed) == Register(c, s) /\ link' = (link \ closed) \cup {c}

Select(s) == 
    /\ s # url /\ Len(eff) < MaxEffects /\ (url # None \/ eff = <<>>)
    /\ \E c \in Fresh : /\ c = CHOOSE d \in Fresh : TRUE
                        /\ Connect(c, s, Closed(Cleanup))
                        /\ eff' = Append(Cleanup, Effect(s, c))
    /\ url' = s /\ items' = <<>>
    /\ UNCHANGED <<bus, loop>>

\* The page is left for good: coming back is another hook.
Unmount == /\ url # None
           /\ url' = None /\ items' = <<>>
           /\ eff' = Cleanup /\ link' = link \ Closed(Cleanup)
           /\ UNCHANGED <<bus, loop, subs, st>>

\* The server yields an event and onmessage shows it, unless the source is
\* closed or the page gone (the time in between changes nothing but when).
Message(c) == 
    /\ Yield(c)
    /\ items' = IF \E g \in Shown : eff[g].es = c
                THEN LastOf(Append(items, Head(Pending(c))), ItemCap) ELSE items
    /\ UNCHANGED <<url, eff>>

\* onerror.  Mutation: the source is closed and that is all.
OnError_NoRetry(g) == [eff EXCEPT ![g].es = None]
OnError(g) == [eff EXCEPT ![g].es = None, ![g].timer = ~eff[g].cancelled]

\* The server has gone, or (a fault of the budget) the network between.
Error(g) == /\ eff[g].es # None
            /\ \/ st[eff[g].es].pc = "none" /\ UNCHANGED fails
               \/ fails < MaxFails /\ fails' = fails + 1
            /\ eff' = OnError(g) /\ link' = link \ {eff[g].es}
            /\ UNCHANGED <<feed, up, loop, subs, st, url, items>>

\* The timer's connect() does not look at cancelled.
Fire(g) == /\ eff[g].timer
           /\ \E c \in Fresh : /\ c = CHOOSE d \in Fresh : TRUE
                               /\ Connect(c, eff[g].student, {})
                               /\ eff' = [eff EXCEPT ![g].timer = FALSE,
                                                     ![g].es = c]
           /\ UNCHANGED <<bus, loop, url, items>>

Browser == \/ \E s \in Student : Select(s)
           \/ Unmount
           \/ \E g \in DOMAIN eff : Error(g) \/ Fire(g)
Next == \/ Browser 
        \/ \E c \in Stream : Message(c)
        \/ Server /\ UNCHANGED client
Spec == Init /\ [][Next]_vars

\* The event loop and the browser run what can run, a closed connection is
\* noticed, timers fire.  Nothing makes the bus come back, broadcast or fail.
Generator(c) == Message(c) \/ ((Begin(c) \/ Finally(c)) /\ UNCHANGED client)
Reconnect(g) == g \in DOMAIN eff /\ (Fire(g) \/ (Error(g) /\ fails' = fails))
Fairness == /\ WF_vars((Dial \/ ReadLine \/ Eof) /\ UNCHANGED client)
            /\ \A c \in Stream : WF_vars(Generator(c))
            /\ \A g \in 1..MaxEffects : WF_vars(Reconnect(g))
FairSpec == Spec /\ Fairness

-----------------------------------------------------------------------------
(* Properties.                                                             *)

EffectState == [student : Student, es : Stream \cup {None},
                cancelled : BOOLEAN, timer : BOOLEAN, late : BOOLEAN]
\* The type invariant.
TypeOK == 
    /\ STypeOK
    /\ url \in Student \cup {None}
    /\ eff \in Seq(EffectState)
    /\ items \in Seq(1..MaxLines) /\ Len(items) <= ItemCap

\* The page shows one student's events, also after any number of selections,
\* errors and reconnections: what else it shows comes from an effect of this
\* visit that ended while its timer was set, the one way a source outlives
\* its effect.
ItemsOfUrl == 
    /\ \A i \in 1..Len(items) : 
         \/ feed[items[i]] = url
         \/ \E g \in Shown : eff[g].late /\ eff[g].student = feed[items[i]]
    /\ \A g \in DOMAIN eff : 
         (eff[g].cancelled /\ ~eff[g].late) => eff[g].es = None

\* _bus_loop's "reconnect-forever": while the bus stays, it is read again and
\* again, unless a line has raised out of the loop.
BusLoopReturns == 
    <>[]up => (<>(task = "dead" /\ Poison \in Elems(feed)) 
               \/ []<>(task = "reading"))

\* A page that lost its stream gets another one, as long as it is shown.
Reopens == 
    \A g \in 1..MaxEffects : 
      (g \in DOMAIN eff /\ g = Len(eff) /\ url # None) ~> 
        \/ url = None \/ g # Len(eff) \/ Fresh = {}
        \/ (eff[g].es # None /\ st[eff[g].es].pc # "none")

\* An event of its student that the bus has sent to the dashboard reaches a
\* page with a live stream, whatever the other streams do, unless the stream
\* breaks, its own queue is full, or the loop over the bus ends first.
Source == IF url = None THEN None ELSE eff[Len(eff)].es
Awaited(e) == /\ e \in 1..Len(feed) /\ feed[e] = url 
              /\ Source \in subs /\ e \notin st[Source].dropped
EventuallyShown == 
    \A e \in 1..MaxLines : 
      (e \in Elems(sock) /\ Awaited(e)) ~> 
        (e \in Elems(items) \/ ~Awaited(e) \/ eof \/ task # "reading")
=============================================================================
