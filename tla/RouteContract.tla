---------------------------- MODULE RouteContract ----------------------------
(***************************************************************************)
(* What a harness run promises about routes, whatever it does with         *)
(* messages, tools and context: which route can answer next, when the      *)
(* sticky route can change, and which route the caller's state carries     *)
(* after the run.  Module Harness implements it.                           *)
(***************************************************************************)
CONSTANTS
    Routes,   \* exact configured provider-models
    NoRoute   \* the absence of one

VARIABLES
    stored,    \* the sticky route of the caller's conversation state
    running,   \* a run is in progress
    current,   \* the sticky route of the run
    excluded   \* the route that failed in this turn, before visible output

routeVars == <<stored, running, current, excluded>>

MaybeRoute == Routes \cup {NoRoute}

Init ==
    /\ stored \in MaybeRoute
    /\ running = FALSE
    /\ current = NoRoute
    /\ excluded = NoRoute

Begin ==
    /\ ~running
    /\ running' = TRUE
    /\ current' = stored
    /\ excluded' = NoRoute
    /\ UNCHANGED stored

\* The sticky route failed before visible output: the only reason for another
\* route to answer, and one failure in a turn is all a run survives.
FailOver ==
    /\ running
    /\ current # NoRoute
    /\ excluded = NoRoute
    /\ excluded' = current
    /\ UNCHANGED <<stored, running, current>>

\* Without a failure the sticky route answers; after it any other route can.
MayAnswer(r) ==
    /\ excluded = NoRoute /\ current # NoRoute => r = current
    /\ r # excluded

\* One turn: the route that answers is sticky from here on.  The run goes on
\* with its tools, or ends and gives the route to the caller.
Answer(r) ==
    /\ running
    /\ MayAnswer(r)
    /\ current' = r
    /\ excluded' = NoRoute
    /\ \/ UNCHANGED <<stored, running>>
       \/ stored' = r /\ running' = FALSE

\* A failed run gives the caller nothing.
Abort ==
    /\ running
    /\ running' = FALSE
    /\ UNCHANGED <<stored, current, excluded>>

Next == Begin \/ FailOver \/ (\E r \in Routes : Answer(r)) \/ Abort

RouteSpec == Init /\ [][Next]_routeVars
=============================================================================
