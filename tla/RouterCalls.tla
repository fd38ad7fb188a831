----------------------------- MODULE RouterCalls -----------------------------
(***************************************************************************)
(* RouterClient as the model caller of harness runs: what becomes of the   *)
(* model calls of concurrent turns on their way through                    *)
(* ConversationHarness._call_model, RouterClient.__call__ and the request  *)
(* it runs in a thread.  One turn makes an exact call on its sticky route, *)
(* an assignment call, or one after the other.                             *)
(*                                                                         *)
(* A cancelled turn leaves its thread and its request behind, and a        *)
(* request whose answer is lost may still reach the Router.                *)
(***************************************************************************)
EXTENDS Integers, Sequences, FiniteSets

CONSTANTS
    Turns,   \* the turns of any number of runs
    Sticky,  \* those that have a sticky route
    Workers  \* the threads of the event loop's default executor

ASSUME CallsAssumption ==
    /\ Sticky \subseteq Turns
    /\ Workers \in Nat \ {0}

Selectors == {"exact", "assignment"}
Calls == Turns \X Selectors

VARIABLES
    pc,       \* for each turn: "ready", the selector of the call it awaits, "done"
    queue,    \* the calls no thread has taken, those of cancelled turns included
    running,  \* the calls in a thread
    router,   \* for each call: "none", "sent", or how the Router took it
    answer,   \* for each call: how model_call ended in its thread
    outcome   \* for each turn: how _call_model ended

vars == <<pc, queue, running, router, answer, outcome>>

Init ==
    /\ pc = [t \in Turns |-> "ready"]
    /\ queue = <<>>
    /\ running = {}
    /\ router = [c \in Calls |-> "none"]
    /\ answer = [c \in Calls |-> "none"]
    /\ outcome = [t \in Turns |-> "none"]

Current(t) == <<t, pc[t]>>

Waiting(t) == pc[t] \in Selectors

\* asyncio.to_thread puts the call in the queue of the executor.
Await(t, selector) ==
    /\ pc' = [pc EXCEPT ![t] = selector]
    /\ queue' = Append(queue, <<t, selector>>)

-----------------------------------------------------------------------------
\* ConversationHarness._call_model and RouterClient.__call__.

CallModel(t) ==
    /\ pc[t] = "ready"
    /\ Await(t, IF t \in Sticky THEN "exact" ELSE "assignment")
    /\ UNCHANGED <<running, router, answer, outcome>>

\* Fault: a lost connection counts as a failure before visible output.
RaisedBefore(ending) == IF ending \in {"reported", "lost"} THEN "before" ELSE ending

\* What __call__ raises for an error of model_call: a ModelCallError with the
\* phase "before" or "uncertain", or the error itself.
Raised(ending) ==
    CASE ending = "reported" -> "before"
      [] ending = "lost" -> "uncertain"
      [] OTHER -> ending

Done(t, result) ==
    /\ pc' = [pc EXCEPT ![t] = "done"]
    /\ outcome' = [outcome EXCEPT ![t] = result]

Failed(t) == Waiting(t) /\ answer[Current(t)] \notin {"none", "result"}

ReturnResult(t) ==
    /\ Waiting(t)
    /\ answer[Current(t)] = "result"
    /\ Done(t, "result")
    /\ UNCHANGED <<queue, running, router, answer>>

Replace(t) ==
    /\ pc[t] = "exact"
    /\ Await(t, "assignment")
    /\ UNCHANGED <<running, router, answer, outcome>>

\* Fault: an uncertain failure is replaced too.
FallBackUncertain(t) ==
    Failed(t) /\ Raised(answer[Current(t)]) \in {"before", "uncertain"} /\ Replace(t)

\* The exact call failed before visible output: one more call, by assignment.
FallBack(t) == Failed(t) /\ Raised(answer[Current(t)]) = "before" /\ Replace(t)

\* ModelCall refuses its arguments, for example with one more excluded route.
RejectCall(t) ==
    /\ \/ pc[t] = "ready"
       \/ pc[t] = "exact" /\ Failed(t) /\ Raised(answer[Current(t)]) = "before"
    /\ Done(t, "value")
    /\ UNCHANGED <<queue, running, router, answer>>

RaiseError(t) ==
    /\ Failed(t)
    /\ pc[t] = "exact" => Raised(answer[Current(t)]) # "before"
    /\ Done(t, Raised(answer[Current(t)]))
    /\ UNCHANGED <<queue, running, router, answer>>

\* The thread of the call, if there is one, goes on.
Cancel(t) ==
    /\ Waiting(t)
    /\ Done(t, "cancelled")
    /\ UNCHANGED <<queue, running, router, answer>>

-----------------------------------------------------------------------------
\* RouterClient.model_call, in a thread.

HasWork == queue # <<>> /\ Cardinality(running) < Workers

IsAwaited(c) == pc[c[1]] = c[2]

\* The future of a cancelled turn is cancelled too: its call is not begun.
SkipCancelled ==
    /\ HasWork
    /\ ~IsAwaited(Head(queue))
    /\ queue' = Tail(queue)
    /\ UNCHANGED <<pc, running, router, answer, outcome>>

\* The request is on its way to the Router.
SendRequest ==
    /\ HasWork
    /\ IsAwaited(Head(queue))
    /\ queue' = Tail(queue)
    /\ running' = running \cup {Head(queue)}
    /\ router' = [router EXCEPT ![Head(queue)] = "sent"]
    /\ UNCHANGED <<pc, answer, outcome>>

\* A body with the service key in it, or one that is no JSON: nothing is sent.
RejectRequest ==
    /\ HasWork
    /\ IsAwaited(Head(queue))
    /\ queue' = Tail(queue)
    /\ answer' = [answer EXCEPT ![Head(queue)] = "value"]
    /\ UNCHANGED <<pc, running, router, outcome>>

\* Fault: the thread of an ended call is not given back.
EndCallKeepThread(c, ending) ==
    /\ c \in running
    /\ answer' = [answer EXCEPT ![c] = ending]
    /\ UNCHANGED <<pc, queue, running, router, outcome>>

EndCall(c, ending) ==
    /\ c \in running
    /\ running' = running \ {c}
    /\ answer' = [answer EXCEPT ![c] = ending]
    /\ UNCHANGED <<pc, queue, router, outcome>>

ReadResult(c) == router[c] = "executed" /\ EndCall(c, "result")

\* provider_unavailable or upstream_failed, or any other error of the native API.
ReadError(c) ==
    /\ router[c] = "refused"
    /\ EndCall(c, "reported") \/ EndCall(c, "api")

\* An answer that breaks the contract: its size, headers, JSON or fields, its
\* status, its output format, or a route the call does not allow.  It may be that of
\* a gateway, whatever the Router does.
ReadInvalid(c) == EndCall(c, "protocol")

\* A ValueError that nothing on the way up turns into a protocol error: for an integer
\* of too many digits, in the answer or in the arguments of a tool call in it, and for
\* two tool calls of one ID.  The caller sees what RejectCall and RejectRequest raise.
ReadUnreadable(c) == EndCall(c, "value")

\* A timeout or any failure of the transport: RouterTransportError.
LoseConnection(c) == EndCall(c, "lost")

-----------------------------------------------------------------------------
\* The Router takes a request at any time, or never, and reports an error only if
\* it has no result.
Take(c) ==
    /\ router[c] = "sent"
    /\ \E how \in {"executed", "refused"} : router' = [router EXCEPT ![c] = how]
    /\ UNCHANGED <<pc, queue, running, answer, outcome>>

-----------------------------------------------------------------------------
TurnStep(t) ==
    \/ CallModel(t) \/ RejectCall(t) \/ ReturnResult(t) \/ FallBack(t)
    \/ RaiseError(t) \/ Cancel(t)

ThreadStep(c) ==
    \/ ReadResult(c) \/ ReadError(c) \/ ReadInvalid(c) \/ ReadUnreadable(c)
    \/ LoseConnection(c)

Pool == SkipCancelled \/ SendRequest \/ RejectRequest

Next ==
    \/ \E t \in Turns : TurnStep(t)
    \/ Pool
    \/ \E c \in Calls : ThreadStep(c) \/ Take(c)

Spec == Init /\ [][Next]_vars

\* The event loop resumes a turn whose call has ended, a free thread takes the
\* first call, and a request ends: its socket operations have timeouts.
Fairness ==
    /\ WF_vars(Pool)
    /\ \A c \in Calls : WF_vars(ThreadStep(c))
    /\ \A t \in Turns : WF_vars(ReturnResult(t) \/ FallBack(t) \/ RaiseError(t))

FairSpec == Spec /\ Fairness

-----------------------------------------------------------------------------
Taken == {"sent", "executed"}

\* The variables of turns, threads and requests have their types.
TypeOK ==
    /\ pc \in [Turns -> Selectors \cup {"ready", "done"}]
    /\ queue \in Seq(Calls)
    /\ running \subseteq Calls
    /\ router \in [Calls -> {"none", "sent", "executed", "refused"}]
    /\ answer \in [Calls -> {"none", "result", "reported", "api", "protocol", "lost",
                             "value"}]
    /\ outcome \in [Turns -> {"none", "result", "before", "uncertain", "api", "protocol",
                              "value", "cancelled"}]

\* A turn is paid for once: the Router never executes both calls of a turn, also not
\* when a request the client gave up on, or a cancelled one, arrives later.
ExecutedOnce ==
    \A t \in Turns :
        ~ (router[<<t, "exact">>] \in Taken /\ router[<<t, "assignment">>] \in Taken)

\* How a turn ends tells what the Router did: with a result it executed a call, and
\* with an error of its native API, or one before visible output, it executed none and
\* has none left to execute.  An uncertain error, a protocol error, a cancellation and
\* a ValueError, which refused arguments and an executed call share, leave it open.
EndTellsExecution ==
    \A t \in Turns :
        /\ outcome[t] = "result" => \E s \in Selectors : router[<<t, s>>] = "executed"
        /\ outcome[t] \in {"before", "api"} =>
              \A s \in Selectors : router[<<t, s>>] \notin Taken

\* Every turn ends, also when cancelled turns have left their calls in all threads.
TurnsEnd == \A t \in Turns : pc[t] # "ready" ~> pc[t] = "done"
=============================================================================
