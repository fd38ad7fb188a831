------------------------------- MODULE Harness -------------------------------
(***************************************************************************)
(* ConversationHarness.run: the multi-turn loop over context reduction, a  *)
(* model call with one fallback, and the caller's tools.                   *)
(*                                                                         *)
(* The caller holds an immutable ConversationState, starts one run on it   *)
(* at a time, and adopts the state a successful run returns.  The model    *)
(* caller, the compactor and the tools are ports the caller supplies: each *)
(* may answer anything its type allows, raise, or be cancelled with the    *)
(* run while it is awaited.                                                *)
(***************************************************************************)
EXTENDS Conversation

CONSTANTS
    Routes, NoRoute,     \* exact provider-models, and none
    FirstStates,         \* the conversations the caller may start with
    Questions,           \* user messages the caller may add between runs
    Answers,             \* assistant messages the model may return
    Compactions,         \* what the compactor may return
    Executor,            \* "sequential", or a "custom" tool executor
    ExecutorResults,     \* result IDs a custom tool executor may return
    ResultBodies,        \* payloads of a tool result message
    Limits,              \* config.context.limits
    Policies,            \* what config.context may say, see Reductions
    MaxModelTurns,       \* config.max_model_turns
    MaxMessages,         \* _MAXIMUM_MESSAGES of a call and of a conversation
    MaxCallBytes,        \* _MAXIMUM_MODEL_CALL_JSON_BYTES
    CallBytes,           \* a call's JSON besides its messages
    ExclusionBytes       \* what an excluded route adds to it

\* The method "prune", or "model" with a compaction_failure of "stop" or "prune".
Reductions == {"prune", "model or stop", "model or prune"}

ASSUME HarnessAssumption ==
    /\ NoRoute \notin Routes
    /\ MaxModelTurns \in Nat \ {0}
    /\ MaxMessages \in Nat \ {0}
    /\ Limits \in [messages : 1 .. MaxMessages, bytes : Nat \ {0}]
    /\ Policies \subseteq Reductions
    /\ FirstStates \subseteq Seq(Message)
    /\ Questions \subseteq Message
    /\ Answers \subseteq Message
    /\ Compactions \subseteq Seq(Message)
    /\ Executor \in {"sequential", "custom"}
    /\ ExecutorResults \subseteq Seq(CallIds)
    /\ ResultBodies \subseteq Bodies
    /\ \A ms \in FirstStates : ms # <<>> /\ IsConversation(ms) /\ Len(ms) <= MaxMessages
    /\ \A m \in Questions : m.role = "user"
    /\ \A m \in Answers : IsAnswer(m)

VARIABLES
    policy,    \* config.context of the harness, never changed
    held,      \* the caller's ConversationState
    pc,        \* where the run is, or "idle"
    messages,  \* the run's messages
    sticky,    \* the run's route.sticky
    excluded,  \* the route that failed in this turn (excluded_routes)
    turn,      \* the turn of the for loop
    results,   \* the IDs of the tool results of this turn so far
    outcome,   \* how the last run ended
    effects,   \* history: the IDs of the tool calls this run has executed
    reduced    \* history: this conversation has lost messages to reduction

vars == <<policy, held, pc, messages, sticky, excluded, turn, results, outcome,
          effects, reduced>>
context == <<policy, messages, sticky, excluded, turn, results>>
history == <<effects, reduced>>

Errors == { "RouterContractError", "InvalidConversationError", "CompactionError",
            "ModelCallError", "ModelProtocolError", "ToolProtocolError",
            "TurnLimitError", "PortError", "Cancelled" }

Phases == {"before", "after", "uncertain"}

Init ==
    /\ policy \in Policies
    /\ held \in [messages : FirstStates, route : Routes \cup {NoRoute}]
    /\ pc = "idle"
    /\ messages = <<>>
    /\ sticky = NoRoute
    /\ excluded = NoRoute
    /\ turn = 0
    /\ results = <<>>
    /\ outcome = "none"
    /\ effects = <<>>
    /\ reduced = FALSE

\* ConversationState.__post_init__ raises nothing.
IsState(ms) == ms # <<>> /\ IsConversation(ms) /\ Len(ms) <= MaxMessages

\* ModelCall.__post_init__ raises nothing.
IsCallable(ms, exclusion) ==
    /\ Len(ms) \in 1 .. MaxMessages
    /\ MessageBytes(ms) + CallBytes + exclusion <= MaxCallBytes

\* The run raises: its messages and its route are lost.
Fail(error) ==
    /\ pc' = "idle"
    /\ outcome' = error
    /\ UNCHANGED <<held, context, history>>

-----------------------------------------------------------------------------
\* The caller.

Ask(question) ==
    /\ pc = "idle"
    /\ IsState(Append(held.messages, question))
    /\ held' = [held EXCEPT !.messages = Append(@, question)]
    /\ UNCHANGED <<pc, context, outcome, history>>

StartRun ==
    /\ pc = "idle"
    /\ pc' = "fit"
    /\ messages' = held.messages
    /\ sticky' = held.route
    /\ excluded' = NoRoute
    /\ turn' = 1
    /\ results' = <<>>
    /\ outcome' = "none"
    /\ effects' = <<>>
    /\ UNCHANGED <<policy, held, reduced>>

-----------------------------------------------------------------------------
\* _fit_context.

Fitted(ms) ==
    /\ pc' = "call"
    /\ messages' = ms
    /\ UNCHANGED <<policy, held, sticky, excluded, turn, results, outcome, effects>>

ContextFits ==
    /\ pc = "fit"
    /\ WithinLimits(messages, Limits)
    /\ Fitted(messages)
    /\ UNCHANGED reduced

ReduceByPruning ==
    \/ /\ CanPrune(messages, Limits)
       /\ Fitted(Pruned(messages, Limits))
       /\ reduced' = TRUE
    \/ /\ ~CanPrune(messages, Limits)
       /\ Fail("InvalidConversationError")

OverLimits == pc = "fit" /\ ~WithinLimits(messages, Limits)

PruneContext == OverLimits /\ policy = "prune" /\ ReduceByPruning

\* Any exception of _compact is either the run's error or a reason to prune.
CompactionFails ==
    \/ policy = "model or prune" /\ ReduceByPruning
    \/ policy = "model or stop" /\ Fail("CompactionError")

\* _compact before its await: there is a route to pin, and CompactionRequest
\* accepts the messages as a model call and as a conversation.
IsCompactable ==
    /\ sticky # NoRoute
    /\ IsCallable(messages, 0)
    /\ IsConversation(messages)

CompactContext ==
    /\ OverLimits
    /\ policy # "prune"
    /\ \/ /\ IsCompactable
          /\ pc' = "compact"
          /\ UNCHANGED <<held, context, outcome, history>>
       \/ /\ ~IsCompactable
          /\ CompactionFails

CompactorReturns(compacted) ==
    /\ pc = "compact"
    /\ \/ /\ CompactionAccepted(messages, compacted, Limits)
          /\ Fitted(compacted)
          /\ reduced' = TRUE
       \/ /\ ~CompactionAccepted(messages, compacted, Limits)
          /\ CompactionFails

CompactorRaises == pc = "compact" /\ CompactionFails

-----------------------------------------------------------------------------
\* _call_model: the exact sticky route first, then the assignment.

CallExact ==
    /\ pc = "call"
    /\ sticky # NoRoute
    /\ \/ /\ IsCallable(messages, 0)
          /\ pc' = "exact"
          /\ UNCHANGED <<held, context, outcome, history>>
       \/ /\ ~IsCallable(messages, 0)
          /\ Fail("RouterContractError")

CallAssignment ==
    /\ pc = "call"
    /\ sticky = NoRoute
    /\ \/ /\ IsCallable(messages, 0)
          /\ pc' = "assignment"
          /\ UNCHANGED <<held, context, outcome, history>>
       \/ /\ ~IsCallable(messages, 0)
          /\ Fail("RouterContractError")

\* Fault: a failure before visible output repeats the exact call.
ExactFailsRepeated(phase) ==
    /\ pc = "exact"
    /\ \/ /\ phase = "before"
          /\ pc' = "call"
          /\ UNCHANGED <<held, context, outcome, history>>
       \/ /\ phase # "before"
          /\ Fail("ModelCallError")

\* The exact call fails.  Only a failure before visible output goes on to the
\* assignment, without the failed route; naming that route makes the call larger.
ExactFails(phase) ==
    /\ pc = "exact"
    /\ \/ /\ phase = "before"
          /\ IsCallable(messages, ExclusionBytes)
          /\ pc' = "assignment"
          /\ excluded' = sticky
          /\ UNCHANGED <<policy, held, messages, sticky, turn, results, outcome, history>>
       \/ /\ phase = "before"
          /\ ~IsCallable(messages, ExclusionBytes)
          /\ Fail("RouterContractError")
       \/ /\ phase # "before"
          /\ Fail("ModelCallError")

AssignmentFails == pc = "assignment" /\ Fail("ModelCallError")

\* The caller port raises something else than ModelCallError.
ModelCallerRaises == pc \in {"exact", "assignment"} /\ Fail("PortError")

\* Fault: the replacement may answer on the route that has failed.
ExcludedRouteAccepted(route) == pc = "exact" => route = sticky

\* _validate_model_result.
RouteAccepted(route) ==
    /\ pc = "exact" => route = sticky
    /\ route # excluded

\* The model answers: with tool calls, or with the end of the run.
ModelAnswers(route, answer) ==
    /\ pc \in {"exact", "assignment"}
    /\ \/ /\ ~RouteAccepted(route)
          /\ Fail("ModelProtocolError")
       \/ /\ RouteAccepted(route)
          /\ IsCall(answer)
          /\ pc' = "tools"
          /\ messages' = Append(messages, answer)
          /\ sticky' = route
          /\ excluded' = NoRoute
          /\ results' = <<>>
          /\ UNCHANGED <<policy, held, turn, outcome, history>>
       \/ /\ RouteAccepted(route)
          /\ ~IsCall(answer)
          /\ IsState(Append(messages, answer))
          /\ pc' = "idle"
          /\ messages' = Append(messages, answer)
          /\ sticky' = route
          /\ excluded' = NoRoute
          /\ held' = [messages |-> messages', route |-> route]
          /\ outcome' = "ok"
          /\ UNCHANGED <<policy, turn, results, history>>
       \/ /\ RouteAccepted(route)
          /\ ~IsCall(answer)
          /\ ~IsState(Append(messages, answer))
          /\ Fail("InvalidConversationError")

-----------------------------------------------------------------------------
\* The tool executor.

Batch == messages[Len(messages)].calls

Executing(kind) == pc = "tools" /\ Executor = kind /\ Len(results) < Len(Batch)

NextCall == Batch[Len(results) + 1]

\* SequentialToolExecutor: the handler of the next call returns its result.
HandlerReturns ==
    /\ Executing("sequential")
    /\ results' = Append(results, NextCall)
    /\ effects' = Append(effects, NextCall)
    /\ UNCHANGED <<policy, held, pc, messages, sticky, excluded, turn, outcome, reduced>>

\* Fault: a handler whose result text is rejected is called again.
HandlerIsRetried ==
    /\ Executing("sequential")
    /\ effects' = Append(effects, NextCall)
    /\ UNCHANGED <<policy, held, pc, messages, sticky, excluded, turn, results, outcome,
                   reduced>>

\* The handler has run, but ToolResultPart rejects its result text.
HandlerReturnsInvalid ==
    /\ Executing("sequential")
    /\ pc' = "idle"
    /\ outcome' = "RouterContractError"
    /\ effects' = Append(effects, NextCall)
    /\ UNCHANGED <<held, context, reduced>>

\* A handler raises, or the harness has no tool of that name; the handlers of
\* the calls before it have run.
HandlerRaises(error) == Executing("sequential") /\ Fail(error)

\* Fault: the number of results is validated, and their order is not.
ExecutorReturnsInAnyOrder(ids) ==
    /\ Executing("custom")
    /\ Len(ids) = Len(Batch)
    /\ effects' = effects \o ids
    /\ results' = ids
    /\ UNCHANGED <<policy, held, pc, messages, sticky, excluded, turn, outcome, reduced>>

ExecutorReturns(ids) ==
    /\ Executing("custom")
    /\ effects' = effects \o ids
    /\ \/ /\ ids = Batch
          /\ results' = ids
          /\ UNCHANGED <<policy, held, pc, messages, sticky, excluded, turn, outcome,
                         reduced>>
       \/ /\ ids # Batch
          /\ pc' = "idle"
          /\ outcome' = "ToolProtocolError"
          /\ UNCHANGED <<held, context, reduced>>

ExecutorRaises == Executing("custom") /\ Fail("PortError")

\* Every call of the batch has its result: the result message ends the turn.
EndTurn(body) ==
    /\ pc = "tools"
    /\ Len(results) = Len(Batch)
    /\ \/ /\ turn < MaxModelTurns
          /\ pc' = "fit"
          /\ messages' = Append(messages, Results(results, body))
          /\ turn' = turn + 1
          /\ UNCHANGED <<policy, held, sticky, excluded, results, outcome, history>>
       \/ /\ turn = MaxModelTurns
          /\ Fail("TurnLimitError")

-----------------------------------------------------------------------------
\* Cancellation reaches a run where it awaits a port.

Awaiting == pc \in {"compact", "exact", "assignment"} \/ Executing(Executor)

Cancel == Awaiting /\ Fail("Cancelled")

-----------------------------------------------------------------------------
RunStep ==
    \/ ContextFits \/ PruneContext \/ CompactContext
    \/ \E c \in Compactions : CompactorReturns(c)
    \/ CompactorRaises
    \/ CallExact \/ CallAssignment
    \/ \E phase \in Phases : ExactFails(phase)
    \/ AssignmentFails \/ ModelCallerRaises
    \/ \E r \in Routes, m \in Answers : ModelAnswers(r, m)
    \/ HandlerReturns \/ HandlerReturnsInvalid
    \/ \E error \in {"PortError", "ToolProtocolError"} : HandlerRaises(error)
    \/ \E ids \in ExecutorResults : ExecutorReturns(ids)
    \/ ExecutorRaises
    \/ \E body \in ResultBodies : EndTurn(body)
    \/ Cancel

Next == (\E q \in Questions : Ask(q)) \/ StartRun \/ RunStep

Spec == Init /\ [][Next]_vars

\* A run that has started goes on: the event loop resumes it, and every port it
\* awaits returns or raises.  Nothing makes the caller ask or start a run.
FairSpec == Spec /\ WF_vars(RunStep)

-----------------------------------------------------------------------------
\* Every variable of a run and of its caller has its type, errors and turns included.
TypeOK ==
    /\ policy \in Policies
    /\ held \in [messages : Seq(Message), route : Routes \cup {NoRoute}]
    /\ pc \in {"idle", "fit", "compact", "call", "exact", "assignment", "tools"}
    /\ messages \in Seq(Message)
    /\ sticky \in Routes \cup {NoRoute}
    /\ excluded \in Routes \cup {NoRoute}
    /\ turn \in 0 .. MaxModelTurns
    /\ results \in Seq(CallIds)
    /\ outcome \in {"none", "ok"} \cup Errors
    /\ effects \in Seq(CallIds)
    /\ reduced \in BOOLEAN

\* Whatever a run appends or reduces, its model calls carry a context within the
\* limits in which every tool call has its results.
SentContextIsPaired ==
    pc \in {"call", "exact", "assignment"} =>
        WithinLimits(messages, Limits) /\ IsPaired(messages)

\* No run, however often it reduces its context, changes the system prefix.
PrefixIsKept == [][SystemPrefix(held'.messages) = SystemPrefix(held.messages)]_vars

\* Reduction never costs the model the newest exchange: in the first turn it is
\* the caller's, later it is the one with the results of the last tool batch.
NewestExchangeIsSent ==
    pc \in {"exact", "assignment"} =>
        IF turn = 1 THEN LastGroup(messages) = LastGroup(held.messages)
        ELSE messages[Len(messages)].results = results

\* Only a user message can hold tool results.
ResultsOf(m) == IF m.role = "user" THEN m.results ELSE <<>>

ResultIds(ms) == FlattenSeq([i \in DOMAIN ms |-> ResultsOf(ms[i])])

\* As long as nothing was reduced away, the state a successful run returns is
\* the caller's with the run's messages added, and records every tool execution
\* of the run, in order and once.
EffectsAreRecorded ==
    [][ pc # "idle" /\ outcome' = "ok" /\ ~reduced =>
          /\ IsPrefix(held.messages, held'.messages)
          /\ ResultIds(held'.messages) = ResultIds(held.messages) \o effects ]_vars

\* The ID of a tool call that two calls of the messages have.
IsReused(id, ms) ==
    \E p, q \in CallPositions(ms) :
        p # q /\ ms[p[1]].calls[p[2]] = id /\ ms[q[1]].calls[q[2]] = id

\* An ID that a model reuses is looked at when the run ends, turns after its tools
\* have run, unless the messages are pruned or compacted before.  A run refused at
\* its end is too long, or has executed a call under an ID that the messages name
\* twice; and no run ends well, nothing being reduced away, that has executed a
\* call under an ID of its own or of the caller's conversation a second time.
ReuseIsFoundAtEnd ==
    [][ /\ pc \in {"exact", "assignment"} /\ outcome' = "InvalidConversationError" =>
              \/ Len(messages) >= MaxMessages
              \/ \E i \in DOMAIN effects : IsReused(effects[i], messages)
        /\ pc # "idle" /\ outcome' = "ok" /\ ~reduced =>
              IsInjective(ResultIds(held.messages) \o effects) ]_vars

RC == INSTANCE RouteContract WITH
          stored <- held.route, running <- pc # "idle", current <- sticky

\* A run implements RouteContract: the sticky route answers, or after its failure
\* another one, and only a successful run hands it on.  RouteContract sees neither
\* the phase of the failure nor how often a call is sent.
KeepsRouteContract == RC!RouteSpec

\* The strengthening that makes the properties above inductive.

\* The caller holds states that ConversationState accepts.
HeldIsState == IsState(held.messages)

PrefixOfRun == pc # "idle" => SystemPrefix(messages) = SystemPrefix(held.messages)

PairedContext ==
    pc \in {"fit", "compact", "call", "exact", "assignment"} => IsPaired(messages)

FittedContext ==
    pc \in {"call", "exact", "assignment"} => WithinLimits(messages, Limits)

\* While tools run, the messages end with the call message of a paired context,
\* and the results so far are those of its first calls.
OpenBatch ==
    pc = "tools" =>
        /\ messages # <<>>
        /\ IsCall(messages[Len(messages)])
        /\ IsPaired(SubSeq(messages, 1, Len(messages) - 1))
        /\ results = SubSeq(Batch, 1, Len(results))

\* A route is excluded only while the assignment is called in its place.
RoutesOfTurn ==
    /\ pc = "exact" => sticky # NoRoute
    /\ pc = "assignment" => excluded = sticky
    /\ pc \in {"fit", "compact", "call", "exact", "tools"} => excluded = NoRoute

\* Each part of a run leaves the next one what it relies on: a context that is
\* paired at every stage, a batch whose results are a prefix of its calls, and
\* an exclusion that ends with the turn.
RunInvariant ==
    PrefixOfRun /\ PairedContext /\ FittedContext /\ OpenBatch /\ RoutesOfTurn

\* A run ends: the turn limit stops the model that calls tools forever.
RunEnds == pc # "idle" ~> pc = "idle"
=============================================================================
