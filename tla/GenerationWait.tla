--------------------------- MODULE GenerationWait ---------------------------
(***************************************************************************)
(* One call of higgsfield.generate_image: submit a generation once, then   *)
(* poll its status, all in one loop whose first request is the POST.       *)
(*                                                                         *)
(* The provider may answer anything, and may take a submission whose       *)
(* answer is lost.  A request takes any time: HTTPX bounds each network    *)
(* phase, not a response.                                                  *)
(***************************************************************************)
EXTENDS Integers

CONSTANTS
    Interval,   \* poll_interval, positive
    Timeouts,   \* timeout, positive
    MaxTime,    \* bound on the clock
    Ids, NoId   \* request IDs of the right form, and any other value or None

ASSUME GenerationAssumption ==
    /\ Interval \in Nat \ {0}
    /\ Timeouts \subseteq Nat \ {0}
    /\ MaxTime \in Nat
    /\ NoId \notin Ids

VARIABLES
    now,          \* time.monotonic()
    generations,  \* the generations the provider has taken
    sent,         \* a submission is on its way
    pc,           \* "start", "ready", "ask", "sleep" or "done"
    method,       \* "POST" or "GET"
    requestId,    \* request_id
    statusId,     \* the ID in status_url, or none
    first,        \* history: the first valid ID in an answer
    began,        \* history: when the call began
    deadline,     \* deadline
    wake,         \* the end of time.sleep
    heard,        \* history: when the last request was answered
    asked,        \* history: the requests made
    result        \* how the call ended and the ID the result or error carries

provider == <<generations, sent>>
request == <<method, requestId, statusId, first>>
times == <<began, deadline, wake, heard, asked>>
vars == <<now, provider, pc, request, times, result>>

Open == {"queued", "in_progress"}
Ended == {"failed", "nsfw", "canceled"}

\* The status of an answer: a known one or any other.
Statuses == Open \cup Ended \cup {"completed", "unknown"}

Kinds == Ended \cup {"completed", "timeout", "protocol", "http", "value", "recursion"}

Results == [kind : {"none"} \cup Kinds, id : Ids \cup {NoId}]

Least(a, b) == IF a < b THEN a ELSE b

Init ==
    /\ now = 0
    /\ generations = 0 /\ sent = FALSE
    /\ pc = "start"
    /\ method = "POST"
    /\ requestId = NoId /\ statusId = NoId /\ first = NoId
    /\ began = 0 /\ deadline = 0 /\ wake = 0 /\ heard = 0 /\ asked = 0
    /\ result = [kind |-> "none", id |-> NoId]

\* The call's local times end with it.
End(kind, id) ==
    /\ pc' = "done"
    /\ result' = [kind |-> kind, id |-> id]
    /\ began' = 0 /\ deadline' = 0 /\ wake' = 0 /\ heard' = 0 /\ asked' = 0
    /\ UNCHANGED now

-----------------------------------------------------------------------------
\* An invalid endpoint, model, timeout or interval, before any request.
RejectArguments ==
    /\ pc = "start"
    /\ \E kind \in {"value", "protocol"} : End(kind, NoId)
    /\ UNCHANGED <<provider, request>>

Call ==
    /\ pc = "start"
    /\ pc' = "ready"
    /\ began' = now
    /\ \E t \in Timeouts : now + t <= MaxTime /\ deadline' = now + t
    /\ UNCHANGED <<now, provider, request, wake, heard, asked, result>>

\* The top of the loop: remaining <= 0.
TimeoutBeforeRequest ==
    /\ pc = "ready"
    /\ now >= deadline
    /\ End("timeout", requestId)
    /\ UNCHANGED <<provider, request>>

Send ==
    /\ pc = "ready"
    /\ pc' = "ask"
    /\ asked' = asked + 1
    /\ sent' = (method = "POST")
    /\ UNCHANGED <<now, generations, request, began, deadline, wake, heard, result>>

\* Fault: the deadline is not looked at before a request.
RequestAtAnyTime == Send

Request == now < deadline /\ Send

\* Any HTTPX error, an error status included: no retry, and no look at the time.
HttpFails ==
    /\ pc = "ask"
    /\ End("http", requestId)
    /\ UNCHANGED <<provider, request>>

\* An answer that is not JSON or no JSON object, or whose ID is of no valid form or
\* not the one of the answers before.
AnswerUnidentified(id) ==
    /\ pc = "ask"
    /\ ~sent
    /\ id = NoId \/ (requestId # NoId /\ id # requestId)
    /\ End("protocol", requestId)
    /\ UNCHANGED <<provider, request>>

\* An answer nested too deep for the JSON decoder: _payload and generate_image catch
\* no RecursionError, so it leaves without the ID.
AnswerTooDeep ==
    /\ pc = "ask"
    /\ ~sent
    /\ End("recursion", NoId)
    /\ UNCHANGED <<provider, request>>

Identify(id) ==
    /\ pc = "ask"
    /\ ~sent
    /\ id \in Ids
    /\ requestId' = id
    /\ first' = IF first = NoId THEN id ELSE first
    /\ UNCHANGED provider

\* Fault: the ID may change from answer to answer.
IdentifiedAnew(id) == Identify(id)

\* An answer that carries the ID of the request, which the first one sets.
Identified(id) == requestId \in {NoId, id} /\ Identify(id)

\* A final status, or one that is not known; a completed request may lack images.
AnswerFinal(id, status) ==
    /\ Identified(id)
    /\ status \notin Open
    /\ \/ status # "unknown" /\ End(status, id)
       \/ status \in {"unknown", "completed"} /\ End("protocol", id)
    /\ UNCHANGED <<method, statusId>>

StatusUrl(id) == statusId' = IF statusId = NoId THEN id ELSE statusId

\* remaining <= 0 after an answer: the error carries the ID and the status URL.
TimeoutAfterAnswer(id, status) ==
    /\ Identified(id)
    /\ status \in Open
    /\ now >= deadline
    /\ StatusUrl(id)
    /\ End("timeout", id)
    /\ UNCHANGED method

Sleep(id, status, duration, limit) ==
    /\ Identified(id)
    /\ status \in Open
    /\ now < deadline
    /\ StatusUrl(id)
    /\ pc' = "sleep"
    /\ wake' = now + duration
    /\ deadline' = limit
    /\ heard' = now
    /\ UNCHANGED <<now, method, began, asked, result>>

\* Fault: the deadline is computed anew in every round.
PauseAndRestart(id, status) == Sleep(id, status, Interval, deadline + Interval)

Pause(id, status) == Sleep(id, status, Least(Interval, deadline - now), deadline)

NextRound ==
    /\ pc = "sleep"
    /\ now >= wake
    /\ pc' = "ready"
    /\ wake' = 0
    /\ UNCHANGED <<now, provider, requestId, statusId, first, began, deadline, heard,
                   asked, result>>

\* Fault: the next round submits again.
WakeUpToSubmit == NextRound /\ UNCHANGED method

\* The sleep ends, never early, and the next request asks for the status.
WakeUp == NextRound /\ method' = "GET"

-----------------------------------------------------------------------------
\* The provider takes a submission, perhaps after the client gave up on it, and
\* starts a generation or not.
TakeSubmission ==
    /\ sent
    /\ sent' = FALSE
    /\ generations' \in {generations, generations + 1}
    /\ UNCHANGED <<now, pc, request, times, result>>

Tick ==
    /\ now < MaxTime
    /\ now' = now + 1
    /\ UNCHANGED <<provider, pc, request, times, result>>

-----------------------------------------------------------------------------
Answer ==
    \E id \in Ids \cup {NoId} :
        \/ AnswerUnidentified(id)
        \/ \E status \in Statuses :
              AnswerFinal(id, status) \/ TimeoutAfterAnswer(id, status) \/ Pause(id, status)

Client ==
    \/ RejectArguments \/ Call
    \/ TimeoutBeforeRequest \/ Request \/ HttpFails \/ AnswerTooDeep \/ Answer
    \/ WakeUp

Next == Client \/ TakeSubmission \/ Tick

\* The client runs, a request ends because each of its phases has a timeout, and
\* the clock advances.
Fairness == WF_vars(Client) /\ WF_vars(Tick)

Spec == Init /\ [][Next]_vars

FairSpec == Spec /\ Fairness

-----------------------------------------------------------------------------
\* The variables of the call have their types.
TypeOK ==
    /\ now \in Nat
    /\ generations \in Nat
    /\ sent \in BOOLEAN
    /\ pc \in {"start", "ready", "ask", "sleep", "done"}
    /\ method \in {"POST", "GET"}
    /\ requestId \in Ids \cup {NoId}
    /\ statusId \in Ids \cup {NoId}
    /\ first \in Ids \cup {NoId}
    /\ began \in Nat /\ deadline \in Nat
    /\ wake \in Nat
    /\ heard \in Nat
    /\ asked \in Nat
    /\ result \in Results

\* One call pays for at most one generation, however its answers are lost, late or
\* wrong: the provider has none but the one the client submitted first.
SubmittedOnce == generations + (IF sent THEN 1 ELSE 0) <= 1

\* Once the client has a request ID, every way the call can end names that ID, but
\* for the RecursionError of an answer nested too deep, and every later request asks
\* about it: an accepted request is out of reach only behind that error.
AcceptedIsNamed ==
    /\ pc = "done" /\ first # NoId => result.id = first \/ result.kind = "recursion"
    /\ method = "GET" => statusId = first /\ first # NoId
    /\ result.kind \in Ended \cup {"completed"} => result.id # NoId

\* Every call ends.
CallEnds == <>(pc = "done")

Polling == INSTANCE PollUntilDeadline WITH
    Time <- 0 .. MaxTime,
    phase <- CASE pc \in {"start", "done"} -> "idle"
               [] pc \in {"ready", "sleep"} -> "ready"
               [] pc = "ask" -> "asking"

\* generate_image keeps the promise of module PollUntilDeadline, its submission
\* being the first request.
Polls == Polling!Spec

\* The provider is not asked more often than the timeout has room for.
PollsBounded == Polling!RequestsBounded
=============================================================================
