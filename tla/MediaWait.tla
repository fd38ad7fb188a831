------------------------------ MODULE MediaWait ------------------------------
(***************************************************************************)
(* RouterClient.create_media_job and wait_media_job, called one at a time  *)
(* by one caller: create jobs, and wait, perhaps repeatedly, for those     *)
(* whose ID it holds.  The Router takes a request at any time after it was *)
(* sent, also after the client gave up on it, and advances jobs by itself. *)
(*                                                                         *)
(* A request takes any time: the HTTP timeout bounds one socket operation, *)
(* not a response.  Time between two statements of the client passes in    *)
(* its requests and sleeps.                                                *)
(***************************************************************************)
EXTENDS Integers, Sequences, FiniteSets

CONSTANTS
    Interval,  \* poll_interval
    Timeouts,  \* timeout, from 0
    MaxTime,   \* bound on the clock
    MaxJobs    \* bound on the jobs made, and on the creations that failed

ASSUME MediaAssumption ==
    /\ Interval \in Nat \ {0}
    /\ Timeouts \subseteq Nat
    /\ MaxTime \in Nat
    /\ MaxJobs \in Nat

VARIABLES
    now,        \* time.monotonic()
    jobs,       \* the states of the Router's jobs; an ID is an index
    late,       \* creation requests the client gave up on, still on their way
    post,       \* the current creation request: "none", "sent", "taken", "refused"
    made,       \* the job it made, if taken
    held,       \* the job IDs the caller holds
    announced,  \* history: creations that failed and said they may have had effect
    unread,     \* history: creations that ended in a ValueError once sent
    pc,         \* "idle", "create", "ready", "ask" or "sleep"
    target,     \* media_job_id
    seen,       \* the state the Router read to answer the poll, or "none"
    began,      \* history: when the wait began
    deadline,   \* deadline
    wake,       \* the end of time.sleep
    heard,      \* history: when the last poll ended
    asked,      \* history: the polls of this wait
    outcome     \* how the last call ended, "none" while one runs

creation == <<post, made>>
router == <<jobs, late>>
ledger == <<held, announced, unread>>
wait == <<target, began, deadline, wake, heard, asked>>
vars == <<now, jobs, late, post, made, held, announced, unread, pc, target, seen,
          began, deadline, wake, heard, asked, outcome>>

Open == {"pending", "running"}
Terminal == {"succeeded", "failed"}

Least(a, b) == IF a < b THEN a ELSE b

Init ==
    /\ now = 0
    /\ jobs = <<>> /\ late = 0
    /\ post = "none" /\ made = 0
    /\ held = {} /\ announced = 0 /\ unread = 0
    /\ pc = "idle"
    /\ target = 0 /\ seen = "none"
    /\ began = 0 /\ deadline = 0 /\ wake = 0 /\ heard = 0 /\ asked = 0
    /\ outcome = "none"

-----------------------------------------------------------------------------
\* create_media_job.

\* Arguments out of their bounds: ValueError before any request.
RejectArguments ==
    /\ pc = "idle"
    /\ outcome' = "value"
    /\ UNCHANGED <<now, router, creation, ledger, pc, wait, seen>>

Create ==
    /\ pc = "idle"
    /\ Len(jobs) + late < MaxJobs
    /\ announced + unread < MaxJobs
    /\ pc' = "create"
    /\ post' = "sent"
    /\ outcome' = "none"
    /\ UNCHANGED <<now, router, made, ledger, wait, seen>>

EndCreate(result) ==
    /\ pc = "create"
    /\ pc' = "idle"
    /\ outcome' = result
    /\ post' = "none"
    /\ made' = 0
    /\ announced' = announced + (IF result \in {"uncertain", "invalid"} THEN 1 ELSE 0)
    /\ unread' = unread + (IF result = "value" THEN 1 ELSE 0)
    /\ UNCHANGED <<now, jobs, wait, seen>>

\* A valid answer that matches the request.
Created ==
    /\ post = "taken"
    /\ EndCreate("created")
    /\ held' = held \cup {made}
    /\ UNCHANGED late

CreateRefused ==
    /\ post = "refused"
    /\ EndCreate("refused")
    /\ UNCHANGED <<late, held>>

LoseCreation(result) ==
    /\ EndCreate(result)
    /\ late' = late + (IF post = "sent" THEN 1 ELSE 0)
    /\ UNCHANGED held

\* An answer that breaks the contract, exceeds a limit, or names another
\* workspace, kind or route: RouterProtocolError, without a phase.  It may be that of
\* a gateway, whatever the Router does.
CreateInvalid == LoseCreation("invalid")

\* An answer with an integer of too many digits for int(): json.loads raises a
\* ValueError that is no JSONDecodeError, and nothing on the way up catches it.  The
\* caller sees what RejectArguments raises.
CreateUnreadable == LoseCreation("value")

\* Fault: uncertain=False for a creation.
CreateLostSurely == LoseCreation("lost")

\* Any failure of the transport, before or after the Router took the request.
CreateLost == LoseCreation("uncertain")

-----------------------------------------------------------------------------
\* wait_media_job.

Wait ==
    /\ pc = "idle"
    /\ \E t \in Timeouts : now + t <= MaxTime /\ deadline' = now + t
    /\ target' \in held
    /\ pc' = "ready"
    /\ began' = now
    /\ outcome' = "none"
    /\ UNCHANGED <<now, router, creation, ledger, seen, wake, heard, asked>>

\* Its local variables end with the call.
EndWait(result) ==
    /\ pc' = "idle"
    /\ outcome' = result
    /\ seen' = "none"
    /\ target' = 0 /\ began' = 0 /\ deadline' = 0
    /\ wake' = 0 /\ heard' = 0 /\ asked' = 0
    /\ UNCHANGED <<now, router, creation, ledger>>

\* The top of the loop: remaining <= 0.
TimeoutBeforePoll ==
    /\ pc = "ready"
    /\ now >= deadline
    /\ EndWait("timeout")

SendPoll ==
    /\ pc = "ready"
    /\ pc' = "ask"
    /\ asked' = asked + 1
    /\ UNCHANGED <<now, router, creation, ledger, target, began, deadline, wake, heard,
                   seen, outcome>>

\* Fault: the deadline is not looked at before a poll.
PollAtAnyTime == SendPoll

Poll == now < deadline /\ SendPoll

Answered == pc = "ask" /\ seen # "none"

\* Whatever the answer says, it came too late.
TimeoutAfterPoll ==
    /\ Answered
    /\ now >= deadline
    /\ EndWait("timeout")

Return ==
    /\ Answered
    /\ seen \in Terminal
    /\ EndWait(seen)

\* Fault: a final answer is returned whenever it came.
FinishAtAnyTime == Return

Finish == now < deadline /\ Return

Sleep(duration, limit) ==
    /\ Answered
    /\ now < deadline
    /\ seen \in Open
    /\ pc' = "sleep"
    /\ heard' = now
    /\ wake' = now + duration
    /\ deadline' = limit
    /\ seen' = "none"
    /\ UNCHANGED <<now, router, creation, ledger, target, began, asked, outcome>>

\* Fault: the deadline is computed anew in every round.
PauseAndRestart == Sleep(Interval, deadline + Interval)

Pause == Sleep(Least(Interval, deadline - now), deadline)

\* A refusal, an answer that breaks the contract or is for another job, one that
\* cannot be read (see CreateUnreadable), or a failed transport ("lost", a
\* RouterTransportError that is not uncertain) ends the wait at once, before the
\* deadline is looked at.
PollFails ==
    /\ pc = "ask"
    /\ \E result \in {"refused", "invalid", "value", "lost"} : EndWait(result)

\* time.sleep never returns early.
WakeUp ==
    /\ pc = "sleep"
    /\ now >= wake
    /\ pc' = "ready"
    /\ wake' = 0
    /\ UNCHANGED <<now, router, creation, ledger, target, began, deadline, heard, asked,
                   seen, outcome>>

-----------------------------------------------------------------------------
\* The Router and the clock.

NewJob == jobs' = Append(jobs, "pending")

TakePost ==
    /\ post = "sent"
    /\ \/ post' = "taken" /\ NewJob /\ made' = Len(jobs) + 1
       \/ post' = "refused" /\ UNCHANGED <<jobs, made>>
    /\ UNCHANGED <<now, late, ledger, pc, wait, seen, outcome>>

TakeLatePost ==
    /\ late > 0
    /\ late' = late - 1
    /\ NewJob \/ UNCHANGED jobs
    /\ UNCHANGED <<now, creation, ledger, pc, wait, seen, outcome>>

\* MediaJobState: "one forward-only media job state".
Advance(j) ==
    /\ \/ jobs[j] = "pending" /\ jobs' = [jobs EXCEPT ![j] = "running"]
       \/ jobs[j] \in Open /\ \E s \in Terminal : jobs' = [jobs EXCEPT ![j] = s]
    /\ UNCHANGED <<now, late, creation, ledger, pc, wait, seen, outcome>>

ReadJob ==
    /\ pc = "ask"
    /\ seen = "none"
    /\ seen' = jobs[target]
    /\ UNCHANGED <<now, router, creation, ledger, pc, wait, outcome>>

Tick ==
    /\ now < MaxTime
    /\ now' = now + 1
    /\ UNCHANGED <<router, creation, ledger, pc, wait, seen, outcome>>

-----------------------------------------------------------------------------
Creating == Created \/ CreateRefused \/ CreateInvalid \/ CreateUnreadable \/ CreateLost

Waiting ==
    \/ TimeoutBeforePoll \/ Poll
    \/ TimeoutAfterPoll \/ Finish \/ Pause \/ PollFails
    \/ WakeUp

Router == TakePost \/ TakeLatePost \/ ReadJob \/ \E j \in DOMAIN jobs : Advance(j)

Next == RejectArguments \/ Create \/ Creating \/ Wait \/ Waiting \/ Router \/ Tick

\* The client runs, the clock advances, and a request ends: no socket operation
\* outlasts the HTTP timeout and a response has bounded headers and size.
Fairness == WF_vars(Creating \/ Waiting) /\ WF_vars(Tick)

Spec == Init /\ [][Next]_vars

FairSpec == Spec /\ Fairness

-----------------------------------------------------------------------------
\* The client's variables and the Router's have their types.
TypeOK ==
    /\ now \in Nat
    /\ jobs \in Seq(Open \cup Terminal)
    /\ late \in Nat
    /\ post \in {"none", "sent", "taken", "refused"}
    /\ made \in Nat
    /\ held \subseteq DOMAIN jobs
    /\ announced \in Nat /\ unread \in Nat
    /\ pc \in {"idle", "create", "ready", "ask", "sleep"}
    /\ target \in Nat
    /\ seen \in Open \cup Terminal \cup {"none"}
    /\ began \in Nat /\ deadline \in Nat
    /\ wake \in Nat
    /\ heard \in Nat
    /\ asked \in Nat
    /\ outcome \in {"none", "value", "created", "refused", "invalid", "uncertain",
                    "lost", "timeout"} \cup Terminal

\* A job nobody can wait for was announced, or its creation ended in a ValueError: for
\* every job that exists or may yet be made without the caller holding its ID, a
\* creation failed with an error that does not deny the effect, an uncertain
\* transport error or a contract violation, or with the error of an answer that
\* cannot be read, which a caller takes for its own mistake.
UnnamedJobsAreAnnounced ==
    LET current == IF post = "taken" THEN {made} ELSE {}
    IN  Cardinality(DOMAIN jobs \ (held \cup current)) + late <= announced + unread

\* A wait returns a job only before its deadline, and in the state the Router's
\* job has for ever: not in one it was in when an old answer was made.
FinishedInTime ==
    [][pc = "ask" /\ pc' = "idle" /\ outcome' \in Terminal
          => now < deadline /\ target \in held /\ jobs[target] = outcome']_vars

\* Every call ends.
CallsEnd == pc # "idle" ~> pc = "idle"

Polling == INSTANCE PollUntilDeadline WITH
    Time <- 0 .. MaxTime,
    phase <- CASE pc \in {"idle", "create"} -> "idle"
               [] pc \in {"ready", "sleep"} -> "ready"
               [] pc = "ask" -> "asking"

\* wait_media_job keeps the promise of module PollUntilDeadline.
Polls == Polling!Spec

\* The Router is not asked more often than the timeout has room for.
PollsBounded == Polling!RequestsBounded
=============================================================================
