---------------------------- MODULE PinnedConnect ----------------------------
(***************************************************************************)
(* One connection of the pinned transports of public_http: the hostname is *)
(* resolved once, every answer is validated, and the answers are tried in  *)
(* turn.  Three backends do this:                                          *)
(*                                                                         *)
(*   plain    resolves in the caller's thread, without a deadline;         *)
(*   guarded  resolves in a daemon thread and asks a continuation guard    *)
(*            for the time that is left before every blocking operation,   *)
(*            also those of the stream it returns;                         *)
(*   async    resolves in a worker thread that a deadline abandons.        *)
(*                                                                         *)
(* Time passes only while the caller is blocked: its own steps take none.  *)
(***************************************************************************)
EXTENDS Integers, Sequences, FiniteSets, FiniteSetsExt

CONSTANTS
    Addresses,    \* the addresses a resolver may return
    Public,       \* those that is_private_ip accepts
    Resolutions,  \* sequences of addresses that DNS may return
    Backends,     \* those of "plain", "guarded" and "async" that are used
    Deadlines,    \* times at which the operation must be over
    Timeouts,     \* connect timeouts
    Interval,     \* 0.1 s between two looks at the guard while resolving
    Least,        \* 1 ms, the shortest timeout of a blocking operation
    MaxTime,      \* bound: the last time of the clock
    MaxOvertime,  \* bound: operations on a stream stop at this overtime
    MaxLate,      \* bound: the further sends of writes stop at this sum
    Never         \* a time or timeout that is never reached

ASSUME PinnedAssumption ==
    /\ Public \subseteq Addresses
    /\ Resolutions \subseteq Seq(Addresses)
    /\ Backends \subseteq {"plain", "guarded", "async"}
    /\ Least \in Nat \ {0} /\ Interval \in Nat \ {0}
    /\ MaxTime \in Nat /\ MaxOvertime \in Nat /\ MaxLate \in Nat
    /\ Never \in Nat /\ Never > MaxTime + Interval
    /\ Deadlines \subseteq 0 .. MaxTime \cup {Never}
    /\ Timeouts \subseteq 1 .. MaxTime \cup {Never}

VARIABLES
    backend, deadline, timeout,  \* the arguments of the call
    pc,         \* where the caller is; "waiting", "resolving", "connecting" and
                \* "operating" block
    now, until, \* the time, and when the blocking operation times out
    thread,     \* the resolver: "none", "running" or "finished"
    result, failure,             \* the resolver's lists
    resolution, \* history: the complete answer of the resolver
    answers,    \* the addresses to try
    attempts,   \* what became of each of them so far
    open,       \* the attempts whose socket is open
    timedOut,   \* an attempt has timed out
    sending,    \* the timeout of each send of the write under way, 0 without one
    overtime,   \* history: the operations that began when no time was left
    late,       \* history: the timeouts of the further sends of writes, added up
    outcome     \* how the call ended

arguments == <<backend, deadline, timeout>>
resolver  == <<thread, result, failure, resolution>>
progress  == <<answers, attempts, open, timedOut>>
granted   == <<sending, overtime, late>>
vars == <<arguments, pc, now, until, resolver, progress, granted, outcome>>

Init ==
    /\ backend \in Backends
    /\ deadline \in IF backend = "plain" THEN {Never} ELSE Deadlines
    /\ timeout \in IF backend = "async" THEN {deadline} ELSE Timeouts
    /\ pc = "start"
    /\ now = 0 /\ until = Never
    /\ thread = "none" /\ result = <<>> /\ failure = "none" /\ resolution = <<>>
    /\ answers = <<>> /\ attempts = <<>> /\ open = {} /\ timedOut = FALSE
    /\ sending = 0 /\ overtime = 0 /\ late = 0
    /\ outcome = "none"

Guarded == backend = "guarded"

\* What the continuation guard returns.
Remaining == deadline - now

GoTo(label) == pc' = label /\ UNCHANGED <<until, outcome>>

End(kind) == pc' = "done" /\ outcome' = kind /\ UNCHANGED until

Block(label, time) == pc' = label /\ until' = time /\ UNCHANGED outcome

-----------------------------------------------------------------------------
\* resolve_addresses.
Resolve ==
    /\ pc = "start"
    /\ thread' = "running"
    /\ CASE Guarded            -> GoTo("poll")
         [] backend = "async"  -> Block("resolving", deadline)
         [] backend = "plain"  -> Block("resolving", Never)
    /\ UNCHANGED <<arguments, now, result, failure, resolution, progress, granted>>

ResolverReturns(addresses) ==
    /\ thread = "running"
    /\ thread' = "finished"
    /\ result' = addresses
    /\ resolution' = addresses
    /\ UNCHANGED <<arguments, pc, now, until, failure, progress, granted, outcome>>

\* The resolver may fail when part of its answer is in the list.
ResolverFails(addresses, kind) ==
    /\ thread = "running"
    /\ thread' = "finished"
    /\ result' = addresses
    /\ failure' = kind
    /\ UNCHANGED <<arguments, pc, now, until, resolution, progress, granted, outcome>>

\* Fault: the wait is not shortened to the time that is left.
WaitForWhole == IF Remaining <= 0 THEN Remaining ELSE Interval

WaitFor == Min({Interval, Remaining})

Poll ==
    /\ pc = "poll"
    /\ IF thread = "finished" THEN GoTo("resolved")
       ELSE IF WaitFor <= 0 THEN End("ConnectTimeout")
       ELSE Block("waiting", now + WaitFor)
    /\ UNCHANGED <<arguments, now, resolver, progress, granted>>

WaitEnds ==
    /\ pc = "waiting"
    /\ \/ thread = "finished" /\ GoTo("poll")
       \/ /\ thread = "running" /\ now = until
          /\ IF deadline <= until THEN End("ConnectTimeout") ELSE GoTo("poll")
    /\ UNCHANGED <<arguments, now, resolver, progress, granted>>

\* The guard ends the operation: before a wait, after the resolution, before an
\* attempt, and before an operation on the stream.
GuardRaises ==
    /\ Guarded
    /\ \/ pc = "poll" /\ thread # "finished"
       \/ pc = "resolved"
       \/ pc = "attempt" /\ Len(attempts) < Len(answers)
       \/ pc = "stream"
    /\ End("guard")
    /\ UNCHANGED <<arguments, now, resolver, progress, granted>>

\* Without a guard only socket.gaierror is translated.
UseResolution ==
    /\ pc \in {"resolving", "resolved"} /\ thread = "finished"
    /\ IF failure = "none"
       THEN answers' = result /\ GoTo("validate")
       ELSE /\ UNCHANGED answers
            /\ End(IF Guarded \/ failure = "gaierror" THEN "ConnectError" ELSE "raised")
    /\ UNCHANGED <<arguments, now, resolver, attempts, open, timedOut, granted>>

\* Fault: one public answer is enough.
ValidateFirst ==
    /\ pc = "validate"
    /\ IF answers = <<>> THEN End("ConnectError")
       ELSE IF answers[1] \notin Public THEN End("SSRFError")
       ELSE GoTo("attempt")
    /\ UNCHANGED <<arguments, now, resolver, progress, granted>>

\* _validate_answers.
Validate ==
    /\ pc = "validate"
    /\ IF answers = <<>> THEN End("ConnectError")
       ELSE IF \E i \in DOMAIN answers : answers[i] \notin Public THEN End("SSRFError")
       ELSE GoTo("attempt")
    /\ UNCHANGED <<arguments, now, resolver, progress, granted>>

-----------------------------------------------------------------------------
\* _timeout: the guard shortens a timeout, but never below Least.
Clamped ==
    IF Guarded THEN Max({Least, Min({timeout, Remaining})}) ELSE timeout

Overtime == IF Guarded /\ Remaining < Least THEN overtime + 1 ELSE overtime

\* A socket is made, prepared, and connects.
Connect ==
    /\ pc = "attempt"
    /\ Len(attempts) < Len(answers)
    /\ attempts' = Append(attempts, "connecting")
    /\ open' = open \cup {Len(attempts')}
    /\ Block("connecting", IF backend = "async" THEN deadline ELSE now + Clamped)
    /\ overtime' = Overtime
    /\ UNCHANGED <<arguments, now, resolver, answers, timedOut, sending, late>>

\* No socket, or none of the requested local address and options.
SetupFails ==
    /\ pc = "attempt"
    /\ Len(attempts) < Len(answers)
    /\ attempts' = Append(attempts, "refused")
    /\ UNCHANGED <<arguments, pc, now, until, resolver, answers, open, timedOut>>
    /\ UNCHANGED <<granted, outcome>>

Newest == Len(attempts)

\* Fault: the last error decides.
AttemptFailsLast(kind) ==
    /\ pc = "connecting"
    /\ kind = "timed out" => now = until
    /\ attempts' = [attempts EXCEPT ![Newest] = kind]
    /\ open' = open \ {Newest}
    /\ timedOut' = (kind = "timed out")
    /\ GoTo("attempt")
    /\ UNCHANGED <<arguments, now, resolver, answers, granted>>

AttemptFails(kind) ==
    /\ pc = "connecting"
    /\ kind = "timed out" => now = until
    /\ attempts' = [attempts EXCEPT ![Newest] = kind]
    /\ open' = open \ {Newest}
    /\ timedOut' = (timedOut \/ kind = "timed out")
    /\ GoTo("attempt")
    /\ UNCHANGED <<arguments, now, resolver, answers, granted>>

\* An exception that is no OSError leaves the call, and its socket to the
\* interpreter.
AttemptRaises ==
    /\ pc = "connecting"
    /\ attempts' = [attempts EXCEPT ![Newest] = "raised"]
    /\ End("raised")
    /\ UNCHANGED <<arguments, now, resolver, answers, open, timedOut, granted>>

AttemptConnects ==
    /\ pc = "connecting"
    /\ attempts' = [attempts EXCEPT ![Newest] = "connected"]
    /\ pc' = "stream" /\ outcome' = "stream"
    /\ UNCHANGED <<arguments, now, until, resolver, answers, open, timedOut, granted>>

NoneConnects ==
    /\ pc = "attempt"
    /\ Len(attempts) = Len(answers)
    /\ End(IF timedOut /\ backend # "async" THEN "ConnectTimeout" ELSE "ConnectError")
    /\ UNCHANGED <<arguments, now, resolver, progress, granted>>

\* fail_after of the async backend, whatever it awaits.
DeadlinePasses ==
    /\ backend = "async"
    /\ pc \in {"resolving", "connecting"} /\ now = until
    /\ open' = {}
    /\ End("ConnectTimeout")
    /\ UNCHANGED <<arguments, now, resolver, answers, attempts, timedOut, granted>>

-----------------------------------------------------------------------------
\* DeadlineNetworkStream asks the guard once for an operation.
Begin(send) ==
    /\ Guarded
    /\ pc = "stream"
    /\ Overtime <= MaxOvertime
    /\ Block("operating", now + Clamped)
    /\ sending' = send
    /\ overtime' = Overtime
    /\ UNCHANGED <<arguments, now, resolver, progress, late>>

\* read and start_tls block once.
Operate == Begin(0)

\* write hands its timeout to a stream that gives it to every send of the buffer,
\* the second one when the first took a part of it, and so on.
Write == Begin(Clamped)

SendMore ==
    /\ pc = "operating" /\ sending > 0
    /\ late + sending <= MaxLate
    /\ Block("operating", now + sending)
    /\ late' = late + sending
    /\ UNCHANGED <<arguments, now, resolver, progress, sending, overtime>>

OperationEnds ==
    /\ pc = "operating"
    /\ sending' = 0
    /\ GoTo("stream")
    /\ UNCHANGED <<arguments, now, resolver, progress, overtime, late>>

Tick ==
    /\ pc \in {"waiting", "resolving", "connecting", "operating"}
    /\ now < Min({until, MaxTime})
    /\ now' = now + 1
    /\ UNCHANGED <<arguments, pc, until, resolver, progress, granted, outcome>>

-----------------------------------------------------------------------------
Attempt ==
    \/ Connect \/ SetupFails \/ AttemptRaises \/ AttemptConnects \/ NoneConnects
    \/ \E kind \in {"refused", "timed out"} : AttemptFails(kind)

Caller ==
    \/ Resolve \/ Poll \/ WaitEnds \/ GuardRaises \/ UseResolution \/ Validate
    \/ Attempt \/ DeadlinePasses \/ Operate \/ Write \/ SendMore \/ OperationEnds

Resolver ==
    \/ \E addresses \in Resolutions : ResolverReturns(addresses)
    \/ \E addresses \in Resolutions, kind \in {"gaierror", "other"} :
          ResolverFails(addresses, kind)

Next == Caller \/ Resolver \/ Tick

Spec == Init /\ [][Next]_vars

-----------------------------------------------------------------------------
\* Sockets are opened only for the addresses of one complete resolution, in its
\* order, and only if every one of its addresses is public, whenever the resolver
\* finishes or fails; and each is closed before the next address is tried.
ConnectsToValidated ==
    /\ attempts # <<>> =>
          /\ answers = resolution
          /\ Len(attempts) <= Len(answers)
          /\ \A i \in DOMAIN answers : answers[i] \in Public
    /\ open \subseteq {Newest}

\* How a call ends tells what happened to its addresses: a stream is the one open
\* socket; a timeout means that the deadline has passed or an attempt timed out;
\* and a connection error after a valid resolution that every address was tried.
\* No socket stays open behind an error of this module.
EndTellsAttempts ==
    /\ outcome = "stream" => open = {Newest} /\ attempts[Newest] = "connected"
    /\ outcome = "ConnectTimeout" =>
          \/ now >= deadline
          \/ \E i \in DOMAIN attempts : attempts[i] = "timed out"
    /\ outcome = "ConnectError" /\ attempts # <<>> =>
          /\ Len(attempts) = Len(answers)
          /\ backend # "async" => \A i \in DOMAIN attempts : attempts[i] = "refused"
    /\ outcome \in {"ConnectTimeout", "ConnectError", "SSRFError"} => open = {}

\* A blocked caller is back by its deadline, even if the resolver never answers.
\* Only two things add to it: the least timeout of an operation that begins when no
\* time is left, and, since the guard is asked once for a write, the timeout of each
\* further send that the write needs.
EndsInTime ==
    backend # "plain" => now <= deadline + Least * overtime + late
=============================================================================
