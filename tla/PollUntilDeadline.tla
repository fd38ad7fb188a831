-------------------------- MODULE PollUntilDeadline --------------------------
(***************************************************************************)
(* What both polling loops of the library promise the service they ask,    *)
(* MediaWait (RouterClient.wait_media_job) and GenerationWait              *)
(* (higgsfield.generate_image): one request at a time, none begun once the *)
(* deadline has passed, and a pause of Interval between an answer and the  *)
(* next request.  It says nothing of what is asked or answered.            *)
(***************************************************************************)
EXTENDS Integers

CONSTANTS
    Interval,  \* poll_interval
    Timeouts,  \* the timeouts a caller may choose
    Time       \* the readings of the clock

VARIABLES
    now,       \* time.monotonic()
    phase,     \* "idle", "ready" (to ask or pausing) or "asking"
    began,     \* when the wait began
    deadline,  \* when it has to be over
    heard,     \* when its last request ended
    asked      \* the requests it has made

vars == <<now, phase, began, deadline, heard, asked>>

Init ==
    /\ now = 0
    /\ phase = "idle"
    /\ began = 0
    /\ deadline = 0
    /\ heard = 0
    /\ asked = 0

\* Between two waits there is nothing to remember.
Idle ==
    /\ phase' = "idle"
    /\ began' = 0
    /\ deadline' = 0
    /\ heard' = 0
    /\ asked' = 0

Start(limit) ==
    /\ phase = "idle"
    /\ phase' = "ready"
    /\ began' = now
    /\ deadline' = limit
    /\ UNCHANGED <<now, heard, asked>>

Begin == \E t \in Timeouts : Start(now + t)

Ask ==
    /\ phase = "ready"
    /\ now < deadline
    /\ asked > 0 => now >= heard + Interval
    /\ phase' = "asking"
    /\ asked' = asked + 1
    /\ UNCHANGED <<now, began, deadline, heard>>

Answer ==
    /\ phase = "asking"
    /\ phase' = "ready"
    /\ heard' = now
    /\ UNCHANGED <<now, began, deadline, asked>>

\* A request may end the wait at any time; otherwise only the deadline does.
End ==
    /\ \/ phase = "asking"
       \/ phase = "ready" /\ now >= deadline
    /\ Idle
    /\ UNCHANGED now

\* Time passes, and a sleep never ends early.
Pass ==
    /\ now' \in Time
    /\ now' > now
    /\ UNCHANGED <<phase, began, deadline, heard, asked>>

Next == Begin \/ Ask \/ Answer \/ End \/ Pass

Spec == Init /\ [][Next]_vars

-----------------------------------------------------------------------------
\* A wait never makes more requests than its timeout has room for, one at its
\* beginning and one for every whole interval after it.
RequestsBounded == asked > 0 => (asked - 1) * Interval < deadline - began
=============================================================================
