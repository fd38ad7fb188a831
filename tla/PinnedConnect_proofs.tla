------------------------- MODULE PinnedConnect_proofs -------------------------
(***************************************************************************)
(* Proofs about the pinned transports, for every set of addresses, every   *)
(* resolution and all deadlines, timeouts and intervals: sockets go to     *)
(* validated addresses only, the end of a call tells what became of them,  *)
(* and a deadline is kept whatever the resolver does.                      *)
(***************************************************************************)
EXTENDS PinnedConnect, TLAPS

\* Where the caller is: before the addresses are known, where it blocks, with a
\* stream, and behind the validation.
Resolving == {"start", "poll", "waiting", "resolving", "resolved"}
Blocked   == {"waiting", "resolving", "connecting", "operating"}
Streaming == {"stream", "operating"}
Trying    == {"attempt", "connecting"} \cup Streaming

\* What may become of an attempt.
Failed == {"refused", "timed out"}
States == Failed \cup {"connecting", "connected", "raised"}

TypeOK ==
    /\ backend \in {"plain", "guarded", "async"}
    /\ deadline \in Nat /\ timeout \in Nat
    /\ pc \in Resolving \cup {"validate"} \cup Trying \cup {"done"}
    /\ now \in 0 .. MaxTime /\ until \in Nat
    /\ sending \in Nat /\ overtime \in Nat /\ late \in Nat
    /\ answers \in Seq(Addresses) /\ result \in Seq(Addresses)
    /\ attempts \in Seq(States)
    /\ timedOut \in BOOLEAN

\* The resolver's thread writes its lists before the caller looks at them, and
\* never again; a list that is not complete comes with a failure.
ResolverInv ==
    /\ thread \in {"none", "running", "finished"}
    /\ thread = "finished" /\ failure = "none" => result = resolution
    /\ thread # "finished" => failure = "none"
    /\ pc = "start" <=> thread = "none"
    /\ pc \in {"validate"} \cup Trying => thread = "finished" /\ answers = resolution

\* What _validate_answers asks for.
AllPublic == \A i \in DOMAIN answers : answers[i] \in Public

\* Attempt i is not the one under way.
IsOver(i) == i # Newest \/ pc # "connecting"

\* The answers are tried one after the other, when all of them are public.
TriedInv ==
    /\ pc \in Resolving \cup {"validate"} => attempts = <<>>
    /\ pc \in {"connecting"} \cup Streaming => attempts # <<>>
    /\ attempts # <<>> =>
          /\ thread = "finished" /\ answers = resolution
          /\ Len(attempts) <= Len(answers)
    /\ pc \in Trying \/ attempts # <<>> => AllPublic

\* Only the newest attempt may have a socket.
SocketInv ==
    /\ open \subseteq {Newest}
    /\ pc \in {"connecting"} \cup Streaming => open = {Newest}
    /\ pc \in Streaming => attempts[Newest] = "connected"
    /\ pc \in Resolving \cup {"validate", "attempt"} => open = {}

\* While the caller tries, all attempts that are over have failed.
FailedInv ==
    /\ pc \in Resolving \cup {"validate"} => ~timedOut
    /\ pc \in {"attempt", "connecting"} =>
          /\ \A i \in DOMAIN attempts : IsOver(i) => attempts[i] \in Failed
          /\ timedOut <=> \E i \in DOMAIN attempts : IsOver(i) /\ attempts[i] = "timed out"

\* A block ends in time, or is that of an operation that began without any left.
TimeInv ==
    /\ ~Guarded => overtime = 0 /\ late = 0
    /\ pc \in Blocked => now <= until
    /\ pc \in Blocked /\ backend # "plain" => until <= deadline + Least * overtime + late
    /\ pc \in {"waiting", "poll", "operating"} => Guarded
    /\ pc \in {"resolving", "connecting"} /\ backend = "async" => until = deadline

\* Only a stream has an outcome before the end.
OutcomeInv ==
    /\ pc \in Streaming <=> outcome = "stream"
    /\ pc # "done" /\ pc \notin Streaming => outcome = "none"

Inv ==
    /\ TypeOK /\ ResolverInv /\ TriedInv /\ SocketInv /\ FailedInv /\ TimeInv /\ OutcomeInv
    /\ EndTellsAttempts /\ EndsInTime

-----------------------------------------------------------------------------
\* Of two times.
LEMMA Shorter ==
    ASSUME NEW a \in Int, NEW b \in Int
    PROVE  Min({a, b}) \in {a, b} /\ Min({a, b}) <= a /\ Min({a, b}) <= b
<1>1. \E x \in {a, b} : \A y \in {a, b} : x <= y
    OBVIOUS
<1>2. QED  BY <1>1 DEF Min

LEMMA Longer ==
    ASSUME NEW a \in Int, NEW b \in Int
    PROVE  Max({a, b}) \in {a, b} /\ Max({a, b}) >= a /\ Max({a, b}) >= b
<1>1. \E x \in {a, b} : \A y \in {a, b} : x >= y
    OBVIOUS
<1>2. QED  BY <1>1 DEF Max

\* The timeout of a blocking operation ends in the time that is left, unless it is
\* the least one, and that is counted.
LEMMA ClampedInTime ==
    ASSUME TypeOK, EndsInTime, Guarded
    PROVE  Clamped \in Nat /\ now + Clamped <= deadline + Least * Overtime + late
<1> USE PinnedAssumption DEF PinnedAssumption, TypeOK
<1> DEFINE shorter == Min({timeout, Remaining})
<1>1. Remaining \in Int
    BY DEF Remaining
<1>2. shorter \in Int /\ shorter <= Remaining
  <2>1. timeout \in Int
      OBVIOUS
  <2>2. shorter \in {timeout, Remaining} /\ shorter <= Remaining
      BY <1>1, <2>1, Shorter, Zenon
  <2>3. QED  BY <1>1, <2>1, <2>2
<1>3. Clamped \in {Least, shorter} /\ Clamped >= Least /\ Clamped >= shorter
  <2>1. Least \in Int
      OBVIOUS
  <2>2. Clamped = Max({Least, shorter})
      BY DEF Clamped
  <2>3. QED  BY <1>2, <2>1, <2>2, Longer, Zenon
<1>4. now <= deadline + Least * overtime + late
    BY DEF EndsInTime, Guarded
<1>5. CASE Remaining < Least
  <2>1. Clamped = Least /\ Overtime = overtime + 1
      BY <1>1, <1>2, <1>3, <1>5 DEF Overtime
  <2>2. Least * (overtime + 1) = Least * overtime + Least
      OBVIOUS
  <2>3. Least * overtime \in Nat
      OBVIOUS
  <2>4. QED  BY <1>4, <2>1, <2>2, <2>3
<1>6. CASE ~(Remaining < Least)
  <2>1. Clamped <= Remaining /\ Overtime = overtime
      BY <1>1, <1>2, <1>3, <1>6 DEF Overtime
  <2>2. Least * overtime \in Nat
      OBVIOUS
  <2>3. Clamped \in Nat
      BY <1>2, <1>3
  <2>4. QED  BY <2>1, <2>2, <2>3 DEF Remaining
<1>7. QED  BY <1>5, <1>6

\* One more attempt, and what the newest one became.
LEMMA NewAttempt ==
    ASSUME TypeOK, NEW state \in States, attempts' = Append(attempts, state)
    PROVE  /\ attempts' \in Seq(States) /\ attempts' # <<>>
           /\ Newest' = Newest + 1 /\ attempts'[Newest'] = state
           /\ DOMAIN attempts' = DOMAIN attempts \cup {Newest'}
           /\ Newest' \notin DOMAIN attempts
           /\ \A i \in DOMAIN attempts : attempts'[i] = attempts[i]
BY DEF TypeOK, Newest

LEMMA NewestBecomes ==
    ASSUME TypeOK, attempts # <<>>, NEW state \in States,
           attempts' = [attempts EXCEPT ![Newest] = state]
    PROVE  /\ attempts' \in Seq(States) /\ attempts' # <<>>
           /\ Newest' = Newest /\ Newest \in DOMAIN attempts
           /\ DOMAIN attempts' = DOMAIN attempts
           /\ attempts'[Newest] = state
           /\ \A i \in DOMAIN attempts : i # Newest => attempts'[i] = attempts[i]
BY DEF TypeOK, Newest

-----------------------------------------------------------------------------
\* Each step preserves the invariant.
\* The resolution of a call with a deadline begins in time.
LEMMA ResolveKeepsInv ==
    ASSUME Inv, Resolve
    PROVE  Inv'
<1> USE PinnedAssumption DEF PinnedAssumption, Resolve, Resolving, Blocked, Streaming,
       Trying, Failed, GoTo, End, Block, Guarded, Remaining, arguments, resolver, progress,
       granted
<1>1. /\ Guarded => pc' = "poll"
      /\ backend = "async" => pc' = "resolving" /\ until' = deadline
      /\ backend = "plain" => pc' = "resolving" /\ until' = Never
    BY DEF Inv, TypeOK
<1>2. backend = "async" => now <= deadline
  <2>1. Least * 0 = 0
      OBVIOUS
  <2>2. QED  BY <2>1 DEF Inv, TypeOK, TimeInv, EndsInTime
<1>3. backend \in {"plain", "guarded", "async"}
    BY DEF Inv, TypeOK
<1>4. TypeOK'
    BY <1>1, <1>2, <1>3 DEF Inv, TypeOK, States
<1>5. ResolverInv' /\ TriedInv' /\ SocketInv' /\ FailedInv'
    BY <1>1, <1>2, <1>3 DEF Inv, TypeOK, ResolverInv, TriedInv, AllPublic, Newest,
       SocketInv, FailedInv, IsOver
<1>6. TimeInv'
  <2>1. backend = "async" => deadline + Least * overtime + late = deadline
      BY DEF Inv, TypeOK, TimeInv
  <2>2. now \in Nat /\ now <= Never
      BY DEF Inv, TypeOK
  <2>3. pc' \in Blocked /\ backend # "plain" => until' <= deadline + Least * overtime + late
    <3>1. deadline \in Nat /\ late \in Nat /\ Least * overtime \in Nat
        BY DEF Inv, TypeOK
    <3>2. QED  BY <1>1, <1>3, <2>1, <3>1
  <2>4. pc' \in Blocked => now <= until'
      BY <1>1, <1>2, <1>3, <2>2 DEF Inv, TypeOK
  <2>5. QED  BY <1>1, <1>3, <2>3, <2>4 DEF Inv, TypeOK, TimeInv
<1>7. OutcomeInv'
    BY <1>1, <1>2, <1>3 DEF Inv, TypeOK, OutcomeInv
<1>8. EndsInTime'
    BY <1>1, <1>2, <1>3 DEF Inv, TypeOK, TimeInv, EndsInTime
<1>9. EndTellsAttempts'
    BY <1>1, <1>2, <1>3 DEF Inv, TypeOK, ResolverInv, TriedInv, SocketInv, FailedInv,
       OutcomeInv, TimeInv, EndTellsAttempts, IsOver, Newest
<1>10. QED  BY <1>4, <1>5, <1>6, <1>7, <1>8, <1>9 DEF Inv

\* The resolver's thread may finish in any state of the caller but before it began.
LEMMA ResolverReturnsKeepsInv ==
    ASSUME Inv, NEW addresses \in Resolutions, ResolverReturns(addresses)
    PROVE  Inv'
<1> USE PinnedAssumption DEF PinnedAssumption, ResolverReturns, Resolving, Blocked, Streaming,
       Trying, Failed, GoTo, End, Block, Guarded, Remaining, arguments, resolver, progress,
       granted
<1>1. TypeOK'
    BY DEF Inv, TypeOK, States
<1>2. ResolverInv' /\ TriedInv' /\ SocketInv' /\ FailedInv'
    BY DEF Inv, TypeOK, ResolverInv, TriedInv, AllPublic, Newest, SocketInv, FailedInv, IsOver
<1>3. TimeInv' /\ OutcomeInv' /\ EndsInTime'
    BY DEF Inv, TypeOK, TimeInv, OutcomeInv, EndsInTime
<1>4. EndTellsAttempts'
    BY DEF Inv, TypeOK, ResolverInv, TriedInv, SocketInv, FailedInv, OutcomeInv, TimeInv,
       EndTellsAttempts, IsOver, Newest
<1>5. QED  BY <1>1, <1>2, <1>3, <1>4 DEF Inv

\* A list that is not complete is never used, because a failure comes with it.
LEMMA ResolverFailsKeepsInv ==
    ASSUME Inv, NEW addresses \in Resolutions, NEW kind \in {"gaierror", "other"},
           ResolverFails(addresses, kind)
    PROVE  Inv'
<1> USE PinnedAssumption DEF PinnedAssumption, ResolverFails, Resolving, Blocked, Streaming,
       Trying, Failed, GoTo, End, Block, Guarded, Remaining, arguments, resolver, progress,
       granted
<1>1. TypeOK'
    BY DEF Inv, TypeOK, States
<1>2. ResolverInv' /\ TriedInv' /\ SocketInv' /\ FailedInv'
    BY DEF Inv, TypeOK, ResolverInv, TriedInv, AllPublic, Newest, SocketInv, FailedInv, IsOver
<1>3. TimeInv' /\ OutcomeInv' /\ EndsInTime'
    BY DEF Inv, TypeOK, TimeInv, OutcomeInv, EndsInTime
<1>4. EndTellsAttempts'
    BY DEF Inv, TypeOK, ResolverInv, TriedInv, SocketInv, FailedInv, OutcomeInv, TimeInv,
       EndTellsAttempts, IsOver, Newest
<1>5. QED  BY <1>1, <1>2, <1>3, <1>4 DEF Inv

\* A wait is never longer than the time that is left.
LEMMA PollKeepsInv ==
    ASSUME Inv, Poll
    PROVE  Inv'
<1> USE PinnedAssumption DEF PinnedAssumption, Poll, Resolving, Blocked, Streaming,
       Trying, Failed, GoTo, End, Block, Guarded, Remaining, arguments, resolver, progress,
       granted
<1>1. Interval \in Int /\ Remaining \in Int
    BY DEF Inv, TypeOK
<1>2. WaitFor \in {Interval, Remaining} /\ WaitFor <= Remaining
    BY <1>1, Shorter, Zenon DEF WaitFor
<1>3. until' \in Nat
  <2>1. CASE thread = "finished" \/ WaitFor <= 0
      BY <2>1 DEF Inv, TypeOK
  <2>2. CASE ~(thread = "finished" \/ WaitFor <= 0)
      BY <1>1, <1>2, <2>2 DEF Inv, TypeOK
  <2>3. QED  BY <2>1, <2>2
<1>4. TypeOK'
    BY <1>1, <1>2, <1>3 DEF Inv, TypeOK, States
<1>5. ResolverInv' /\ TriedInv' /\ SocketInv' /\ FailedInv'
    BY <1>1, <1>2, <1>3 DEF Inv, TypeOK, ResolverInv, TriedInv, AllPublic, Newest,
       SocketInv, FailedInv, IsOver
<1>6. TimeInv' /\ OutcomeInv' /\ EndsInTime'
    BY <1>1, <1>2, <1>3 DEF Inv, TypeOK, TimeInv, OutcomeInv, EndsInTime
<1>7. EndTellsAttempts'
    BY <1>1, <1>2, <1>3 DEF Inv, TypeOK, ResolverInv, TriedInv, SocketInv, FailedInv,
       OutcomeInv, TimeInv, EndTellsAttempts, IsOver, Newest
<1>8. QED  BY <1>4, <1>5, <1>6, <1>7 DEF Inv

\* The wait ends with the thread or at its own end.
LEMMA WaitEndsKeepsInv ==
    ASSUME Inv, WaitEnds
    PROVE  Inv'
<1> USE PinnedAssumption DEF PinnedAssumption, WaitEnds, Resolving, Blocked, Streaming,
       Trying, Failed, GoTo, End, Block, Guarded, Remaining, arguments, resolver, progress,
       granted
<1>1. TypeOK'
    BY DEF Inv, TypeOK, States
<1>2. ResolverInv' /\ TriedInv' /\ SocketInv' /\ FailedInv'
    BY DEF Inv, TypeOK, ResolverInv, TriedInv, AllPublic, Newest, SocketInv, FailedInv, IsOver
<1>3. TimeInv' /\ OutcomeInv' /\ EndsInTime'
    BY DEF Inv, TypeOK, TimeInv, OutcomeInv, EndsInTime
<1>4. EndTellsAttempts'
    BY DEF Inv, TypeOK, ResolverInv, TriedInv, SocketInv, FailedInv, OutcomeInv, TimeInv,
       EndTellsAttempts, IsOver, Newest
<1>5. QED  BY <1>1, <1>2, <1>3, <1>4 DEF Inv

\* The guard raises only between two blocking operations.
LEMMA GuardRaisesKeepsInv ==
    ASSUME Inv, GuardRaises
    PROVE  Inv'
<1> USE PinnedAssumption DEF PinnedAssumption, GuardRaises, Resolving, Blocked, Streaming,
       Trying, Failed, GoTo, End, Block, Guarded, Remaining, arguments, resolver, progress,
       granted
<1>1. TypeOK'
    BY DEF Inv, TypeOK, States
<1>2. ResolverInv' /\ TriedInv' /\ SocketInv' /\ FailedInv'
    BY DEF Inv, TypeOK, ResolverInv, TriedInv, AllPublic, Newest, SocketInv, FailedInv, IsOver
<1>3. TimeInv' /\ OutcomeInv' /\ EndsInTime'
    BY DEF Inv, TypeOK, TimeInv, OutcomeInv, EndsInTime
<1>4. EndTellsAttempts'
    BY DEF Inv, TypeOK, ResolverInv, TriedInv, SocketInv, FailedInv, OutcomeInv, TimeInv,
       EndTellsAttempts, IsOver, Newest
<1>5. QED  BY <1>1, <1>2, <1>3, <1>4 DEF Inv

\* The list that is used is the complete answer.
LEMMA UseResolutionKeepsInv ==
    ASSUME Inv, UseResolution
    PROVE  Inv'
<1> USE PinnedAssumption DEF PinnedAssumption, UseResolution, Resolving, Blocked, Streaming,
       Trying, Failed, GoTo, End, Block, Guarded, Remaining, arguments, resolver, progress,
       granted
<1>1. TypeOK'
    BY DEF Inv, TypeOK, States
<1>2. ResolverInv' /\ TriedInv' /\ SocketInv' /\ FailedInv'
    BY DEF Inv, TypeOK, ResolverInv, TriedInv, AllPublic, Newest, SocketInv, FailedInv, IsOver
<1>3. TimeInv' /\ OutcomeInv' /\ EndsInTime'
    BY DEF Inv, TypeOK, TimeInv, OutcomeInv, EndsInTime
<1>4. EndTellsAttempts'
    BY DEF Inv, TypeOK, ResolverInv, TriedInv, SocketInv, FailedInv, OutcomeInv, TimeInv,
       EndTellsAttempts, IsOver, Newest
<1>5. QED  BY <1>1, <1>2, <1>3, <1>4 DEF Inv

\* One address that is not public ends the call before the first attempt.
LEMMA ValidateKeepsInv ==
    ASSUME Inv, Validate
    PROVE  Inv'
<1> USE PinnedAssumption DEF PinnedAssumption, Validate, Resolving, Blocked, Streaming,
       Trying, Failed, GoTo, End, Block, Guarded, Remaining, arguments, resolver, progress,
       granted
<1>1. TypeOK'
    BY DEF Inv, TypeOK, States
<1>2. ResolverInv' /\ TriedInv' /\ SocketInv' /\ FailedInv'
    BY DEF Inv, TypeOK, ResolverInv, TriedInv, AllPublic, Newest, SocketInv, FailedInv, IsOver
<1>3. TimeInv' /\ OutcomeInv' /\ EndsInTime'
    BY DEF Inv, TypeOK, TimeInv, OutcomeInv, EndsInTime
<1>4. EndTellsAttempts'
    BY DEF Inv, TypeOK, ResolverInv, TriedInv, SocketInv, FailedInv, OutcomeInv, TimeInv,
       EndTellsAttempts, IsOver, Newest
<1>5. QED  BY <1>1, <1>2, <1>3, <1>4 DEF Inv

\* The attempt's socket is the only one.
LEMMA ConnectKeepsInv ==
    ASSUME Inv, Connect
    PROVE  Inv'
<1> USE PinnedAssumption DEF PinnedAssumption, Connect, Resolving, Blocked, Streaming,
       Trying, Failed, GoTo, End, Block, Guarded, Remaining, arguments, resolver, progress,
       granted
<1>1. /\ attempts' \in Seq(States) /\ attempts' # <<>>
      /\ Newest' = Newest + 1 /\ attempts'[Newest'] = "connecting"
      /\ DOMAIN attempts' = DOMAIN attempts \cup {Newest'}
      /\ Newest' \notin DOMAIN attempts
      /\ \A i \in DOMAIN attempts : attempts'[i] = attempts[i]
    BY NewAttempt DEF Inv, States
<1>2. Guarded => Clamped \in Nat /\ now + Clamped <= deadline + Least * Overtime + late
    BY ClampedInTime DEF Inv, Guarded
<1>3. ~Guarded => Clamped = timeout /\ Overtime = overtime
    BY DEF Clamped, Overtime
<1>4. until' \in Nat
    BY <1>2, <1>3 DEF Inv, TypeOK
<1>5. overtime' \in Nat
    BY DEF Inv, TypeOK, Overtime
<1>6. TypeOK'
    BY <1>1, <1>2, <1>3, <1>4, <1>5 DEF Inv, TypeOK, States
<1>7. ResolverInv' /\ TriedInv'
    BY <1>1, <1>2, <1>3, <1>4, <1>5 DEF Inv, TypeOK, ResolverInv, TriedInv, AllPublic, Newest
<1>8. SocketInv'
    BY <1>1, <1>2, <1>3, <1>4, <1>5 DEF Inv, SocketInv, TriedInv
<1>9. FailedInv'
    BY <1>1, <1>2, <1>3, <1>4, <1>5 DEF Inv, TriedInv, FailedInv, IsOver
<1>10. TimeInv'
    BY <1>1, <1>2, <1>3, <1>4, <1>5 DEF Inv, TypeOK, TimeInv, EndsInTime, Overtime
<1>11. OutcomeInv'
    BY <1>1, <1>2, <1>3, <1>4, <1>5 DEF Inv, TypeOK, OutcomeInv
<1>12. EndsInTime'
    BY <1>1, <1>2, <1>3, <1>4, <1>5 DEF Inv, TypeOK, TimeInv, EndsInTime, Overtime
<1>13. EndTellsAttempts'
    BY <1>1, <1>2, <1>3, <1>4, <1>5 DEF Inv, TypeOK, ResolverInv, TriedInv, SocketInv,
       FailedInv, OutcomeInv, TimeInv, EndTellsAttempts, IsOver
<1>14. QED  BY <1>6, <1>7, <1>8, <1>9, <1>10, <1>11, <1>12, <1>13 DEF Inv

\* An attempt without a socket counts as refused.
LEMMA SetupFailsKeepsInv ==
    ASSUME Inv, SetupFails
    PROVE  Inv'
<1> USE PinnedAssumption DEF PinnedAssumption, SetupFails, Resolving, Blocked, Streaming,
       Trying, Failed, GoTo, End, Block, Guarded, Remaining, arguments, resolver, progress,
       granted
<1>1. /\ attempts' \in Seq(States) /\ attempts' # <<>>
      /\ Newest' = Newest + 1 /\ attempts'[Newest'] = "refused"
      /\ DOMAIN attempts' = DOMAIN attempts \cup {Newest'}
      /\ Newest' \notin DOMAIN attempts
      /\ \A i \in DOMAIN attempts : attempts'[i] = attempts[i]
    BY NewAttempt DEF Inv, States
<1>2. TypeOK'
    BY <1>1 DEF Inv, TypeOK, States
<1>3. ResolverInv' /\ TriedInv'
    BY <1>1 DEF Inv, TypeOK, ResolverInv, TriedInv, AllPublic, Newest
<1>4. SocketInv' /\ FailedInv'
    BY <1>1 DEF Inv, SocketInv, TriedInv, FailedInv, IsOver
<1>5. TimeInv' /\ OutcomeInv' /\ EndsInTime'
    BY <1>1 DEF Inv, TypeOK, TimeInv, OutcomeInv, EndsInTime
<1>6. EndTellsAttempts'
    BY <1>1 DEF Inv, TypeOK, ResolverInv, TriedInv, SocketInv, FailedInv, OutcomeInv,
       TimeInv, EndTellsAttempts, IsOver
<1>7. QED  BY <1>2, <1>3, <1>4, <1>5, <1>6 DEF Inv

\* The socket is closed before the next attempt, and a timeout is remembered.
LEMMA AttemptFailsKeepsInv ==
    ASSUME Inv, NEW kind \in Failed, AttemptFails(kind)
    PROVE  Inv'
<1> USE PinnedAssumption DEF PinnedAssumption, AttemptFails, Resolving, Blocked, Streaming,
       Trying, Failed, GoTo, End, Block, Guarded, Remaining, arguments, resolver, progress,
       granted
<1>1. pc = "connecting" /\ attempts # <<>>
    BY DEF Inv, TriedInv
<1>2. /\ attempts' \in Seq(States) /\ attempts' # <<>>
      /\ Newest' = Newest /\ Newest \in DOMAIN attempts
      /\ DOMAIN attempts' = DOMAIN attempts
      /\ attempts'[Newest] = kind
      /\ \A i \in DOMAIN attempts : i # Newest => attempts'[i] = attempts[i]
    BY <1>1, NewestBecomes DEF Inv, States
<1>3. TypeOK'
    BY <1>1, <1>2 DEF Inv, TypeOK, States
<1>4. ResolverInv' /\ TriedInv'
    BY <1>1, <1>2 DEF Inv, TypeOK, ResolverInv, TriedInv, AllPublic, Newest
<1>5. SocketInv' /\ FailedInv'
    BY <1>1, <1>2 DEF Inv, SocketInv, TriedInv, FailedInv, IsOver
<1>6. TimeInv' /\ OutcomeInv' /\ EndsInTime'
    BY <1>1, <1>2 DEF Inv, TypeOK, TimeInv, OutcomeInv, EndsInTime
<1>7. EndTellsAttempts'
    BY <1>1, <1>2 DEF Inv, TypeOK, ResolverInv, TriedInv, SocketInv, FailedInv, OutcomeInv,
       TimeInv, EndTellsAttempts, IsOver
<1>8. QED  BY <1>3, <1>4, <1>5, <1>6, <1>7 DEF Inv

\* The call ends with an exception of its own, which tells nothing.
LEMMA AttemptRaisesKeepsInv ==
    ASSUME Inv, AttemptRaises
    PROVE  Inv'
<1> USE PinnedAssumption DEF PinnedAssumption, AttemptRaises, Resolving, Blocked, Streaming,
       Trying, Failed, GoTo, End, Block, Guarded, Remaining, arguments, resolver, progress,
       granted
<1>1. pc = "connecting" /\ attempts # <<>>
    BY DEF Inv, TriedInv
<1>2. /\ attempts' \in Seq(States) /\ attempts' # <<>>
      /\ Newest' = Newest /\ Newest \in DOMAIN attempts
      /\ DOMAIN attempts' = DOMAIN attempts
      /\ attempts'[Newest] = "raised"
      /\ \A i \in DOMAIN attempts : i # Newest => attempts'[i] = attempts[i]
    BY <1>1, NewestBecomes DEF Inv, States
<1>3. TypeOK'
    BY <1>1, <1>2 DEF Inv, TypeOK, States
<1>4. ResolverInv' /\ TriedInv'
    BY <1>1, <1>2 DEF Inv, TypeOK, ResolverInv, TriedInv, AllPublic, Newest
<1>5. SocketInv' /\ FailedInv'
    BY <1>1, <1>2 DEF Inv, SocketInv, TriedInv, FailedInv, IsOver
<1>6. TimeInv' /\ OutcomeInv' /\ EndsInTime'
    BY <1>1, <1>2 DEF Inv, TypeOK, TimeInv, OutcomeInv, EndsInTime
<1>7. EndTellsAttempts'
    BY <1>1, <1>2 DEF Inv, TypeOK, ResolverInv, TriedInv, SocketInv, FailedInv, OutcomeInv,
       TimeInv, EndTellsAttempts, IsOver
<1>8. QED  BY <1>3, <1>4, <1>5, <1>6, <1>7 DEF Inv

\* The newest attempt is the stream.
LEMMA AttemptConnectsKeepsInv ==
    ASSUME Inv, AttemptConnects
    PROVE  Inv'
<1> USE PinnedAssumption DEF PinnedAssumption, AttemptConnects, Resolving, Blocked, Streaming,
       Trying, Failed, GoTo, End, Block, Guarded, Remaining, arguments, resolver, progress,
       granted
<1>1. pc = "connecting" /\ attempts # <<>>
    BY DEF Inv, TriedInv
<1>2. /\ attempts' \in Seq(States) /\ attempts' # <<>>
      /\ Newest' = Newest /\ Newest \in DOMAIN attempts
      /\ DOMAIN attempts' = DOMAIN attempts
      /\ attempts'[Newest] = "connected"
      /\ \A i \in DOMAIN attempts : i # Newest => attempts'[i] = attempts[i]
    BY <1>1, NewestBecomes DEF Inv, States
<1>3. TypeOK'
    BY <1>1, <1>2 DEF Inv, TypeOK, States
<1>4. ResolverInv' /\ TriedInv'
    BY <1>1, <1>2 DEF Inv, TypeOK, ResolverInv, TriedInv, AllPublic, Newest
<1>5. SocketInv' /\ FailedInv'
    BY <1>1, <1>2 DEF Inv, SocketInv, TriedInv, FailedInv, IsOver
<1>6. TimeInv' /\ OutcomeInv' /\ EndsInTime'
    BY <1>1, <1>2 DEF Inv, TypeOK, TimeInv, OutcomeInv, EndsInTime
<1>7. EndTellsAttempts'
    BY <1>1, <1>2 DEF Inv, TypeOK, ResolverInv, TriedInv, SocketInv, FailedInv, OutcomeInv,
       TimeInv, EndTellsAttempts, IsOver
<1>8. QED  BY <1>3, <1>4, <1>5, <1>6, <1>7 DEF Inv

\* Every address was tried, and the remembered timeout decides.
LEMMA NoneConnectsKeepsInv ==
    ASSUME Inv, NoneConnects
    PROVE  Inv'
<1> USE PinnedAssumption DEF PinnedAssumption, NoneConnects, Resolving, Blocked, Streaming,
       Trying, Failed, GoTo, End, Block, Guarded, Remaining, arguments, resolver, progress,
       granted
<1>1. TypeOK'
    BY DEF Inv, TypeOK, States
<1>2. ResolverInv' /\ TriedInv'
    BY DEF Inv, TypeOK, ResolverInv, TriedInv, AllPublic, Newest
<1>3. SocketInv' /\ FailedInv'
    BY DEF Inv, SocketInv, TriedInv, FailedInv, IsOver, Newest
<1>4. TimeInv' /\ OutcomeInv' /\ EndsInTime'
    BY DEF Inv, TypeOK, TimeInv, OutcomeInv, EndsInTime
<1>5. EndTellsAttempts'
    BY DEF Inv, TypeOK, ResolverInv, TriedInv, SocketInv, FailedInv, OutcomeInv, TimeInv,
       EndTellsAttempts, IsOver, Newest
<1>6. QED  BY <1>1, <1>2, <1>3, <1>4, <1>5 DEF Inv

\* The deadline of the async backend ends whatever it awaits, and its socket.
LEMMA DeadlinePassesKeepsInv ==
    ASSUME Inv, DeadlinePasses
    PROVE  Inv'
<1> USE PinnedAssumption DEF PinnedAssumption, DeadlinePasses, Resolving, Blocked, Streaming,
       Trying, Failed, GoTo, End, Block, Guarded, Remaining, arguments, resolver, progress,
       granted
<1>1. TypeOK'
    BY DEF Inv, TypeOK, States
<1>2. ResolverInv' /\ TriedInv' /\ SocketInv' /\ FailedInv'
    BY DEF Inv, TypeOK, ResolverInv, TriedInv, AllPublic, Newest, SocketInv, FailedInv, IsOver
<1>3. TimeInv' /\ OutcomeInv' /\ EndsInTime'
    BY DEF Inv, TypeOK, TimeInv, OutcomeInv, EndsInTime
<1>4. EndTellsAttempts'
    BY DEF Inv, TypeOK, ResolverInv, TriedInv, SocketInv, FailedInv, OutcomeInv, TimeInv,
       EndTellsAttempts, IsOver, Newest
<1>5. QED  BY <1>1, <1>2, <1>3, <1>4 DEF Inv

\* An operation on the stream ends in the time that is left, or is counted.
LEMMA OperateKeepsInv ==
    ASSUME Inv, Operate
    PROVE  Inv'
<1> USE PinnedAssumption DEF PinnedAssumption, Operate, Begin, Resolving, Blocked, Streaming,
       Trying, Failed, GoTo, End, Block, Guarded, Remaining, arguments, resolver, progress,
       granted
<1>1. Clamped \in Nat /\ now + Clamped <= deadline + Least * Overtime + late
    BY ClampedInTime DEF Inv
<1>2. until' \in Nat /\ sending' \in Nat
    BY <1>1 DEF Inv, TypeOK
<1>3. overtime' \in Nat
    BY DEF Inv, TypeOK, Overtime
<1>4. TypeOK'
    BY <1>1, <1>2, <1>3 DEF Inv, TypeOK, States
<1>5. ResolverInv' /\ TriedInv' /\ SocketInv' /\ FailedInv'
    BY <1>1, <1>2, <1>3 DEF Inv, TypeOK, ResolverInv, TriedInv, AllPublic, Newest,
       SocketInv, FailedInv, IsOver
<1>6. TimeInv' /\ OutcomeInv' /\ EndsInTime'
    BY <1>1, <1>2, <1>3 DEF Inv, TypeOK, TimeInv, OutcomeInv, EndsInTime, Overtime
<1>7. EndTellsAttempts'
    BY <1>1, <1>2, <1>3 DEF Inv, TypeOK, ResolverInv, TriedInv, SocketInv, FailedInv,
       OutcomeInv, TimeInv, EndTellsAttempts, IsOver, Newest
<1>8. QED  BY <1>4, <1>5, <1>6, <1>7 DEF Inv

\* So does the first send of a write.
LEMMA WriteKeepsInv ==
    ASSUME Inv, Write
    PROVE  Inv'
<1> USE PinnedAssumption DEF PinnedAssumption, Write, Begin, Resolving, Blocked, Streaming,
       Trying, Failed, GoTo, End, Block, Guarded, Remaining, arguments, resolver, progress,
       granted
<1>1. Clamped \in Nat /\ now + Clamped <= deadline + Least * Overtime + late
    BY ClampedInTime DEF Inv
<1>2. until' \in Nat /\ sending' \in Nat
    BY <1>1 DEF Inv, TypeOK
<1>3. overtime' \in Nat
    BY DEF Inv, TypeOK, Overtime
<1>4. TypeOK'
    BY <1>1, <1>2, <1>3 DEF Inv, TypeOK, States
<1>5. ResolverInv' /\ TriedInv' /\ SocketInv' /\ FailedInv'
    BY <1>1, <1>2, <1>3 DEF Inv, TypeOK, ResolverInv, TriedInv, AllPublic, Newest,
       SocketInv, FailedInv, IsOver
<1>6. TimeInv' /\ OutcomeInv' /\ EndsInTime'
    BY <1>1, <1>2, <1>3 DEF Inv, TypeOK, TimeInv, OutcomeInv, EndsInTime, Overtime
<1>7. EndTellsAttempts'
    BY <1>1, <1>2, <1>3 DEF Inv, TypeOK, ResolverInv, TriedInv, SocketInv, FailedInv,
       OutcomeInv, TimeInv, EndTellsAttempts, IsOver, Newest
<1>8. QED  BY <1>4, <1>5, <1>6, <1>7 DEF Inv

\* A further send is counted with its whole timeout.
LEMMA SendMoreKeepsInv ==
    ASSUME Inv, SendMore
    PROVE  Inv'
<1> USE PinnedAssumption DEF PinnedAssumption, SendMore, Resolving, Blocked, Streaming,
       Trying, Failed, GoTo, End, Block, Guarded, Remaining, arguments, resolver, progress,
       granted
<1>1. now <= deadline + Least * overtime + late /\ Guarded
  <2>1. Guarded
      BY DEF Inv, TimeInv
  <2>2. QED  BY <2>1 DEF Inv, EndsInTime
<1>2. until' \in Nat /\ late' \in Nat
    BY DEF Inv, TypeOK
<1>3. until' <= deadline + Least * overtime + late' /\ now <= until'
  <2>1. Least * overtime \in Nat
      BY DEF Inv, TypeOK
  <2>2. QED  BY <1>1, <2>1 DEF Inv, TypeOK
<1>4. TypeOK'
    BY <1>1, <1>2, <1>3 DEF Inv, TypeOK, States
<1>5. ResolverInv' /\ TriedInv' /\ SocketInv' /\ FailedInv'
    BY <1>1, <1>2, <1>3 DEF Inv, TypeOK, ResolverInv, TriedInv, AllPublic, Newest,
       SocketInv, FailedInv, IsOver
<1>6. TimeInv' /\ OutcomeInv' /\ EndsInTime'
    BY <1>1, <1>2, <1>3 DEF Inv, TypeOK, TimeInv, OutcomeInv, EndsInTime, Overtime
<1>7. EndTellsAttempts'
    BY <1>1, <1>2, <1>3 DEF Inv, TypeOK, ResolverInv, TriedInv, SocketInv, FailedInv,
       OutcomeInv, TimeInv, EndTellsAttempts, IsOver, Newest
<1>8. QED  BY <1>4, <1>5, <1>6, <1>7 DEF Inv

\* The stream can be used again.
LEMMA OperationEndsKeepsInv ==
    ASSUME Inv, OperationEnds
    PROVE  Inv'
<1> USE PinnedAssumption DEF PinnedAssumption, OperationEnds, Resolving, Blocked, Streaming,
       Trying, Failed, GoTo, End, Block, Guarded, Remaining, arguments, resolver, progress,
       granted
<1>1. TypeOK'
    BY DEF Inv, TypeOK, States
<1>2. ResolverInv' /\ TriedInv' /\ SocketInv' /\ FailedInv'
    BY DEF Inv, TypeOK, ResolverInv, TriedInv, AllPublic, Newest, SocketInv, FailedInv, IsOver
<1>3. TimeInv' /\ OutcomeInv' /\ EndsInTime'
    BY DEF Inv, TypeOK, TimeInv, OutcomeInv, EndsInTime
<1>4. EndTellsAttempts'
    BY DEF Inv, TypeOK, ResolverInv, TriedInv, SocketInv, FailedInv, OutcomeInv, TimeInv,
       EndTellsAttempts, IsOver, Newest
<1>5. QED  BY <1>1, <1>2, <1>3, <1>4 DEF Inv

\* Time passes up to the end of the block.
LEMMA TickKeepsInv ==
    ASSUME Inv, Tick
    PROVE  Inv'
<1> USE PinnedAssumption DEF PinnedAssumption, Tick, Resolving, Blocked, Streaming,
       Trying, Failed, GoTo, End, Block, Guarded, Remaining, arguments, resolver, progress,
       granted
<1>1. until \in Int /\ MaxTime \in Int /\ now < Min({until, MaxTime})
    BY DEF Inv, TypeOK
<1>2. Min({until, MaxTime}) <= until /\ Min({until, MaxTime}) <= MaxTime
    BY <1>1, Shorter, Zenon
<1>3. now < until /\ now < MaxTime /\ now' = now + 1
  <2> DEFINE end == Min({until, MaxTime})
  <2>1. end \in {until, MaxTime}
      BY <1>1, Shorter, Zenon
  <2>2. end \in Int /\ now \in Int
      BY <1>1, <2>1 DEF Inv, TypeOK
  <2>3. now < end /\ end <= until /\ end <= MaxTime
      BY <1>1, <1>2
  <2>4. until \in Int /\ MaxTime \in Int
      BY <1>1
  <2> HIDE DEF end
  <2>5. now < until /\ now < MaxTime
      BY <2>2, <2>3, <2>4
  <2>6. QED  BY <2>5
<1>4. now' \in 0 .. MaxTime
    BY <1>3 DEF Inv, TypeOK
<1>5. TypeOK'
    BY <1>1, <1>2, <1>3, <1>4 DEF Inv, TypeOK, States
<1>6. ResolverInv' /\ TriedInv' /\ SocketInv' /\ FailedInv'
    BY <1>1, <1>2, <1>3, <1>4 DEF Inv, TypeOK, ResolverInv, TriedInv, AllPublic, Newest,
       SocketInv, FailedInv, IsOver
<1>7. TimeInv' /\ OutcomeInv' /\ EndsInTime'
    BY <1>1, <1>2, <1>3, <1>4 DEF Inv, TypeOK, TimeInv, OutcomeInv, EndsInTime
<1>8. EndTellsAttempts'
    BY <1>1, <1>2, <1>3, <1>4 DEF Inv, TypeOK, ResolverInv, TriedInv, SocketInv, FailedInv,
       OutcomeInv, TimeInv, EndTellsAttempts, IsOver, Newest
<1>9. QED  BY <1>5, <1>6, <1>7, <1>8 DEF Inv

-----------------------------------------------------------------------------
LEMMA StutterKeepsInv ==
    ASSUME Inv, UNCHANGED vars
    PROVE  Inv'
<1> USE DEF vars, arguments, resolver, progress, granted
<1>1. TypeOK' /\ ResolverInv' /\ TriedInv' /\ SocketInv' /\ FailedInv'
    BY DEF Inv, TypeOK, ResolverInv, TriedInv, AllPublic, SocketInv, Newest, FailedInv, IsOver
<1>2. TimeInv' /\ OutcomeInv' /\ EndTellsAttempts' /\ EndsInTime'
    BY DEF Inv, TimeInv, Guarded, OutcomeInv, EndTellsAttempts, Newest, EndsInTime
<1>3. QED  BY <1>1, <1>2 DEF Inv

LEMMA InitEstablishesInv ==
    ASSUME Init
    PROVE  Inv
<1> USE PinnedAssumption DEF PinnedAssumption, Init, Resolving, Blocked, Streaming, Trying
<1>1. TypeOK
  <2>1. deadline \in Nat /\ timeout \in Nat
      OBVIOUS
  <2>2. backend \in {"plain", "guarded", "async"} /\ now \in 0 .. MaxTime /\ until \in Nat
      OBVIOUS
  <2>3. answers \in Seq(Addresses) /\ result \in Seq(Addresses) /\ attempts \in Seq(States)
      OBVIOUS
  <2>4. QED  BY <2>1, <2>2, <2>3 DEF TypeOK
<1>2. ResolverInv /\ TriedInv /\ SocketInv /\ FailedInv
    BY DEF ResolverInv, TriedInv, AllPublic, SocketInv, FailedInv
<1>3. TimeInv /\ OutcomeInv /\ EndTellsAttempts
    BY DEF TimeInv, OutcomeInv, EndTellsAttempts
<1>4. EndsInTime
  <2>1. Least * 0 = 0
      OBVIOUS
  <2>2. QED  BY <2>1 DEF EndsInTime
<1>5. QED  BY <1>1, <1>2, <1>3, <1>4 DEF Inv

\* The inductive invariant: what the caller, the resolver's thread and the clock
\* know of each other.
THEOREM InvHolds == Spec => []Inv
<1>1. Init => Inv
    BY InitEstablishesInv
<1>2. Inv /\ [Next]_vars => Inv'
  <2> SUFFICES ASSUME Inv, [Next]_vars
               PROVE  Inv'
      OBVIOUS
  <2>1. CASE Attempt
      BY <2>1, ConnectKeepsInv, SetupFailsKeepsInv, AttemptRaisesKeepsInv,
         AttemptConnectsKeepsInv, NoneConnectsKeepsInv, AttemptFailsKeepsInv
      DEF Attempt, Failed
  <2>2. CASE Caller
      BY <2>1, <2>2, ResolveKeepsInv, PollKeepsInv, WaitEndsKeepsInv, GuardRaisesKeepsInv,
         UseResolutionKeepsInv, ValidateKeepsInv, DeadlinePassesKeepsInv, OperateKeepsInv,
         WriteKeepsInv, SendMoreKeepsInv, OperationEndsKeepsInv
      DEF Caller
  <2>3. CASE Resolver
      BY <2>3, ResolverReturnsKeepsInv, ResolverFailsKeepsInv DEF Resolver
  <2>4. QED  BY <2>2, <2>3, TickKeepsInv, StutterKeepsInv DEF Next
<1>3. QED  BY <1>1, <1>2, PTL DEF Spec

\* A socket is opened only for an address of one complete resolution all of whose
\* addresses are public, in its order, whenever the resolver finishes or fails; and
\* no two are open at a time.
THEOREM ValidatedBeforeConnect == Spec => []ConnectsToValidated
<1>1. Inv => ConnectsToValidated
    BY DEF Inv, TriedInv, AllPublic, SocketInv, ConnectsToValidated
<1>2. QED  BY <1>1, InvHolds, PTL

\* The outcome of a connection tells what became of its addresses: with a stream the
\* newest is connected and the only one open; a timeout has a passed deadline or some
\* attempt that timed out, not always the last one; and a connection error behind a
\* valid resolution has every address tried, each of them refused unless the backend
\* is asynchronous.  No error of the module leaves a socket open.
THEOREM OutcomeTellsAttempts == Spec => []EndTellsAttempts
<1>1. Inv => EndTellsAttempts
    BY DEF Inv
<1>2. QED  BY <1>1, InvHolds, PTL

\* A caller with a deadline is back in time, however late the resolver and the peers
\* are, but for the least timeout of operations that began without time left and for
\* the further sends of a write, of which the guard is not asked.
THEOREM DeadlineIsKept == Spec => []EndsInTime
<1>1. Inv => EndsInTime
    BY DEF Inv
<1>2. QED  BY <1>1, InvHolds, PTL
=============================================================================
