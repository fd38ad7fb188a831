--------------------------- MODULE MediaWait_proofs ---------------------------
(***************************************************************************)
(* Proofs about module MediaWait, for every interval, every set of         *)
(* timeouts and any number of jobs: its types, that the wait keeps the     *)
(* promise of PollUntilDeadline, and that no job is made unannounced.      *)
(*                                                                         *)
(* None of them is inductive alone.  What a call knows (CallInv) gives the *)
(* types; the times of a pause (PauseInv) give the promise, because the    *)
(* top of the loop no longer sees how long the client slept.               *)
(***************************************************************************)
EXTENDS MediaWait, FiniteSetTheorems, TLAPS

CallInv ==
    /\ post # "none" => pc = "create"
    /\ post = "taken" => made \in DOMAIN jobs /\ made \notin held
    /\ pc \in {"ready", "ask", "sleep"} => target \in held

\* A final state that was read is still the job's.
SeenInv ==
    /\ seen # "none" => pc = "ask"
    /\ seen \in Terminal => jobs[target] = seen

PauseInv ==
    /\ pc \in {"idle", "create"} => began = 0 /\ deadline = 0 /\ heard = 0 /\ asked = 0
    /\ pc = "sleep" => wake >= heard + Interval \/ wake >= deadline
    /\ pc = "ready" /\ asked > 0 => now >= heard + Interval \/ now >= deadline

Inv == TypeOK /\ CallInv /\ PauseInv

-----------------------------------------------------------------------------
\* A new job has a new ID and leaves the others as they are.
LEMMA NewJobIsNew ==
    ASSUME TypeOK, NewJob
    PROVE  /\ jobs' \in Seq(Open \cup Terminal)
           /\ DOMAIN jobs' = DOMAIN jobs \cup {Len(jobs) + 1}
           /\ Len(jobs) + 1 \notin DOMAIN jobs
           /\ \A j \in DOMAIN jobs : jobs'[j] = jobs[j]
BY DEF TypeOK, NewJob, Open

\* A job that advances stays the same job.
LEMMA AdvanceKeepsJobs ==
    ASSUME jobs \in Seq(Open \cup Terminal), NEW j \in DOMAIN jobs, Advance(j)
    PROVE  jobs' \in Seq(Open \cup Terminal) /\ DOMAIN jobs' = DOMAIN jobs
<1>1. \E s \in Open \cup Terminal : jobs' = [jobs EXCEPT ![j] = s]
  BY DEF Advance, Open
<1> QED
  BY <1>1

LEMMA CreationPreservesInv ==
    ASSUME Inv, RejectArguments \/ Create \/ Creating
    PROVE  Inv'
<1> USE DEF Inv, TypeOK, CallInv, PauseInv, EndCreate, router, creation, ledger, wait
<1>1. CASE RejectArguments
  BY <1>1 DEF RejectArguments
<1>2. CASE Create
  BY <1>2 DEF Create
<1>3. CASE Created
  BY <1>3 DEF Created
<1>4. CASE CreateRefused
  BY <1>4 DEF CreateRefused
<1>5. CASE CreateInvalid
  BY <1>5 DEF CreateInvalid, LoseCreation
<1>6. CASE CreateUnreadable
  BY <1>6 DEF CreateUnreadable, LoseCreation
<1>7. CASE CreateLost
  BY <1>7 DEF CreateLost, LoseCreation
<1> QED
  BY <1>1, <1>2, <1>3, <1>4, <1>5, <1>6, <1>7 DEF Creating

LEMMA WaitPreservesInv ==
    ASSUME Inv, Wait \/ Waiting
    PROVE  Inv'
<1> USE MediaAssumption
    DEF MediaAssumption, Inv, TypeOK, CallInv, PauseInv, EndWait, Answered,
        router, creation, ledger, wait
<1>1. CASE Wait
  BY <1>1 DEF Wait
<1>2. CASE TimeoutBeforePoll
  BY <1>2 DEF TimeoutBeforePoll
<1>3. CASE Poll
  BY <1>3 DEF Poll, SendPoll
<1>4. CASE TimeoutAfterPoll
  BY <1>4 DEF TimeoutAfterPoll
<1>5. CASE Finish
  BY <1>5 DEF Finish, Return
<1>6. CASE Pause
  BY <1>6 DEF Pause, Sleep, Least
<1>7. CASE PollFails
  BY <1>7 DEF PollFails
<1>8. CASE WakeUp
  BY <1>8 DEF WakeUp
<1> QED
  BY <1>1, <1>2, <1>3, <1>4, <1>5, <1>6, <1>7, <1>8 DEF Waiting

LEMMA RouterPreservesInv ==
    ASSUME Inv, Router \/ Tick
    PROVE  Inv'
<1> USE DEF Inv, TypeOK, CallInv, PauseInv, router, creation, ledger, wait
<1>1. CASE TakePost
  <2>1. CASE post' = "taken" /\ NewJob /\ made' = Len(jobs) + 1
    BY <1>1, <2>1, NewJobIsNew DEF TakePost
  <2>2. CASE post' = "refused" /\ UNCHANGED <<jobs, made>>
    BY <1>1, <2>2 DEF TakePost
  <2> QED
    BY <1>1, <2>1, <2>2 DEF TakePost
<1>2. CASE TakeLatePost
  BY <1>2, NewJobIsNew DEF TakeLatePost
<1>3. CASE ReadJob
  BY <1>3 DEF ReadJob
<1>4. ASSUME NEW j \in DOMAIN jobs, Advance(j) PROVE Inv'
  <2>1. jobs' \in Seq(Open \cup Terminal) /\ DOMAIN jobs' = DOMAIN jobs
    BY <1>4, AdvanceKeepsJobs
  <2>2. UNCHANGED <<now, late, creation, ledger, pc, wait, seen, outcome>>
    BY <1>4 DEF Advance
  <2> QED
    BY <2>1, <2>2
<1>5. CASE Tick
  BY <1>5, MediaAssumption DEF MediaAssumption, Tick
<1> QED
  BY <1>1, <1>2, <1>3, <1>4, <1>5 DEF Router

LEMMA InvIsInvariant == Spec => []Inv
<1>1. Init => Inv
  BY DEF Init, Inv, TypeOK, CallInv, PauseInv
<1>2. Inv /\ [Next]_vars => Inv'
  <2>1. Inv /\ UNCHANGED vars => Inv'
    BY DEF Inv, TypeOK, CallInv, PauseInv, vars, router, creation, ledger, wait
  <2> QED
    BY <2>1, CreationPreservesInv, WaitPreservesInv, RouterPreservesInv DEF Next
<1> QED
  BY <1>1, <1>2, PTL DEF Spec

\* The client's variables and the Router's have their types in every state that
\* create_media_job, wait_media_job and the Router reach.
THEOREM TypeCorrect == Spec => []TypeOK
BY InvIsInvariant, PTL DEF Inv

-----------------------------------------------------------------------------
LEMMA SeenInvIsInvariant == Spec => []SeenInv
<1> USE DEF SeenInv, Terminal
<1>1. Init => SeenInv
  BY DEF Init
<1>2. Inv /\ SeenInv /\ [Next]_vars => SeenInv'
  <2> SUFFICES ASSUME Inv, SeenInv, [Next]_vars PROVE SeenInv'
    OBVIOUS
  <2> USE DEF router, creation, ledger, wait
  <2>1. CASE RejectArguments \/ Create \/ Creating \/ Wait \/ Tick \/ UNCHANGED vars
    <3>1. UNCHANGED <<seen, jobs>> /\ (seen # "none" => UNCHANGED <<pc, target>>)
      BY <2>1 DEF RejectArguments, Create, Creating, Created, CreateRefused, CreateInvalid,
                  CreateUnreadable, CreateLost, LoseCreation, EndCreate, Wait, Tick, vars
    <3> QED
      BY <3>1
  <2>2. CASE Waiting
    <3>1. seen' = "none"
      BY <2>2 DEF Waiting, TimeoutBeforePoll, Poll, SendPoll, TimeoutAfterPoll, Finish,
                  Return, Pause, Sleep,
                  PollFails, WakeUp, EndWait
    <3> QED
      BY <3>1
  <2>3. CASE TakePost \/ TakeLatePost
    <3>1. UNCHANGED <<pc, target, seen>> /\ (UNCHANGED jobs \/ NewJob)
      BY <2>3 DEF TakePost, TakeLatePost
    <3>2. seen # "none" => target \in DOMAIN jobs
      BY DEF Inv, CallInv, TypeOK
    <3>3. target \in DOMAIN jobs => jobs'[target] = jobs[target]
      BY <3>1, NewJobIsNew DEF Inv
    <3> QED
      BY <3>1, <3>2, <3>3
  <2>4. CASE ReadJob
    BY <2>4 DEF ReadJob
  <2>5. ASSUME NEW j \in DOMAIN jobs, Advance(j) PROVE SeenInv'
    <3>1. UNCHANGED <<pc, target, seen>>
      BY <2>5 DEF Advance
    <3>2. seen \in Terminal => j # target
      BY <2>5 DEF Advance, Open
    <3>3. target \in DOMAIN jobs /\ j # target => jobs'[target] = jobs[target]
      BY <2>5 DEF Advance, Inv, TypeOK
    <3>4. seen # "none" => target \in DOMAIN jobs
      BY DEF Inv, CallInv, TypeOK
    <3> QED
      BY <3>1, <3>2, <3>3, <3>4
  <2> QED
    BY <2>1, <2>2, <2>3, <2>4, <2>5 DEF Next, Router
<1> QED
  BY <1>1, <1>2, InvIsInvariant, PTL DEF Spec

\* A job that a wait returns was returned in time and in its final state.
THEOREM WaitFinishesInTime == Spec => FinishedInTime
<1> DEFINE Returned ==
      pc = "ask" /\ pc' = "idle" /\ outcome' \in Terminal
          => now < deadline /\ target \in held /\ jobs[target] = outcome'
<1>1. Inv /\ SeenInv /\ [Next]_vars => [Returned]_vars
  <2> SUFFICES ASSUME Inv, SeenInv, Next, pc = "ask", pc' = "idle", outcome' \in Terminal
               PROVE  now < deadline /\ target \in held /\ jobs[target] = outcome'
    OBVIOUS
  <2>1. Finish
    BY DEF Next, RejectArguments, Create, Creating, Created, CreateRefused, CreateInvalid,
           CreateUnreadable, CreateLost, LoseCreation, EndCreate, Wait, Waiting,
           TimeoutBeforePoll, Poll, SendPoll, TimeoutAfterPoll,
           Pause, Sleep, PollFails, WakeUp, EndWait, Router, TakePost, TakeLatePost,
           ReadJob,
           Advance, Tick, Terminal
  <2> QED
    BY <2>1 DEF Finish, Return, Answered, EndWait, Inv, CallInv, SeenInv
<1> QED
  BY <1>1, InvIsInvariant, SeenInvIsInvariant, PTL DEF Spec, FinishedInTime

\* wait_media_job keeps the promise of PollUntilDeadline: one request at a time, none
\* once the deadline has passed, and a pause of Interval before each but the first.
THEOREM WaitPolls == Spec => Polls
<1> USE MediaAssumption
    DEF MediaAssumption, router, creation, ledger, wait
<1>1. Init => Polling!Init
  BY DEF Init, Polling!Init
<1>2. Inv /\ [Next]_vars => [Polling!Next]_Polling!vars
  <2> SUFFICES ASSUME Inv, [Next]_vars PROVE [Polling!Next]_Polling!vars
    OBVIOUS
  <2> USE DEF Inv, TypeOK, CallInv, PauseInv, Polling!vars
  <2>1. CASE RejectArguments \/ Create \/ Creating
    BY <2>1 DEF RejectArguments, Create, Creating, Created, CreateRefused, CreateInvalid,
                CreateUnreadable, CreateLost, LoseCreation, EndCreate
  <2>2. CASE Wait
    <3>1. Polling!Begin
      BY <2>2 DEF Wait, Polling!Begin, Polling!Start
    <3> QED
      BY <3>1 DEF Polling!Next
  <2>3. CASE TimeoutBeforePoll \/ TimeoutAfterPoll \/ Finish \/ PollFails
    <3>1. Polling!End
      BY <2>3 DEF TimeoutBeforePoll, TimeoutAfterPoll, Finish, Return, PollFails,
                  Answered, EndWait,
                  Polling!End, Polling!Idle
    <3> QED
      BY <3>1 DEF Polling!Next
  <2>4. CASE Poll
    <3>1. Polling!Ask
      BY <2>4 DEF Poll, SendPoll, Polling!Ask
    <3> QED
      BY <3>1 DEF Polling!Next
  <2>5. CASE Pause
    <3>1. Polling!Answer
      BY <2>5 DEF Pause, Sleep, Answered, Polling!Answer
    <3> QED
      BY <3>1 DEF Polling!Next
  <2>6. CASE WakeUp
    BY <2>6 DEF WakeUp
  <2>7. CASE Router
    BY <2>7 DEF Router, TakePost, TakeLatePost, ReadJob, Advance
  <2>8. CASE Tick
    <3>1. now' \in 0 .. MaxTime /\ now' > now
      BY <2>8 DEF Tick
    <3>2. UNCHANGED <<pc, began, deadline, heard, asked>>
      BY <2>8 DEF Tick
    <3>3. Polling!Pass
      BY <3>1, <3>2 DEF Polling!Pass
    <3> QED
      BY <3>3 DEF Polling!Next
  <2>9. CASE UNCHANGED vars
    BY <2>9 DEF vars
  <2> QED
    BY <2>1, <2>2, <2>3, <2>4, <2>5, <2>6, <2>7, <2>8, <2>9 DEF Next, Waiting
<1> QED
  BY <1>1, <1>2, InvIsInvariant, PTL DEF Spec, Polls, Polling!Spec

\* Every request but the last one took an interval of the time that has passed.
Spaced ==
    /\ began <= now
    /\ pc \in {"ready", "sleep"} /\ asked > 0 => heard >= began + (asked - 1) * Interval
    /\ pc = "ask" => asked > 0 /\ now >= began + (asked - 1) * Interval

\* The top of the loop is reached an interval after the answer or too late to poll.
LEMMA PollIsSpaced ==
    ASSUME Inv, Spaced, Poll
    PROVE  now >= began + asked * Interval
<1> USE MediaAssumption DEF MediaAssumption, Inv, TypeOK, PauseInv, Spaced, Poll, SendPoll
<1>1. CASE asked = 0
  BY <1>1
<1>2. CASE asked > 0
  <2>1. heard >= began + (asked - 1) * Interval /\ now >= heard + Interval
    BY <1>2
  <2>2. (asked - 1) * Interval + Interval = asked * Interval
    OBVIOUS
  <2>3. asked * Interval \in Int /\ (asked - 1) * Interval \in Int
    OBVIOUS
  <2> QED
    BY <2>1, <2>2, <2>3
<1> QED
  BY <1>1, <1>2

LEMMA NextPreservesSpacing ==
    ASSUME Inv, Spaced, PollsBounded, [Next]_vars
    PROVE  Spaced' /\ PollsBounded'
<1> USE MediaAssumption
    DEF MediaAssumption, Inv, TypeOK, CallInv, PauseInv, Spaced, PollsBounded,
        Polling!RequestsBounded, router, creation, ledger, wait
<1>1. CASE RejectArguments \/ Create \/ Creating
  BY <1>1 DEF RejectArguments, Create, Creating, Created, CreateRefused, CreateInvalid,
              CreateUnreadable, CreateLost, LoseCreation, EndCreate
<1>2. CASE Wait
  BY <1>2 DEF Wait
<1>3. CASE TimeoutBeforePoll \/ TimeoutAfterPoll \/ Finish \/ PollFails
  BY <1>3 DEF TimeoutBeforePoll, TimeoutAfterPoll, Finish, Return, PollFails, EndWait
<1>4. CASE Poll
  <2>1. now >= began + asked * Interval
    BY <1>4, PollIsSpaced
  <2>2. /\ asked' = asked + 1 /\ asked' > 0 /\ asked' - 1 = asked
        /\ pc' = "ask" /\ now < deadline
        /\ UNCHANGED <<now, began, deadline>>
    BY <1>4 DEF Poll, SendPoll
  <2>3. asked * Interval \in Int
    OBVIOUS
  <2> QED
    BY <2>1, <2>2, <2>3
<1>5. CASE Pause
  <2>1. /\ pc = "ask" /\ pc' = "sleep" /\ heard' = now
        /\ UNCHANGED <<now, began, deadline, asked>>
    BY <1>5 DEF Pause, Sleep, Answered
  <2> QED
    BY <2>1
<1>6. CASE WakeUp
  BY <1>6 DEF WakeUp
<1>7. CASE Router
  BY <1>7 DEF Router, TakePost, TakeLatePost, ReadJob, Advance
<1>8. CASE Tick
  BY <1>8 DEF Tick
<1>9. CASE UNCHANGED vars
  BY <1>9 DEF vars
<1> QED
  BY <1>1, <1>2, <1>3, <1>4, <1>5, <1>6, <1>7, <1>8, <1>9 DEF Next, Waiting

\* The Router is asked at most once at the beginning of a wait and once for every
\* whole interval of its timeout.
THEOREM WaitRequestsAreBounded == Spec => []PollsBounded
<1>1. Init => Spaced /\ PollsBounded
  BY DEF Init, Spaced, PollsBounded, Polling!RequestsBounded
<1>2. Inv /\ Spaced /\ PollsBounded /\ [Next]_vars => Spaced' /\ PollsBounded'
  BY NextPreservesSpacing
<1> QED
  BY <1>1, <1>2, InvIsInvariant, PTL DEF Spec

-----------------------------------------------------------------------------
Current == IF post = "taken" THEN {made} ELSE {}

\* The jobs that no later call can be about.
Unnamed == DOMAIN jobs \ (held \cup Current)

LEMMA UnnamedIsFinite ==
    ASSUME TypeOK
    PROVE  IsFiniteSet(Unnamed) /\ Cardinality(Unnamed) \in Nat
<1>1. DOMAIN jobs = 1 .. Len(jobs) /\ Len(jobs) \in Nat
  BY DEF TypeOK
<1>2. IsFiniteSet(DOMAIN jobs)
  BY <1>1, FS_Interval
<1> QED
  BY <1>2, FS_Subset, FS_CardinalityType DEF Unnamed

\* One more job cannot add more than one.
LEMMA OneMoreUnnamed ==
    ASSUME TypeOK, TypeOK', NEW j, Unnamed' \subseteq Unnamed \cup {j}
    PROVE  Cardinality(Unnamed') <= Cardinality(Unnamed) + 1
<1>1. IsFiniteSet(Unnamed) /\ Cardinality(Unnamed) \in Nat
  BY UnnamedIsFinite
<1>2. /\ IsFiniteSet(Unnamed \cup {j})
      /\ Cardinality(Unnamed \cup {j}) \in Nat
      /\ Cardinality(Unnamed \cup {j}) <= Cardinality(Unnamed) + 1
  BY <1>1, FS_AddElement, FS_CardinalityType
<1>3. /\ Cardinality(Unnamed') <= Cardinality(Unnamed \cup {j})
      /\ Cardinality(Unnamed') \in Nat
  BY <1>2, FS_Subset, FS_CardinalityType
<1> QED
  BY <1>1, <1>2, <1>3

\* A job that exists, or may yet be made, without its ID in the caller's hands was
\* announced by a failed creation or is that of one that ended in a ValueError,
\* whenever the Router takes its requests.
THEOREM UnnamedAnnounced == Spec => []UnnamedJobsAreAnnounced
<1> DEFINE Announced == Cardinality(Unnamed) + late <= announced + unread
<1>1. Init => Announced
  BY FS_EmptySet DEF Init, Unnamed
<1>2. Inv /\ Inv' /\ Announced /\ [Next]_vars => Announced'
  <2> SUFFICES ASSUME Inv, Inv', Announced, [Next]_vars PROVE Announced'
    OBVIOUS
  <2> USE DEF Inv, CallInv, router, creation, ledger, wait
  <2>0. /\ late \in Nat /\ announced \in Nat /\ unread \in Nat
        /\ Cardinality(Unnamed) \in Nat /\ Cardinality(Unnamed') \in Nat
    <3>1. Cardinality(Unnamed) \in Nat
      BY UnnamedIsFinite
    <3>2. Unnamed' \subseteq DOMAIN jobs'
      BY DEF Unnamed
    <3>3. IsFiniteSet(DOMAIN jobs')
      <4>1. jobs' \in Seq(Open \cup Terminal)
        BY DEF TypeOK
      <4>2. DOMAIN jobs' = 1 .. Len(jobs') /\ Len(jobs') \in Nat
        BY <4>1
      <4> QED
        BY <4>2, FS_Interval
    <3>4. IsFiniteSet(Unnamed')
      BY <3>2, <3>3, FS_Subset
    <3>5. Cardinality(Unnamed') \in Nat
      BY <3>4, FS_CardinalityType
    <3> QED
      BY <3>1, <3>5 DEF TypeOK
  <2>1. ASSUME Unnamed' = Unnamed, late' = late, UNCHANGED <<announced, unread>> PROVE Announced'
    BY <2>1
  <2>2. CASE CreateInvalid \/ CreateUnreadable \/ CreateLost
    <3>1. Unnamed' \subseteq Unnamed \cup {made}
      BY <2>2 DEF CreateInvalid, CreateUnreadable, CreateLost, LoseCreation, EndCreate,
                  Unnamed, Current
    <3>2. announced' + unread' = announced + unread + 1 /\ late' \in {late, late + 1}
      BY <2>0, <2>2 DEF CreateInvalid, CreateUnreadable, CreateLost, LoseCreation, EndCreate
    <3>3. CASE late' = late
      BY <2>0, <3>1, <3>2, <3>3, OneMoreUnnamed
    <3>4. CASE late' = late + 1
      <4>1. Unnamed' = Unnamed
        BY <2>0, <2>2, <3>4 DEF CreateInvalid, CreateUnreadable, CreateLost,
                                LoseCreation, EndCreate,
                                Unnamed, Current
      <4> QED
        BY <2>0, <3>2, <3>4, <4>1
    <3> QED
      BY <3>2, <3>3, <3>4
  <2>3. CASE TakeLatePost
    <3>1. Unnamed' \subseteq Unnamed \cup {Len(jobs) + 1}
      BY <2>3, NewJobIsNew DEF TakeLatePost, Unnamed, Current
    <3>2. UNCHANGED <<announced, unread>> /\ late' = late - 1
      BY <2>3 DEF TakeLatePost
    <3>3. Cardinality(Unnamed') <= Cardinality(Unnamed) + 1
      BY <3>1, OneMoreUnnamed
    <3> QED
      BY <2>0, <3>2, <3>3
  <2>4. CASE TakePost
    <3>1. Unnamed' = Unnamed
      BY <2>4, NewJobIsNew DEF TakePost, TypeOK, Unnamed, Current
    <3>2. late' = late /\ UNCHANGED <<announced, unread>>
      BY <2>4 DEF TakePost
    <3> QED
      BY <2>1, <3>1, <3>2
  <2>5. CASE Created
    <3>1. Unnamed' = Unnamed
      BY <2>5 DEF Created, EndCreate, Unnamed, Current
    <3>2. late' = late /\ UNCHANGED <<announced, unread>>
      BY <2>5, <2>0 DEF Created, EndCreate
    <3> QED
      BY <2>1, <3>1, <3>2
  <2>6. CASE RejectArguments \/ Create \/ CreateRefused \/ UNCHANGED vars
    <3>1. Unnamed' = Unnamed
      BY <2>6 DEF RejectArguments, Create, CreateRefused, EndCreate, vars, Unnamed, Current
    <3>2. late' = late /\ UNCHANGED <<announced, unread>>
      BY <2>6, <2>0 DEF RejectArguments, Create, CreateRefused, EndCreate, vars
    <3> QED
      BY <2>1, <3>1, <3>2
  <2>7. CASE Wait \/ Waiting \/ ReadJob \/ Tick
    <3>1. UNCHANGED <<jobs, late, post, made, held, announced, unread>>
      BY <2>7 DEF Wait, Waiting, TimeoutBeforePoll, Poll, SendPoll, TimeoutAfterPoll,
                  Finish, Return,
                  Pause, Sleep, PollFails, WakeUp, EndWait, ReadJob, Tick
    <3>2. Unnamed' = Unnamed
      BY <3>1 DEF Unnamed, Current
    <3> QED
      BY <2>1, <3>1, <3>2
  <2>8. ASSUME NEW j \in DOMAIN jobs, Advance(j) PROVE Announced'
    <3>1. DOMAIN jobs' = DOMAIN jobs
      BY <2>8 DEF Advance, TypeOK
    <3> QED
      BY <2>1, <2>8, <3>1 DEF Advance, Unnamed, Current
  <2> QED
    BY <2>2, <2>3, <2>4, <2>5, <2>6, <2>7, <2>8 DEF Next, Creating, Router
<1>3. Announced => UnnamedJobsAreAnnounced
  BY DEF UnnamedJobsAreAnnounced, Unnamed, Current
<1> QED
  BY <1>1, <1>2, <1>3, InvIsInvariant, PTL DEF Spec
=============================================================================
