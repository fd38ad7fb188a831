-------------------------- MODULE ModelCalls_proofs --------------------------
(***************************************************************************)
(* Theorems about model calls through RouterClient: what becomes of the    *)
(* unary calls of any turns over any number of threads, and what a         *)
(* streamed call shows its consumer, whatever bytes come in any chunks.    *)
(***************************************************************************)
EXTENDS RouterCalls, ModelStream, FiniteSetTheorems, SequenceTheorems, TLAPS

-----------------------------------------------------------------------------
(***************************************************************************)
(* Unary calls.  A request is sent only while its turn awaits it, so the   *)
(* requests of a turn are sent in the order of its calls, and none after   *)
(* its end.  The second call follows an answer "reported", which the       *)
(* Router gives only in place of a result, and which is its last word.     *)
(***************************************************************************)

Exact(t) == <<t, "exact">>
Assigned(t) == <<t, "assignment">>

\* What has not been begun has left no trace.
QueueInv ==
    \A i \in 1 .. Len(queue) :
        router[queue[i]] = "none" /\ answer[queue[i]] = "none" /\ queue[i] \notin running

QueueIsInjective ==
    \A i, j \in 1 .. Len(queue) : queue[i] = queue[j] => i = j

\* A turn has only the calls it has made.
MadeInv ==
    /\ \A i \in 1 .. Len(queue) : pc[queue[i][1]] \in {queue[i][2], "done"}
    /\ \A t \in Turns : pc[t] = "ready" =>
          router[Exact(t)] = "none" /\ answer[Exact(t)] = "none"
    /\ \A t \in Turns : pc[t] \in {"ready", "exact"} =>
          router[Assigned(t)] = "none" /\ answer[Assigned(t)] = "none"

\* An answer is about what the Router did.
AnswerInv ==
    /\ \A c \in running : router[c] # "none" /\ answer[c] = "none"
    /\ \A c \in Calls :
          /\ answer[c] = "result" => router[c] = "executed"
          /\ answer[c] \in {"reported", "api"} => router[c] = "refused"

\* The second call of a turn follows a first one that was refused, or none.
SecondInv ==
    \A t \in Turns :
        pc[t] = "assignment" \/ router[Assigned(t)] # "none"
            => router[Exact(t)] \in {"none", "refused"}

EndInv ==
    /\ \A t \in Turns : outcome[t] # "none" => pc[t] = "done"
    /\ EndTellsExecution

Inv == TypeOK /\ QueueInv /\ QueueIsInjective /\ MadeInv /\ AnswerInv /\ SecondInv /\ EndInv

-----------------------------------------------------------------------------
LEMMA CallsOfTurn ==
    \A t \in Turns : Exact(t) \in Calls /\ Assigned(t) \in Calls
BY DEF Exact, Assigned, Calls, Selectors

LEMMA InitInv == Init => Inv
<1> SUFFICES ASSUME Init PROVE Inv
  OBVIOUS
<1> USE DEF Init
<1>1. TypeOK
  BY DEF TypeOK, Calls
<1>2. QueueInv /\ QueueIsInjective
  BY DEF QueueInv, QueueIsInjective
<1>3. MadeInv
  BY CallsOfTurn DEF MadeInv
<1>4. AnswerInv
  BY DEF AnswerInv
<1>5. SecondInv
  BY CallsOfTurn DEF SecondInv
<1>6. EndInv
  BY DEF EndInv, EndTellsExecution, Taken, Calls
<1> QED
  BY <1>1, <1>2, <1>3, <1>4, <1>5, <1>6 DEF Inv

-----------------------------------------------------------------------------
\* A turn ends, and its ending says the truth.
LEMMA DonePreservesInv ==
    ASSUME Inv, NEW t \in Turns, pc[t] # "done",
           NEW result \in {"result", "before", "uncertain", "api", "protocol", "value",
                           "cancelled"},
           Done(t, result),
           UNCHANGED <<queue, running, router, answer>>,
           result = "result" => \E s \in Selectors : router[<<t, s>>] = "executed",
           result \in {"before", "api"} =>
               \A s \in Selectors : router[<<t, s>>] \notin Taken
    PROVE  Inv'
<1> USE DEF Inv
<1>1. TypeOK'
  BY DEF TypeOK, Done
<1>2. /\ pc' = [pc EXCEPT ![t] = "done"] /\ pc \in [Turns -> Selectors \cup {"ready", "done"}]
      /\ outcome' = [outcome EXCEPT ![t] = result]
      /\ outcome' \in [Turns -> {"none", "result", "before", "uncertain", "api", "protocol",
                                "value", "cancelled"}]
      /\ \A i \in 1 .. Len(queue) : queue[i] \in Calls
  BY <1>1 DEF TypeOK, Done
<1>3. QueueInv' /\ QueueIsInjective'
  BY DEF QueueInv, QueueIsInjective
<1>4. MadeInv'
  BY <1>2 DEF MadeInv, Selectors, Calls
<1>5. AnswerInv'
  BY DEF AnswerInv
<1>6. SecondInv'
  BY <1>2 DEF SecondInv, Selectors
<1>7. EndInv'
  BY <1>2 DEF EndInv, EndTellsExecution
<1> QED
  BY <1>1, <1>3, <1>4, <1>5, <1>6, <1>7

\* A turn makes its first call, or the second one behind a refused first one.
LEMMA AwaitPreservesInv ==
    ASSUME Inv, NEW t \in Turns, NEW selector \in Selectors,
           \/ pc[t] = "ready"
           \/ pc[t] = "exact" /\ selector = "assignment" /\ router[Exact(t)] = "refused",
           Await(t, selector),
           UNCHANGED <<running, router, answer, outcome>>
    PROVE  Inv'
<1> USE DEF Inv
<1>1. TypeOK'
  BY DEF TypeOK, Await, Calls
<1>2. /\ pc' = [pc EXCEPT ![t] = selector] /\ pc \in [Turns -> Selectors \cup {"ready", "done"}]
      /\ queue \in Seq(Calls) /\ queue' = Append(queue, <<t, selector>>)
      /\ <<t, selector>> \in Calls
  BY DEF TypeOK, Await, Calls
<1>3. /\ Len(queue') = Len(queue) + 1 /\ Len(queue) \in Nat
      /\ \A i \in 1 .. Len(queue) : queue'[i] = queue[i] /\ queue[i] \in Calls
      /\ queue'[Len(queue) + 1] = <<t, selector>>
  BY <1>2
<1>4. router[<<t, selector>>] = "none" /\ answer[<<t, selector>>] = "none"
  BY DEF MadeInv, AnswerInv, Selectors, Exact, Assigned, Calls, TypeOK
<1>5. <<t, selector>> \notin running
  BY <1>4 DEF AnswerInv
<1>6. \A i \in 1 .. Len(queue) : queue[i] # <<t, selector>>
  BY <1>3 DEF MadeInv, Selectors, Calls
<1>7. QueueInv'
  BY <1>3, <1>4, <1>5 DEF QueueInv
<1>8. QueueIsInjective'
  BY <1>3, <1>6 DEF QueueIsInjective
<1>9. MadeInv'
  <2>1. ASSUME NEW i \in 1 .. Len(queue)
        PROVE  pc'[queue[i][1]] \in {queue[i][2], "done"}
    <3>1. PICK u \in Turns, s \in Selectors : queue[i] = <<u, s>>
      BY <1>3 DEF Calls
    <3>2. pc[u] \in {s, "done"} /\ router[<<u, s>>] = "none"
      BY <3>1 DEF MadeInv, QueueInv
    <3>3. u # t
      BY <3>2 DEF Selectors, Exact
    <3> QED
      BY <1>2, <3>1, <3>2, <3>3
  <2>2. \A i \in 1 .. Len(queue') : pc'[queue'[i][1]] \in {queue'[i][2], "done"}
    BY <1>2, <1>3, <2>1
  <2> QED
    BY <1>2, <2>2 DEF MadeInv, Selectors
<1>10. AnswerInv'
  BY DEF AnswerInv
<1>11. SecondInv'
  BY <1>2 DEF SecondInv, MadeInv, Selectors
<1>12. EndInv'
  BY <1>2 DEF EndInv, EndTellsExecution
<1> QED
  BY <1>1, <1>7, <1>8, <1>9, <1>10, <1>11, <1>12

-----------------------------------------------------------------------------
\* A thread takes the first call of the queue.
LEMMA TailOfQueue ==
    ASSUME TypeOK, queue # <<>>, queue' = Tail(queue)
    PROVE  /\ queue' \in Seq(Calls)
           /\ Head(queue) = queue[1] /\ Head(queue) \in Calls
           /\ 1 \in 1 .. Len(queue)
           /\ Len(queue') = Len(queue) - 1
           /\ \A i \in 1 .. Len(queue') : i + 1 \in 2 .. Len(queue) /\ queue'[i] = queue[i + 1]
BY DEF TypeOK

LEMMA SkipPreservesInv == Inv /\ SkipCancelled => Inv'
<1> SUFFICES ASSUME Inv, SkipCancelled PROVE Inv'
  OBVIOUS
<1> USE DEF Inv
<1>1. queue # <<>> /\ queue' = Tail(queue) /\ UNCHANGED <<pc, running, router, answer, outcome>>
  BY DEF SkipCancelled, HasWork
<1>2. TypeOK'
  BY <1>1, TailOfQueue DEF TypeOK
<1>3. QueueInv' /\ QueueIsInjective'
  BY <1>1, TailOfQueue DEF QueueInv, QueueIsInjective
<1>4. MadeInv'
  BY <1>1, TailOfQueue DEF MadeInv
<1>5. AnswerInv' /\ SecondInv' /\ EndInv'
  BY <1>1 DEF AnswerInv, SecondInv, EndInv, EndTellsExecution
<1> QED
  BY <1>2, <1>3, <1>4, <1>5

\* What both ways to begin the first call of the queue have in common: it is the
\* call its turn awaits, it has left no trace yet, and it leaves the queue.
LEMMA FirstCall ==
    ASSUME Inv, queue # <<>>, IsAwaited(Head(queue)), queue' = Tail(queue)
    PROVE  \E t \in Turns, s \in Selectors :
              /\ Head(queue) = <<t, s>> /\ pc[t] = s
              /\ router[<<t, s>>] = "none" /\ answer[<<t, s>>] = "none"
              /\ <<t, s>> \notin running
              /\ \A i \in 1 .. Len(queue') : queue'[i] # <<t, s>> /\ queue'[i] \in Calls
<1> USE DEF Inv
<1>1. PICK t \in Turns, s \in Selectors : Head(queue) = <<t, s>>
  BY TailOfQueue DEF Calls
<1>2. pc[t] = s
  BY <1>1 DEF IsAwaited
<1>3. router[<<t, s>>] = "none" /\ answer[<<t, s>>] = "none" /\ <<t, s>> \notin running
  BY <1>1, TailOfQueue DEF QueueInv
<1>4. \A i \in 1 .. Len(queue') : queue'[i] # <<t, s>> /\ queue'[i] \in Calls
  BY <1>1, TailOfQueue DEF QueueIsInjective
<1> QED
  BY <1>1, <1>2, <1>3, <1>4

LEMMA SendPreservesInv == Inv /\ SendRequest => Inv'
<1> SUFFICES ASSUME Inv, SendRequest PROVE Inv'
  OBVIOUS
<1> USE DEF Inv
<1>1. /\ queue # <<>> /\ IsAwaited(Head(queue)) /\ queue' = Tail(queue)
      /\ running' = running \cup {Head(queue)}
      /\ router' = [router EXCEPT ![Head(queue)] = "sent"]
      /\ pc' = pc /\ answer' = answer /\ outcome' = outcome
  BY DEF SendRequest, HasWork
<1>2. PICK t \in Turns, s \in Selectors :
         /\ Head(queue) = <<t, s>> /\ pc[t] = s
         /\ router[<<t, s>>] = "none" /\ answer[<<t, s>>] = "none"
         /\ <<t, s>> \notin running
         /\ \A i \in 1 .. Len(queue') : queue'[i] # <<t, s>> /\ queue'[i] \in Calls
  BY <1>1, FirstCall
<1>3. TypeOK'
  BY <1>1, <1>2, TailOfQueue DEF TypeOK, Calls
<1>4. /\ router \in [Calls -> {"none", "sent", "executed", "refused"}]
      /\ <<t, s>> \in Calls
      /\ \A c \in Calls : router'[c] = IF c = <<t, s>> THEN "sent" ELSE router[c]
  BY <1>1, <1>2 DEF TypeOK, Calls
<1>5. QueueInv'
  <2> SUFFICES ASSUME NEW i \in 1 .. Len(queue')
               PROVE  /\ router'[queue'[i]] = "none" /\ answer[queue'[i]] = "none"
                      /\ queue'[i] \notin running'
    BY <1>1 DEF QueueInv
  <2>1. i + 1 \in 1 .. Len(queue) /\ queue'[i] = queue[i + 1]
    BY <1>1, TailOfQueue
  <2> QED
    BY <1>1, <1>2, <1>4, <2>1 DEF QueueInv
<1>6. QueueIsInjective'
  BY <1>1, TailOfQueue DEF QueueIsInjective
<1>7. MadeInv'
  <2>1. \A i \in 1 .. Len(queue') : pc'[queue'[i][1]] \in {queue'[i][2], "done"}
    BY <1>1, TailOfQueue DEF MadeInv
  <2> QED
    BY <1>1, <1>2, <1>4, <2>1, CallsOfTurn DEF MadeInv, Exact, Assigned, Selectors
<1>8. AnswerInv'
  BY <1>1, <1>2, <1>4 DEF AnswerInv, TypeOK
<1>9. SecondInv'
  BY <1>1, <1>2, <1>4, CallsOfTurn DEF SecondInv, MadeInv, Exact, Assigned, Selectors
<1>10. EndInv'
  BY <1>1, <1>2, <1>4 DEF EndInv, EndTellsExecution, Calls, Selectors, Taken
<1> QED
  BY <1>3, <1>5, <1>6, <1>7, <1>8, <1>9, <1>10

LEMMA RejectPreservesInv == Inv /\ RejectRequest => Inv'
<1> SUFFICES ASSUME Inv, RejectRequest PROVE Inv'
  OBVIOUS
<1> USE DEF Inv
<1>1. /\ queue # <<>> /\ IsAwaited(Head(queue)) /\ queue' = Tail(queue)
      /\ answer' = [answer EXCEPT ![Head(queue)] = "value"]
      /\ pc' = pc /\ running' = running /\ router' = router /\ outcome' = outcome
  BY DEF RejectRequest, HasWork
<1>2. PICK t \in Turns, s \in Selectors :
         /\ Head(queue) = <<t, s>> /\ pc[t] = s
         /\ router[<<t, s>>] = "none" /\ answer[<<t, s>>] = "none"
         /\ <<t, s>> \notin running
         /\ \A i \in 1 .. Len(queue') : queue'[i] # <<t, s>> /\ queue'[i] \in Calls
  BY <1>1, FirstCall
<1>3. TypeOK'
  BY <1>1, <1>2, TailOfQueue DEF TypeOK, Calls
<1>4. /\ <<t, s>> \in Calls
      /\ \A c \in Calls : answer'[c] = IF c = <<t, s>> THEN "value" ELSE answer[c]
  BY <1>1, <1>2 DEF TypeOK, Calls
<1>5. QueueInv'
  <2> SUFFICES ASSUME NEW i \in 1 .. Len(queue')
               PROVE  /\ router[queue'[i]] = "none" /\ answer'[queue'[i]] = "none"
                      /\ queue'[i] \notin running
    BY <1>1 DEF QueueInv
  <2>1. i + 1 \in 1 .. Len(queue) /\ queue'[i] = queue[i + 1]
    BY <1>1, TailOfQueue
  <2> QED
    BY <1>2, <1>4, <2>1 DEF QueueInv
<1>6. QueueIsInjective'
  BY <1>1, TailOfQueue DEF QueueIsInjective
<1>7. MadeInv'
  <2>1. \A i \in 1 .. Len(queue') : pc'[queue'[i][1]] \in {queue'[i][2], "done"}
    BY <1>1, TailOfQueue DEF MadeInv
  <2> QED
    BY <1>1, <1>2, <1>4, <2>1, CallsOfTurn DEF MadeInv, Exact, Assigned, Selectors
<1>8. AnswerInv'
  BY <1>1, <1>2, <1>4 DEF AnswerInv, TypeOK
<1>9. SecondInv' /\ EndInv'
  BY <1>1 DEF SecondInv, EndInv, EndTellsExecution
<1> QED
  BY <1>3, <1>5, <1>6, <1>7, <1>8, <1>9

-----------------------------------------------------------------------------
\* A thread ends with an answer that tells what the Router did.
LEMMA EndCallPreservesInv ==
    ASSUME Inv, NEW c \in Calls,
           NEW ending \in {"result", "reported", "api", "protocol", "lost", "value"},
           EndCall(c, ending),
           ending = "result" => router[c] = "executed",
           ending \in {"reported", "api"} => router[c] = "refused"
    PROVE  Inv'
<1> USE DEF Inv
<1>1. /\ c \in running /\ running' = running \ {c}
      /\ \A d \in Calls : answer'[d] = IF d = c THEN ending ELSE answer[d]
      /\ pc' = pc /\ queue' = queue /\ router' = router /\ outcome' = outcome
  BY DEF EndCall, TypeOK
<1>2. router[c] # "none"
  BY <1>1 DEF AnswerInv
<1>3. TypeOK'
  BY DEF TypeOK, EndCall
<1>4. QueueInv' /\ QueueIsInjective'
  BY <1>1, <1>2 DEF QueueInv, QueueIsInjective, TypeOK
<1>5. MadeInv'
  BY <1>1, <1>2, CallsOfTurn DEF MadeInv
<1>6. AnswerInv'
  BY <1>1, <1>2 DEF AnswerInv, TypeOK
<1>7. SecondInv' /\ EndInv'
  BY <1>1 DEF SecondInv, EndInv, EndTellsExecution
<1> QED
  BY <1>3, <1>4, <1>5, <1>6, <1>7

LEMMA TakePreservesInv == ASSUME Inv, NEW c \in Calls, Take(c) PROVE Inv'
<1> USE DEF Inv
<1>1. /\ router[c] = "sent"
      /\ router' \in [Calls -> {"none", "sent", "executed", "refused"}]
      /\ router'[c] \in {"executed", "refused"}
      /\ \A d \in Calls : d # c => router'[d] = router[d]
      /\ pc' = pc /\ queue' = queue /\ running' = running /\ answer' = answer
      /\ outcome' = outcome
  BY DEF Take, TypeOK
<1>2. TypeOK'
  BY <1>1 DEF TypeOK
<1>3. QueueInv' /\ QueueIsInjective'
  BY <1>1 DEF QueueInv, QueueIsInjective, TypeOK
<1>4. MadeInv'
  BY <1>1, CallsOfTurn DEF MadeInv
<1>5. AnswerInv'
  BY <1>1 DEF AnswerInv, TypeOK
<1>6. SecondInv'
  BY <1>1, CallsOfTurn DEF SecondInv
<1>7. EndInv'
  <2>1. \A d \in Calls : router[d] = "executed" => router'[d] = "executed"
    BY <1>1
  <2>2. \A d \in Calls : router[d] \notin Taken => router'[d] \notin Taken
    BY <1>1 DEF Taken
  <2>3. \A t \in Turns, s \in Selectors : <<t, s>> \in Calls
    BY DEF Calls
  <2> QED
    BY <1>1, <2>1, <2>2, <2>3 DEF EndInv, EndTellsExecution
<1> QED
  BY <1>2, <1>3, <1>4, <1>5, <1>6, <1>7

-----------------------------------------------------------------------------
LEMMA TurnPreservesInv == ASSUME Inv, NEW t \in Turns, TurnStep(t) PROVE Inv'
<1> USE DEF Inv
<1>0. /\ pc[t] \in Selectors => Current(t) \in Calls
      /\ Current(t) = <<t, pc[t]>>
      /\ outcome[t] = "none" \/ pc[t] = "done"
      /\ Exact(t) = <<t, "exact">> /\ Assigned(t) = <<t, "assignment">>
      /\ "exact" \in Selectors /\ "assignment" \in Selectors
      /\ answer \in [Calls -> {"none", "result", "reported", "api", "protocol", "lost",
                             "value"}]
  BY DEF Current, Calls, Exact, Assigned, Selectors, EndInv, TypeOK
<1>1. CASE CallModel(t)
  BY <1>1, <1>0, AwaitPreservesInv DEF CallModel
<1>2. CASE RejectCall(t)
  <2>1. \A s \in Selectors : router[<<t, s>>] \notin Taken
    BY <1>2, <1>0 DEF RejectCall, MadeInv, AnswerInv, Failed, Waiting, Raised, Taken, Selectors
  <2> QED
    BY <1>2, <2>1, DonePreservesInv DEF RejectCall
<1>3. CASE ReturnResult(t)
  <2>1. pc[t] \in Selectors /\ router[<<t, pc[t]>>] = "executed"
    BY <1>3, <1>0 DEF ReturnResult, Waiting, AnswerInv
  <2> QED
    BY <1>3, <2>1, DonePreservesInv DEF ReturnResult, Selectors
<1>4. CASE FallBack(t)
  <2>1. pc[t] = "exact" /\ router[Exact(t)] = "refused"
    BY <1>4, <1>0 DEF FallBack, Replace, Failed, Waiting, Raised, AnswerInv
  <2> QED
    BY <1>4, <1>0, <2>1, AwaitPreservesInv DEF FallBack, Replace
<1>5. CASE RaiseError(t)
  <2>1. /\ pc[t] \in Selectors /\ pc[t] # "done"
        /\ answer[Current(t)] \in {"reported", "api", "protocol", "lost", "value"}
    BY <1>5, <1>0 DEF RaiseError, Failed, Waiting, Selectors
  <2>2. Raised(answer[Current(t)]) \in {"before", "uncertain", "api", "protocol", "value"}
    BY <2>1 DEF Raised
  <2>3. ASSUME Raised(answer[Current(t)]) \in {"before", "api"}
        PROVE  \A s \in Selectors : router[<<t, s>>] \notin Taken
    <3>1. answer[Current(t)] \in {"reported", "api"}
      BY <2>1, <2>3 DEF Raised
    <3>2. router[<<t, pc[t]>>] \notin Taken
      BY <3>1, <2>1, <1>0 DEF AnswerInv, Taken
    <3>3. CASE pc[t] = "exact"
      BY <3>2, <3>3, <1>0 DEF MadeInv, Taken, Selectors
    <3>4. CASE pc[t] = "assignment"
      BY <3>2, <3>4, <1>0 DEF SecondInv, Taken, Selectors
    <3> QED
      BY <2>1, <3>3, <3>4 DEF Selectors
  <2> QED
    BY <1>5, <2>1, <2>2, <2>3, DonePreservesInv DEF RaiseError
<1>6. CASE Cancel(t)
  BY <1>6, DonePreservesInv DEF Cancel, Waiting, Selectors
<1> QED
  BY <1>1, <1>2, <1>3, <1>4, <1>5, <1>6 DEF TurnStep

LEMMA NextPreservesInv == Inv /\ [Next]_vars => Inv'
<1> SUFFICES ASSUME Inv, [Next]_vars PROVE Inv'
  OBVIOUS
<1>1. ASSUME NEW t \in Turns, TurnStep(t) PROVE Inv'
  BY <1>1, TurnPreservesInv
<1>2. CASE Pool
  BY <1>2, SkipPreservesInv, SendPreservesInv, RejectPreservesInv DEF Pool
<1>3. ASSUME NEW c \in Calls, ThreadStep(c) PROVE Inv'
  BY <1>3, EndCallPreservesInv DEF ThreadStep, ReadResult, ReadError, ReadInvalid,
     ReadUnreadable, LoseConnection
<1>4. ASSUME NEW c \in Calls, Take(c) PROVE Inv'
  BY <1>4, TakePreservesInv
<1>5. CASE UNCHANGED vars
  BY <1>5 DEF vars, Inv, TypeOK, QueueInv, QueueIsInjective, MadeInv, AnswerInv, SecondInv,
     EndInv, EndTellsExecution
<1> QED
  BY <1>1, <1>2, <1>3, <1>4, <1>5 DEF Next

LEMMA InvHolds == Spec => []Inv
BY InitInv, NextPreservesInv, PTL DEF Spec

\* The variables of turns, threads and requests keep their types.
THEOREM TypeCorrect == Spec => []TypeOK
BY InvHolds, PTL DEF Inv

\* The Router never executes both calls of a turn.
THEOREM OneExecutionPerTurn == Spec => []ExecutedOnce
<1>1. Inv => ExecutedOnce
  BY DEF Inv, SecondInv, ExecutedOnce, Taken, Exact, Assigned
<1> QED
  BY <1>1, InvHolds, PTL

\* How a turn ends tells what the Router did, from then on and for ever.
THEOREM EndsTellExecution == Spec => []EndTellsExecution
<1>1. Inv => EndTellsExecution
  BY DEF Inv, EndInv
<1> QED
  BY <1>1, InvHolds, PTL

-----------------------------------------------------------------------------
(***************************************************************************)
(* Streamed calls.  The parser knows more than the consumer has: it has    *)
(* read an event before it delivers it, and an error may come in between.  *)
(* While there is none, what it knows is what was delivered.               *)
(***************************************************************************)

Event == [kind : {"start", "output", "completed"}, route : Routes \cup {NoRoute},
          size : Nat]

StreamType ==
    /\ stage \in {"request", "read", "suspended", "returned", "closed", "failed"}
    /\ started \in BOOLEAN /\ visible \in BOOLEAN /\ terminal \in BOOLEAN
    /\ output \in Nat
    /\ route \in Routes \cup {NoRoute}
    /\ delivered \in Seq(Event)

\* What was delivered is a stream on the parser's route, and not over before it is.
OnOneRoute ==
    \A i \in DOMAIN delivered :
        /\ delivered[i].kind = "start" <=> i = 1
        /\ delivered[i].kind = "start" =>
              delivered[i].route = route /\ Protocol!RouteAccepted(route)
        /\ delivered[i].kind = "completed" =>
              i = Len(delivered) /\ delivered[i].route = route /\ terminal

IsCompleted == delivered # <<>> /\ delivered[Len(delivered)].kind = "completed"

\* The parser is never behind the consumer, and ahead of it only when it fails.
ParserKnows ==
    /\ ~started => delivered = <<>> /\ ~visible /\ ~terminal
    /\ Protocol!HasOutput => visible
    /\ output > 0 => visible
    /\ stage = "request" => ~started
    /\ stage # "failed" =>
          /\ started => delivered # <<>>
          /\ visible => Protocol!HasOutput
          /\ terminal => IsCompleted

\* A failure tells what the consumer has.
FailureTells ==
    /\ Protocol!PhaseTellsOutput
    /\ stage # "failed" => phase = "none"
    /\ stage = "returned" => IsCompleted
    /\ IsCompleted => phase # "before"

StreamInv == StreamType /\ OnOneRoute /\ ParserKnows /\ FailureTells

LEMMA StreamInitInv == StreamInit => StreamInv
<1> SUFFICES ASSUME StreamInit PROVE StreamInv
  OBVIOUS
<1> USE DEF StreamInit, Protocol!Init
<1>1. StreamType
  <2>1. started \in BOOLEAN /\ visible \in BOOLEAN /\ terminal \in BOOLEAN
    BY Zenon
  <2>2. output \in Nat /\ route \in Routes \cup {NoRoute} /\ delivered \in Seq(Event)
    OBVIOUS
  <2> QED
    BY <2>1, <2>2 DEF StreamType
<1>2. OnOneRoute /\ ~IsCompleted /\ ~Protocol!HasOutput
  BY DEF OnOneRoute, IsCompleted, Protocol!HasOutput
<1>3. ParserKnows
  BY <1>2 DEF ParserKnows
<1>4. FailureTells
  BY <1>2 DEF FailureTells, Protocol!PhaseTellsOutput
<1> QED
  BY <1>1, <1>2, <1>3, <1>4 DEF StreamInv

\* A failure that delivers nothing, at any place of the generators.
LEMMA RaisePreservesInv ==
    ASSUME StreamInv, NEW type, NEW p, Protocol!Raise(type, p), stage # "returned",
           StreamType',
           UNCHANGED call, delivered = <<>> \/ UNCHANGED route,
           started => started', visible => visible', terminal => terminal',
           ~started' => ~visible' /\ ~terminal',
           output' > 0 => visible',
           p # "none" => (p = "after" <=> Protocol!HasOutput),
           p = "before" => ~IsCompleted
    PROVE  StreamInv'
<1> USE DEF StreamInv, Protocol!Raise
<1>1. OnOneRoute'
  BY DEF OnOneRoute, Protocol!RouteAccepted
<1>2. ParserKnows'
  BY DEF ParserKnows, Protocol!HasOutput
<1>3. FailureTells'
  BY DEF FailureTells, IsCompleted, Protocol!HasOutput, Protocol!PhaseTellsOutput
<1> QED
  BY <1>1, <1>2, <1>3

\* A step that raises with the phase that the parser's view of the consumer gives.
LEMMA SafePhasePreservesInv ==
    ASSUME StreamInv, NEW type, Protocol!Raise(type, Protocol!SafePhase),
           stage # "failed", stage # "returned",
           UNCHANGED <<call, visible>>, StreamType',
           delivered = <<>> \/ UNCHANGED route,
           started => started', terminal => terminal', ~started' => ~terminal',
           UNCHANGED output
    PROVE  StreamInv'
<1> DEFINE p == Protocol!SafePhase
<1>1. p \in {"after", "uncertain"} /\ (p = "after" <=> visible)
  BY DEF Protocol!SafePhase
<1>2. visible <=> Protocol!HasOutput
  BY DEF StreamInv, ParserKnows
<1>3. /\ output' > 0 => visible'
      /\ started' \/ ~visible'
  BY DEF StreamInv, ParserKnows, StreamType
<1> HIDE DEF p
<1>4. Protocol!Raise(type, p)
  BY DEF p
<1> QED
  BY <1>1, <1>2, <1>3, <1>4, RaisePreservesInv

\* Delivery of one more event.
LEMMA DeliveredEvents ==
    ASSUME StreamType, NEW event \in Event, delivered' = Append(delivered, event)
    PROVE  /\ delivered' \in Seq(Event)
           /\ Len(delivered) \in Nat /\ Len(delivered') = Len(delivered) + 1
           /\ DOMAIN delivered = 1 .. Len(delivered)
           /\ DOMAIN delivered' = 1 .. Len(delivered) + 1
           /\ \A i \in DOMAIN delivered : delivered'[i] = delivered[i]
           /\ delivered'[Len(delivered) + 1] = event
           /\ delivered' # <<>>
BY DEF StreamType

\* An event that the rules of a stream allow at its place.
LEMMA DeliverPreservesInv ==
    ASSUME StreamInv, NEW event \in Event, Protocol!Deliver(event), stage = "read",
           StreamType',
           UNCHANGED call, started', ~terminal,
           event.kind = "start" <=> delivered = <<>>,
           event.kind = "start" => event.route = route' /\ Protocol!RouteAccepted(route'),
           delivered # <<>> => UNCHANGED route,
           event.kind = "completed" => event.route = route',
           terminal' <=> event.kind = "completed",
           visible' <=> visible \/ event.kind = "output",
           output' > 0 => visible'
    PROVE  StreamInv'
<1> USE DEF StreamInv, Protocol!Deliver
<1>1. /\ Len(delivered) \in Nat /\ Len(delivered') = Len(delivered) + 1
      /\ DOMAIN delivered = 1 .. Len(delivered)
      /\ DOMAIN delivered' = 1 .. Len(delivered) + 1
      /\ \A i \in DOMAIN delivered : delivered'[i] = delivered[i]
      /\ delivered'[Len(delivered) + 1] = event
      /\ delivered' # <<>>
  BY DeliveredEvents
<1>2. \A i \in DOMAIN delivered : delivered[i].kind # "completed"
  BY DEF OnOneRoute
<1>3. OnOneRoute'
  BY <1>1, <1>2 DEF OnOneRoute, StreamType, Protocol!RouteAccepted
<1>4. Protocol!HasOutput' <=> Protocol!HasOutput \/ event.kind = "output"
  BY <1>1 DEF Protocol!HasOutput
<1>5. IsCompleted' <=> event.kind = "completed"
  BY <1>1 DEF IsCompleted
<1>6. ParserKnows'
  BY <1>1, <1>4, <1>5 DEF ParserKnows
<1>7. FailureTells'
  BY <1>4, <1>5 DEF FailureTells, Protocol!PhaseTellsOutput
<1> QED
  BY <1>3, <1>6, <1>7

\* One event, as _stream_events parses it and _validated_stream_events checks it.
LEMMA EventPreservesInv ==
    ASSUME StreamInv, Protocol!ReadEvent
    PROVE  StreamInv'
<1> USE StreamAssumption DEF StreamAssumption, Protocol!Counted, Protocol!Reading
<1>0. StreamType /\ ParserKnows
  BY DEF StreamInv
<1>1. ASSUME NEW r \in Routes, Protocol!ReadStart(r) PROVE StreamInv'
  <2> USE <1>1 DEF Protocol!ReadStart
  <2>1. delivered = <<>> /\ stage = "read" /\ ~visible /\ ~terminal
    BY <1>0 DEF ParserKnows
  <2>2. CASE Protocol!RouteAccepted(r) /\ Protocol!Deliver(Protocol!Start(r))
    <3>1. Protocol!Start(r) \in Event
      BY DEF Protocol!Start, Event
    <3>2. StreamType'
      BY <1>0, <2>2, <3>1 DEF StreamType, Protocol!Deliver
    <3>3. output' > 0 => visible'
      BY <1>0 DEF ParserKnows
    <3> QED
      BY <2>1, <2>2, <3>1, <3>2, <3>3, DeliverPreservesInv
      DEF Protocol!Start, Protocol!RouteAccepted
  <2>3. CASE Protocol!Raise("protocol", Protocol!SafePhase)
    <3>1. StreamType'
      BY <1>0, <2>3 DEF StreamType, Protocol!Raise
    <3> QED
      BY <2>1, <2>3, <3>1, SafePhasePreservesInv
  <2> QED
    BY <2>2, <2>3
<1>2. ASSUME NEW r \in Routes, Protocol!ReadCompleted(r) PROVE StreamInv'
  <2> USE <1>2 DEF Protocol!ReadCompleted
  <2>1. delivered # <<>> /\ stage = "read" /\ started /\ ~terminal
    BY <1>0 DEF ParserKnows
  <2>2. CASE r = route /\ Protocol!Deliver(Protocol!Completed(r))
    <3>1. Protocol!Completed(r) \in Event
      BY DEF Protocol!Completed, Event
    <3>2. StreamType'
      BY <1>0, <2>2, <3>1 DEF StreamType, Protocol!Deliver
    <3>3. output' > 0 => visible'
      BY <1>0 DEF ParserKnows
    <3> QED
      BY <2>1, <2>2, <3>1, <3>2, <3>3, DeliverPreservesInv DEF Protocol!Completed
  <2>3. CASE Protocol!Raise("protocol", Protocol!SafePhase)
    <3>1. StreamType'
      BY <1>0, <2>3 DEF StreamType, Protocol!Raise
    <3> QED
      BY <2>1, <2>3, <3>1, SafePhasePreservesInv
  <2> QED
    BY <2>2, <2>3
<1>3. ASSUME NEW size \in Sizes, Protocol!ReadOutput(size) PROVE StreamInv'
  <2> USE <1>3 DEF Protocol!ReadOutput
  <2>1. /\ delivered # <<>> /\ stage = "read" /\ started /\ ~terminal
        /\ size \in Nat /\ size <= MaxOutput /\ output + size \in Nat
    BY <1>0 DEF ParserKnows, StreamType
  <2>2. CASE Protocol!Deliver(Protocol!Output(size))
    <3>1. Protocol!Output(size) \in Event
      BY <2>1 DEF Protocol!Output, Event
    <3>2. StreamType'
      BY <1>0, <2>1, <2>2, <3>1 DEF StreamType, Protocol!Deliver
    <3> QED
      BY <2>1, <2>2, <3>1, <3>2, DeliverPreservesInv DEF Protocol!Output
  <2>3. CASE output + size > MaxOutput /\ Protocol!Raise("limit", Protocol!SafePhase)
    <3>1. StreamType'
      BY <1>0, <2>1, <2>3 DEF StreamType, Protocol!Raise
    <3>2. Protocol!HasOutput
      BY <1>0, <2>1, <2>3 DEF StreamType, ParserKnows
    <3>3. Protocol!Raise("limit", "after")
      BY <2>3 DEF Protocol!SafePhase
    <3> QED
      BY <2>1, <3>1, <3>2, <3>3, RaisePreservesInv
  <2> QED
    BY <2>2, <2>3
<1>4. CASE Protocol!ReadError
  <2> USE <1>4 DEF Protocol!ReadError
  <2> DEFINE p == IF visible THEN "after" ELSE "before"
  <2>1. stage = "read" /\ started /\ ~terminal /\ (visible <=> Protocol!HasOutput)
    BY <1>0 DEF ParserKnows
  <2>2. ~IsCompleted
    BY <2>1 DEF StreamInv, OnOneRoute, IsCompleted, StreamType
  <2>3. StreamType'
    BY <1>0 DEF StreamType, Protocol!Raise
  <2>4. output' > 0 => visible'
    BY <1>0 DEF ParserKnows
  <2>5. Protocol!Raise("api", p)
    OBVIOUS
  <2>6. /\ p # "none" => (p = "after" <=> Protocol!HasOutput)
        /\ p = "before" => ~IsCompleted
    BY <2>1, <2>2
  <2> HIDE DEF p
  <2> QED
    BY <2>1, <2>3, <2>4, <2>5, <2>6, RaisePreservesInv
<1>5. CASE Protocol!ReadInvalid \/ Protocol!TooManyEvents \/ Protocol!DataAfterTerminal
  <2>1. PICK type : Protocol!Raise(type, Protocol!SafePhase)
    BY <1>5 DEF Protocol!ReadInvalid, Protocol!TooManyEvents, Protocol!DataAfterTerminal
  <2>2. UNCHANGED <<call, started, visible, terminal, output, route>> /\ stage = "read"
    BY <1>5 DEF Protocol!ReadInvalid, Protocol!TooManyEvents, Protocol!DataAfterTerminal,
                Protocol!parser
  <2>3. StreamType'
    BY <1>0, <2>1, <2>2 DEF StreamType, Protocol!Raise
  <2>4. ~started' => ~terminal'
    BY <1>0, <2>2 DEF ParserKnows
  <2> QED
    BY <2>1, <2>2, <2>3, <2>4, SafePhasePreservesInv
<1> QED
  BY <1>1, <1>2, <1>3, <1>4, <1>5 DEF Protocol!ReadEvent

\* A step between two events: it raises, moves the consumer, or ends the iterator.
LEMMA StageSteps ==
    ASSUME StreamInv, stage \in {"request", "read", "suspended"}, UNCHANGED parser,
           \/ \E type : Protocol!Raise(type, Protocol!SafePhase)
           \/ /\ stage' \in {"read", "suspended", "closed"}
              /\ UNCHANGED <<delivered, phase, error>>
           \/ terminal /\ stage' = "returned" /\ UNCHANGED <<delivered, phase, error>>
    PROVE  StreamInv'
<1>1. CASE \E type : Protocol!Raise(type, Protocol!SafePhase)
  <2>1. PICK type : Protocol!Raise(type, Protocol!SafePhase)
    BY <1>1
  <2>2. StreamType'
    BY <2>1 DEF StreamInv, StreamType, Protocol!Raise, parser
  <2>3. ~started' => ~terminal'
    BY DEF StreamInv, ParserKnows, parser
  <2> QED
    BY <2>1, <2>2, <2>3, SafePhasePreservesInv DEF parser
<1>2. CASE stage' \in {"read", "suspended", "closed", "returned"}
           /\ (stage' = "returned" => terminal) /\ UNCHANGED <<delivered, phase, error>>
  <2>1. StreamType'
    BY <1>2 DEF StreamInv, StreamType, parser
  <2>2. OnOneRoute'
    BY <1>2 DEF StreamInv, OnOneRoute, Protocol!RouteAccepted, parser
  <2>3. ParserKnows'
    BY <1>2 DEF StreamInv, ParserKnows, IsCompleted, Protocol!HasOutput, parser
  <2>4. FailureTells'
    BY <1>2 DEF StreamInv, ParserKnows, FailureTells, IsCompleted, Protocol!HasOutput,
                Protocol!PhaseTellsOutput, parser
  <2> QED
    BY <2>1, <2>2, <2>3, <2>4 DEF StreamInv
<1> QED
  BY <1>1, <1>2

\* stream_model before it returns its iterator: nothing was delivered.
LEMMA RequestPreservesInv ==
    ASSUME StreamInv, Protocol!Request
    PROVE  StreamInv'
<1>1. CASE Protocol!Respond
  BY <1>1, StageSteps DEF Protocol!Respond, Protocol!parser, parser
<1>2. CASE Protocol!RequestFails \/ Protocol!RequestRejected \/ Protocol!ResponseInvalid
  <2> USE <1>2
  <2>1. PICK type \in {"transport", "api", "protocol"}, p \in {"none", "before", "uncertain"} :
           Protocol!Raise(type, p)
    BY DEF Protocol!RequestFails, Protocol!RequestRejected, Protocol!ResponseInvalid
  <2>2. stage = "request" /\ UNCHANGED <<call, started, visible, terminal, output, route>>
    BY DEF Protocol!RequestFails, Protocol!RequestRejected, Protocol!ResponseInvalid,
           Protocol!parser
  <2>3. delivered = <<>> /\ ~started /\ ~visible /\ ~terminal /\ ~Protocol!HasOutput
        /\ ~IsCompleted /\ ~(output > 0)
    BY <2>2 DEF StreamInv, ParserKnows, IsCompleted, Protocol!HasOutput
  <2>4. StreamType'
    BY <2>1, <2>2 DEF StreamInv, StreamType, Protocol!Raise
  <2> QED
    BY <2>1, <2>2, <2>3, <2>4, RaisePreservesInv
<1> QED
  BY <1>1, <1>2 DEF Protocol!Request

\* Whatever the framing does, the protocol makes one of its own steps or none.
LEMMA StreamNextPreservesInv == StreamInv /\ [StreamNext]_<<framing, protocol>> => StreamInv'
<1> SUFFICES ASSUME StreamInv, [StreamNext]_<<framing, protocol>> PROVE StreamInv'
  OBVIOUS
<1>1. ASSUME UNCHANGED protocol PROVE StreamInv'
  BY <1>1 DEF protocol, parser, StreamInv, StreamType, OnOneRoute, ParserKnows, FailureTells,
              IsCompleted, Protocol!RouteAccepted, Protocol!HasOutput,
              Protocol!PhaseTellsOutput
<1>2. ASSUME NEW type, RaiseOf(type) PROVE StreamInv'
  <2>1. /\ stage = "read" /\ UNCHANGED parser
        /\ \E t : Protocol!Raise(t, Protocol!SafePhase)
    BY <1>2 DEF RaiseOf, Protocol!FramingFails, Protocol!parser, parser
  <2> QED
    BY <2>1, StageSteps
<1>3. CASE Request
  BY <1>3, RequestPreservesInv DEF Request
<1>4. CASE TransportBreaks
  BY <1>4, StageSteps DEF TransportBreaks, Protocol!TransportBreaks, Protocol!parser, parser
<1>5. CASE UseChunk
  BY <1>1, <1>5 DEF UseChunk
<1>6. CASE ParseBlock
  <2>1. (\E type : RaiseOf(type)) \/ UNCHANGED protocol \/ Protocol!ReadEvent
    BY <1>6 DEF ParseBlock
  <2> QED
    BY <1>1, <1>2, <2>1, EventPreservesInv
<1>7. CASE EndBlocks
  BY <1>1, <1>2, <1>7 DEF EndBlocks
<1>8. CASE EndBytes
  <2>1. CASE RaiseOf("protocol")
    BY <1>2, <2>1
  <2>2. CASE Protocol!EndOfStream
    <3>1. stage = "read" /\ UNCHANGED parser
      BY <2>2 DEF Protocol!EndOfStream, Protocol!parser, parser
    <3>2. \/ terminal /\ stage' = "returned" /\ UNCHANGED <<delivered, phase, error>>
          \/ Protocol!Raise("stream", Protocol!SafePhase)
      BY <2>2 DEF Protocol!EndOfStream
    <3> QED
      BY <3>1, <3>2, StageSteps
  <2> QED
    BY <1>8, <2>1, <2>2 DEF EndBytes
<1>9. ASSUME NEW size, ReceiveChunk(size) PROVE StreamInv'
  BY <1>1, <1>2, <1>9 DEF ReceiveChunk
<1>10. CASE Resume
  <2>1. stage = "suspended" /\ UNCHANGED parser
    BY <1>10 DEF Resume, Protocol!Pull, Protocol!parser, parser
  <2>2. \/ Protocol!Raise("protocol", Protocol!SafePhase)
        \/ stage' = "read" /\ UNCHANGED <<delivered, phase, error>>
    BY <1>10 DEF Resume, Protocol!Pull
  <2> QED
    BY <2>1, <2>2, StageSteps
<1>11. CASE Close
  BY <1>11, StageSteps DEF Close, Protocol!Close, Protocol!parser, parser
<1>12. CASE UNCHANGED <<framing, protocol>>
  BY <1>1, <1>12
<1> QED
  BY <1>3, <1>4, <1>5, <1>6, <1>7, <1>8, <1>9, <1>10, <1>11, <1>12 DEF StreamNext

LEMMA StreamInvHolds == StreamSpec => []StreamInv
BY StreamInitInv, StreamNextPreservesInv, PTL DEF StreamSpec

\* A failure says "after" exactly if the consumer has received output, so that a
\* replacement call on "before" repeats nothing.
THEOREM PhasesTellOutput == StreamSpec => []PhaseTellsOutput
<1>1. StreamInv => PhaseTellsOutput
  BY DEF StreamInv, FailureTells, PhaseTellsOutput
<1> QED
  BY <1>1, StreamInvHolds, PTL

\* What the consumer receives is the beginning of a stream on one allowed route.
THEOREM DeliveriesAreStreams == StreamSpec => []DeliveredIsStream
<1>1. StreamInv => DeliveredIsStream
  BY DEF StreamInv, StreamType, OnOneRoute, DeliveredIsStream, Protocol!DeliveredIsStream
<1> QED
  BY <1>1, StreamInvHolds, PTL

-----------------------------------------------------------------------------
(***************************************************************************)
(* The framing of a stream: the buffer begins where the reference, which   *)
(* has no buffer, still has to cut.                                        *)
(***************************************************************************)

Byte == UNION {Range(s) : s \in Streams}

\* One step of the reference, with the results of the later ones.
CutStep(bytes, cut, i) ==
    LET rest == SubSeq(bytes, i, Len(bytes))
    IN  IF SeparatorsOf(rest) = {} THEN [events |-> <<>>, remainder |-> rest]
        ELSE LET found == FirstSeparator(rest)
                 block == SubSeq(rest, 1, found[1] - 1)
                 tail  == cut[i + found[1] - 1 + Len(found[2])]
             IN  IF block = <<>> THEN tail
                 ELSE [tail EXCEPT !.events = <<block>> \o @]

CutOf(bytes) ==
    CHOOSE cut : cut = [i \in 1 .. Len(bytes) + 1 |-> CutStep(bytes, cut, i)]

FramingType ==
    /\ stream \in Streams
    /\ received \in 0 .. Len(stream) /\ taken \in 0 .. received
    /\ buffer \in Seq(Byte) /\ events \in Seq(Seq(Byte))
    /\ step \in {"receive", "fill", "frame", "wire limit", "too large", "complete",
                 "inside event"}

\* From some byte on, the stream is in the buffer or not taken yet, and what is before
\* that byte has been cut as the reference cuts it.
CutSoFar(at) ==
    /\ buffer = SubSeq(stream, at, taken)
    /\ events \o CutOf(stream)[at].events = ReferenceEvents
    /\ CutOf(stream)[at].remainder = Remainder

Settled == step \notin {"frame", "too large"}

FramingInv ==
    /\ FramingType
    /\ step # "too large" => \E at \in 1 .. taken + 1 : CutSoFar(at)
    /\ EventsIgnoreChunks
    /\ \A i \in DOMAIN events : Len(events[i]) <= MaxEvent
    /\ Settled => SeparatorsOf(buffer) = {} /\ ~BufferOverflows
    /\ step \in {"receive", "complete"} => taken = received
    /\ step = "complete" => received = Len(stream) /\ IsBlank(buffer)

\* A nonempty set of naturals has a least element: an induction is the absence of a
\* least counterexample.
LEMMA LeastNatural ==
    ASSUME NEW S \in SUBSET Nat, S # {}
    PROVE  \E least \in S : \A n \in S : least <= n
<1> DEFINE Intervals == {0 .. n : n \in S}
<1>1. Intervals \subseteq FiniteSubsetsOf(Nat)
  <2> SUFFICES ASSUME NEW n \in S PROVE 0 .. n \in FiniteSubsetsOf(Nat)
    OBVIOUS
  <2>1. IsFiniteSet(0 .. n)
    BY FS_Interval
  <2>2. 0 .. n \subseteq Nat
    OBVIOUS
  <2> QED
    BY <2>1, <2>2 DEF FiniteSubsetsOf
<1>2. PICK I \in Intervals : \A J \in Intervals : ~(<<J, I>> \in StrictSubsetOrdering(Nat))
  <2>1. Intervals # {}
    OBVIOUS
  <2> HIDE DEF Intervals
  <2> QED
    BY <1>1, <2>1, FS_StrictSubsetOrderingWellFounded, WFMin
<1>3. PICK least \in S : I = 0 .. least
  BY <1>2
<1>4. ASSUME NEW n \in S PROVE least <= n
  <2>1. CASE n < least
    <3>1. 0 .. n \in Intervals
      OBVIOUS
    <3>2. <<0 .. n, 0 .. least>> \in StrictSubsetOrdering(Nat)
      <4>1. 0 .. n \subseteq 0 .. least /\ 0 .. least \subseteq Nat
        BY <2>1
      <4>2. least \in 0 .. least /\ least \notin 0 .. n
        BY <2>1
      <4> QED
        BY <4>1, <4>2 DEF StrictSubsetOrdering
    <3> QED
      BY <1>2, <1>3, <3>1, <3>2
  <2> QED
    BY <2>1
<1> QED
  BY <1>4

-----------------------------------------------------------------------------
\* Separators.

ShortAt(bytes, i) == bytes[i] = LF /\ bytes[i + 1] = LF
LongAt(bytes, i) ==
    bytes[i] = CR /\ bytes[i + 1] = LF /\ bytes[i + 2] = CR /\ bytes[i + 3] = LF

\* Where the separators of a sequence are.
LEMMA SeparatorsByBytes ==
    ASSUME NEW S, NEW bytes \in Seq(S), NEW found
    PROVE  found \in SeparatorsOf(bytes) <=>
              \E i \in 1 .. Len(bytes) :
                 \/ found = <<i, <<LF, LF>>>> /\ i + 1 <= Len(bytes) /\ ShortAt(bytes, i)
                 \/ /\ found = <<i, <<CR, LF, CR, LF>>>>
                    /\ i + 3 <= Len(bytes) /\ LongAt(bytes, i)
<1>1. Len(<<LF, LF>>) = 2 /\ Len(<<CR, LF, CR, LF>>) = 4
  OBVIOUS
<1>2. ASSUME NEW i \in 1 .. Len(bytes), i + 1 <= Len(bytes)
      PROVE  SeparatorAt(bytes, i, <<LF, LF>>) <=> ShortAt(bytes, i)
  <2> DEFINE part == SubSeq(bytes, i, i + 2 - 1)
             tuple == <<bytes[i], bytes[i + 1]>>
  <2>0. i \in 1 .. Len(bytes) /\ i + 1 \in 1 .. Len(bytes) /\ i \in Int
    BY <1>2
  <2>1. part = tuple
    <3>1. /\ part \in Seq(S) /\ Len(part) = 2
          /\ \A k \in 1 .. 2 : part[k] = bytes[i + k - 1]
      BY <2>0
    <3>2. tuple \in Seq(S) /\ Len(tuple) = 2
      BY <2>0, ElementOfSeq
    <3>3. part[1] = bytes[i] /\ part[2] = bytes[i + 1]
      BY <2>0, <3>1
    <3>4. \A k \in 1 .. 2 : k \in {1, 2}
      OBVIOUS
    <3>5. part[1] = tuple[1] /\ part[2] = tuple[2]
      BY <3>3
    <3> HIDE DEF part, tuple
    <3>6. \A k \in 1 .. 2 : part[k] = tuple[k]
      BY <3>4, <3>5
    <3> QED
      BY <3>1, <3>2, <3>6, SeqEqual
  <2> QED
    BY <1>1, <2>1 DEF SeparatorAt, ShortAt
<1>3. ASSUME NEW i \in 1 .. Len(bytes), i + 3 <= Len(bytes)
      PROVE  SeparatorAt(bytes, i, <<CR, LF, CR, LF>>) <=> LongAt(bytes, i)
  <2> DEFINE part == SubSeq(bytes, i, i + 4 - 1)
             tuple == <<bytes[i], bytes[i + 1], bytes[i + 2], bytes[i + 3]>>
  <2>0. i \in 1 .. Len(bytes) /\ i + 1 \in 1 .. Len(bytes) /\ i + 2 \in 1 .. Len(bytes) /\ i + 3 \in 1 .. Len(bytes) /\ i \in Int
    BY <1>3
  <2>1. part = tuple
    <3>1. /\ part \in Seq(S) /\ Len(part) = 4
          /\ \A k \in 1 .. 4 : part[k] = bytes[i + k - 1]
      BY <2>0
    <3>2. tuple \in Seq(S) /\ Len(tuple) = 4
      BY <2>0, ElementOfSeq
    <3>3. part[1] = bytes[i] /\ part[2] = bytes[i + 1] /\ part[3] = bytes[i + 2] /\ part[4] = bytes[i + 3]
      BY <2>0, <3>1
    <3>4. \A k \in 1 .. 4 : k \in {1, 2, 3, 4}
      OBVIOUS
    <3>5. part[1] = tuple[1] /\ part[2] = tuple[2] /\ part[3] = tuple[3] /\ part[4] = tuple[4]
      BY <3>3
    <3> HIDE DEF part, tuple
    <3>6. \A k \in 1 .. 4 : part[k] = tuple[k]
      BY <3>4, <3>5
    <3> QED
      BY <3>1, <3>2, <3>6, SeqEqual
  <2> QED
    BY <1>1, <2>1 DEF SeparatorAt, LongAt
<1>4. found \in SeparatorsOf(bytes) <=>
         \E i \in 1 .. Len(bytes), s \in Separators :
            found = <<i, s>> /\ i + Len(s) - 1 <= Len(bytes) /\ SeparatorAt(bytes, i, s)
  <2>1. DOMAIN bytes = 1 .. Len(bytes)
    OBVIOUS
  <2> QED
    BY <2>1 DEF SeparatorsOf
<1>5. ASSUME NEW i \in 1 .. Len(bytes)
      PROVE  /\ i + Len(<<LF, LF>>) - 1 <= Len(bytes) <=> i + 1 <= Len(bytes)
             /\ i + Len(<<CR, LF, CR, LF>>) - 1 <= Len(bytes) <=> i + 3 <= Len(bytes)
  BY <1>1
<1> QED
  BY <1>2, <1>3, <1>4, <1>5 DEF Separators

\* The first separator is one, and no other starts before it.
LEMMA FirstSeparatorProperty ==
    ASSUME NEW S, NEW bytes \in Seq(S), SeparatorsOf(bytes) # {}
    PROVE  LET found == FirstSeparator(bytes)
           IN  /\ found \in SeparatorsOf(bytes)
               /\ \A other \in SeparatorsOf(bytes) : found[1] <= other[1]
               /\ found[1] \in 1 .. Len(bytes) /\ Len(found[2]) \in {2, 4}
               /\ found[1] + Len(found[2]) <= Len(bytes) + 1
<1> DEFINE Positions == {found[1] : found \in SeparatorsOf(bytes)}
<1>1. ASSUME NEW found \in SeparatorsOf(bytes)
      PROVE  /\ found[1] \in 1 .. Len(bytes) /\ Len(found[2]) \in {2, 4}
             /\ found[1] + Len(found[2]) <= Len(bytes) + 1
  <2>1. Len(<<LF, LF>>) = 2 /\ Len(<<CR, LF, CR, LF>>) = 4
    OBVIOUS
  <2>2. PICK i \in 1 .. Len(bytes) :
           \/ found = <<i, <<LF, LF>>>> /\ i + 1 <= Len(bytes)
           \/ found = <<i, <<CR, LF, CR, LF>>>> /\ i + 3 <= Len(bytes)
    BY SeparatorsByBytes
  <2>3. CASE found = <<i, <<LF, LF>>>> /\ i + 1 <= Len(bytes)
    BY <2>1, <2>3
  <2>4. CASE found = <<i, <<CR, LF, CR, LF>>>> /\ i + 3 <= Len(bytes)
    BY <2>1, <2>4
  <2> QED
    BY <2>2, <2>3, <2>4
<1>2. PICK least \in Positions : \A i \in Positions : least <= i
  <2>1. Positions \in SUBSET Nat /\ Positions # {}
    BY <1>1
  <2> HIDE DEF Positions
  <2> QED
    BY <2>1, LeastNatural
<1>3. PICK first \in SeparatorsOf(bytes) : first[1] = least
  BY DEF Positions
<1>4. \A other \in SeparatorsOf(bytes) : first[1] <= other[1]
  BY <1>2, <1>3
<1> DEFINE IsFirst(found) == \A other \in SeparatorsOf(bytes) : found[1] <= other[1]
           chosen == CHOOSE found \in SeparatorsOf(bytes) : IsFirst(found)
<1>5. chosen \in SeparatorsOf(bytes) /\ IsFirst(chosen)
  <2>1. IsFirst(first)
    BY <1>4
  <2> HIDE DEF IsFirst
  <2> QED
    BY <2>1
<1>6. chosen = FirstSeparator(bytes)
  BY DEF FirstSeparator
<1> HIDE DEF chosen
<1> QED
  BY <1>1, <1>5, <1>6

\* Bytes that follow do not move the first separator: no earlier one can be cut off
\* where a complete one follows.
LEMMA FirstSeparatorStays ==
    ASSUME NEW S, NEW bytes \in Seq(S), NEW n \in 0 .. Len(bytes),
           SeparatorsOf(SubSeq(bytes, 1, n)) # {}
    PROVE  /\ SeparatorsOf(bytes) # {}
           /\ FirstSeparator(bytes) = FirstSeparator(SubSeq(bytes, 1, n))
<1> DEFINE front == SubSeq(bytes, 1, n)
<1>1. /\ front \in Seq(S) /\ Len(front) = n /\ n \in Nat /\ n <= Len(bytes)
      /\ \A i \in 1 .. n : front[i] = bytes[i]
  OBVIOUS
<1>2. SeparatorsOf(front) # {}
  OBVIOUS
<1> HIDE DEF front
<1> DEFINE a == FirstSeparator(front)
           b == FirstSeparator(bytes)
<1>3. a \in SeparatorsOf(front) /\ \A other \in SeparatorsOf(front) : a[1] <= other[1]
  BY <1>1, <1>2, FirstSeparatorProperty
<1>4. ASSUME NEW i \in 1 .. n
      PROVE  /\ i + 1 <= n => (ShortAt(front, i) <=> ShortAt(bytes, i))
             /\ i + 3 <= n => (LongAt(front, i) <=> LongAt(bytes, i))
  <2>1. i + 1 <= n => i + 1 \in 1 .. n
    BY <1>1
  <2>2. i + 3 <= n => i + 1 \in 1 .. n /\ i + 2 \in 1 .. n /\ i + 3 \in 1 .. n
    BY <1>1
  <2> QED
    BY <1>1, <2>1, <2>2 DEF ShortAt, LongAt
<1>5. PICK i \in 1 .. n :
         \/ a = <<i, <<LF, LF>>>> /\ i + 1 <= n /\ ShortAt(bytes, i)
         \/ a = <<i, <<CR, LF, CR, LF>>>> /\ i + 3 <= n /\ LongAt(bytes, i)
  BY <1>1, <1>3, <1>4, SeparatorsByBytes
<1>6. a \in SeparatorsOf(bytes)
  <2>1. i \in 1 .. Len(bytes) /\ (i + 1 <= n => i + 1 <= Len(bytes))
        /\ (i + 3 <= n => i + 3 <= Len(bytes))
    BY <1>1
  <2> QED
    BY <1>5, <2>1, SeparatorsByBytes
<1>7. b \in SeparatorsOf(bytes) /\ b[1] <= a[1]
  BY <1>6, FirstSeparatorProperty
<1>8. PICK j \in 1 .. Len(bytes) :
         \/ b = <<j, <<LF, LF>>>> /\ j + 1 <= Len(bytes) /\ ShortAt(bytes, j)
         \/ b = <<j, <<CR, LF, CR, LF>>>> /\ j + 3 <= Len(bytes) /\ LongAt(bytes, j)
  BY <1>7, SeparatorsByBytes
<1>9. a[1] = i /\ b[1] = j /\ j <= i
  BY <1>5, <1>7, <1>8
<1> HIDE DEF a, b
<1>10. CR # LF
  BY FramingAssumption
<1>11. ASSUME i = j PROVE a = b
  BY <1>5, <1>8, <1>10, <1>11 DEF ShortAt, LongAt
<1>12. ASSUME j < i PROVE FALSE
  <2>1. j \in 1 .. n /\ i \in Nat /\ j \in Nat
    BY <1>1, <1>12
  <2>2. ~(b = <<j, <<LF, LF>>>> /\ ShortAt(bytes, j))
    <3> SUFFICES ASSUME b = <<j, <<LF, LF>>>>, ShortAt(bytes, j) PROVE FALSE
      OBVIOUS
    <3>1. j + 1 <= n
      BY <1>1, <1>12, <2>1
    <3>2. b \in SeparatorsOf(front)
      BY <1>1, <1>4, <2>1, <3>1, SeparatorsByBytes
    <3> QED
      BY <1>3, <1>9, <1>12, <2>1, <3>2
  <2>3. b = <<j, <<CR, LF, CR, LF>>>> /\ j + 3 <= Len(bytes) /\ LongAt(bytes, j)
    BY <1>8, <2>2
  <2>4. n < j + 3
    <3> SUFFICES ASSUME j + 3 <= n PROVE FALSE
      BY <1>1, <2>1
    <3>1. b \in SeparatorsOf(front)
      BY <1>1, <1>4, <2>1, <2>3, SeparatorsByBytes
    <3> QED
      BY <1>3, <1>9, <1>12, <2>1, <3>1
  <2>5. i = j + 1 /\ ShortAt(bytes, i)
    BY <1>1, <1>5, <1>12, <2>1, <2>4
  <2>6. bytes[i + 1] = LF /\ bytes[j + 2] = CR /\ i + 1 = j + 2
    BY <2>1, <2>3, <2>5 DEF ShortAt, LongAt
  <2> QED
    BY <1>10, <2>6
<1>13. a = b
  <2>1. i \in Nat /\ j \in Nat
    BY <1>1
  <2> QED
    BY <1>9, <1>11, <1>12, <2>1
<1> QED
  BY <1>6, <1>13 DEF a, b, front

-----------------------------------------------------------------------------
\* The reference: the recursive function that Cut chooses exists.

\* A separator is cut within the bytes that are left.
LEMMA CutGoesOn ==
    ASSUME NEW S, NEW bytes \in Seq(S), NEW i \in 1 .. Len(bytes) + 1
    PROVE  LET rest == SubSeq(bytes, i, Len(bytes))
               found == FirstSeparator(rest)
           IN  /\ rest \in Seq(S) /\ Len(rest) = Len(bytes) - i + 1
               /\ SeparatorsOf(rest) # {} =>
                     /\ found[1] \in 1 .. Len(rest) /\ Len(found[2]) \in {2, 4}
                     /\ i + found[1] - 1 + Len(found[2]) \in i + 1 .. Len(bytes) + 1
                     /\ SubSeq(rest, 1, found[1] - 1) \in Seq(S)
<1> DEFINE rest == SubSeq(bytes, i, Len(bytes))
           found == FirstSeparator(rest)
<1>1. rest \in Seq(S) /\ Len(rest) = Len(bytes) - i + 1 /\ Len(bytes) \in Nat
  OBVIOUS
<1> HIDE DEF rest
<1>2. ASSUME SeparatorsOf(rest) # {}
      PROVE  /\ found[1] \in 1 .. Len(rest) /\ Len(found[2]) \in {2, 4}
             /\ i + found[1] - 1 + Len(found[2]) \in i + 1 .. Len(bytes) + 1
             /\ SubSeq(rest, 1, found[1] - 1) \in Seq(S)
  <2>1. /\ found[1] \in 1 .. Len(rest) /\ Len(found[2]) \in {2, 4}
        /\ found[1] + Len(found[2]) <= Len(rest) + 1
    BY <1>1, <1>2, FirstSeparatorProperty
  <2> HIDE DEF found
  <2>2. i + found[1] - 1 + Len(found[2]) \in i + 1 .. Len(bytes) + 1
    <3>1. PICK f \in 1 .. Len(rest) : f = found[1]
      BY <2>1
    <3>2. PICK l \in {2, 4} : l = Len(found[2])
      BY <2>1
    <3>3. f + l <= Len(bytes) - i + 1 + 1
      BY <1>1, <2>1, <3>1, <3>2
    <3>4. i \in Nat /\ f \in Nat /\ f >= 1 /\ l \in Nat /\ l >= 2 /\ Len(bytes) \in Nat
      <4>1. l = 2 \/ l = 4
        BY <3>2
      <4>2. f \in Nat /\ f >= 1
        OBVIOUS
      <4>3. i \in Nat /\ Len(bytes) \in Nat
        BY <1>1
      <4> QED
        BY <4>1, <4>2, <4>3
    <3>5. i + f - 1 + l \in i + 1 .. Len(bytes) + 1
      BY <3>3, <3>4
    <3> QED
      BY <3>1, <3>2, <3>5
  <2>3. SubSeq(rest, 1, found[1] - 1) \in Seq(S)
    BY <1>1, <2>1
  <2> QED
    BY <2>1, <2>2, <2>3
<1> QED
  BY <1>1, <1>2 DEF rest

\* One step needs only later results.
LEMMA CutStepNeedsLater ==
    ASSUME NEW S, NEW bytes \in Seq(S), NEW i \in 1 .. Len(bytes) + 1, NEW f, NEW g,
           \A j \in i + 1 .. Len(bytes) + 1 : f[j] = g[j]
    PROVE  CutStep(bytes, f, i) = CutStep(bytes, g, i)
<1> DEFINE rest == SubSeq(bytes, i, Len(bytes))
           found == FirstSeparator(rest)
           next == i + found[1] - 1 + Len(found[2])
<1>1. CASE SeparatorsOf(rest) = {}
  BY <1>1 DEF CutStep
<1>2. CASE SeparatorsOf(rest) # {}
  <2>1. next \in i + 1 .. Len(bytes) + 1
    BY <1>2, CutGoesOn
  <2>2. f[next] = g[next]
    <3> HIDE DEF next
    <3> QED
      BY <2>1
  <2> QED
    BY <1>2, <2>2, Zenon DEF CutStep
<1> QED
  BY <1>1, <1>2

LEMMA CutEquation ==
    ASSUME NEW S, NEW bytes \in Seq(S)
    PROVE  /\ CutOf(bytes) = [i \in 1 .. Len(bytes) + 1 |-> CutStep(bytes, CutOf(bytes), i)]
           /\ Cut(bytes) = CutOf(bytes)[1]
<1> DEFINE n == Len(bytes) + 1
           IsCut(f) == f = [i \in 1 .. n |-> CutStep(bytes, f, i)]
           Fits(f, k) == \A i \in k .. n : f[i] = CutStep(bytes, f, i)
           Wrong == {d \in 0 .. n : ~(\E f : Fits(f, n + 1 - d))}
<1>1. n \in Nat \ {0} /\ Len(bytes) \in Nat
  OBVIOUS
<1>2. Wrong = {}
  <2> SUFFICES ASSUME Wrong # {} PROVE FALSE
    OBVIOUS
  <2>1. PICK d \in Wrong : \A e \in Wrong : d <= e
    <3>1. Wrong \in SUBSET Nat
      OBVIOUS
    <3> HIDE DEF Wrong
    <3> QED
      BY <3>1, LeastNatural
  <2>2. d \in 0 .. n /\ ~(\E f : Fits(f, n + 1 - d))
    OBVIOUS
  <2>3. CASE d = 0
    <3>1. (n + 1 - d) .. n = {}
      BY <1>1, <2>3
    <3> HIDE DEF n
    <3>2. Fits(<<>>, n + 1 - d)
      BY <3>1
    <3> HIDE DEF Fits
    <3> QED
      BY <2>2, <3>2
  <2>4. CASE d > 0
    <3>1. PICK e \in 0 .. n : e = d - 1
      BY <1>1, <2>2, <2>4
    <3>2. e \notin Wrong
      <4>1. d \in Nat /\ e \in Nat /\ ~(d <= e)
        BY <1>1, <2>2, <2>4, <3>1
      <4> HIDE DEF Wrong
      <4> QED
        BY <2>1, <4>1
    <3>3. PICK f : Fits(f, n + 1 - e)
      BY <3>2
    <3>4. PICK k \in 1 .. n : k = n + 1 - d /\ k + 1 = n + 1 - e
      <4> HIDE DEF n
      <4>1. n \in Nat /\ d \in Nat /\ d > 0 /\ d <= n /\ e = d - 1
        BY <1>1, <2>2, <2>4, <3>1
      <4>2. n + 1 - d \in 1 .. n /\ (n + 1 - d) + 1 = n + 1 - e
        BY <4>1
      <4> QED
        BY <4>2
    <3>5. \A i \in k + 1 .. n : f[i] = CutStep(bytes, f, i)
      BY <3>3, <3>4
    <3> DEFINE g == [i \in 1 .. n |-> IF i = k THEN CutStep(bytes, f, k) ELSE f[i]]
    <3>6. g[k] = CutStep(bytes, f, k) /\ \A i \in k + 1 .. n : g[i] = f[i]
      <4> HIDE DEF n
      <4> QED
        BY <1>1
    <3> HIDE DEF g
    <3>7. ASSUME NEW i \in k .. n PROVE g[i] = CutStep(bytes, g, i)
      <4>1. i \in 1 .. n /\ (i = k \/ i \in k + 1 .. n)
        BY <1>1
      <4>2. \A j \in i + 1 .. n : f[j] = g[j]
        <5> HIDE DEF n
        <5>1. i \in Nat /\ k \in Nat /\ n \in Nat /\ k <= i
          BY <1>1
        <5>2. \A j \in i + 1 .. n : j \in k + 1 .. n
          BY <5>1
        <5> QED
          BY <3>6, <5>2
      <4>3. CutStep(bytes, f, i) = CutStep(bytes, g, i)
        BY <4>1, <4>2, CutStepNeedsLater
      <4> HIDE DEF n
      <4> QED
        BY <3>5, <3>6, <4>1, <4>3
    <3>8. Fits(g, n + 1 - d)
      BY <3>4, <3>7
    <3> HIDE DEF Fits
    <3> QED
      BY <2>2, <3>8
  <2> QED
    BY <1>1, <2>2, <2>3, <2>4
<1>3. PICK f : Fits(f, 1)
  <2>1. n \in 0 .. n /\ n + 1 - n = 1
    BY <1>1
  <2>2. n \notin Wrong
    BY <1>2
  <2> HIDE DEF Fits, n
  <2> QED
    BY <2>1, <2>2
<1> DEFINE g == [i \in 1 .. n |-> f[i]]
<1>4. IsCut(g)
  <2>1. \A i \in 1 .. n : g[i] = f[i]
    OBVIOUS
  <2>2. g = [i \in 1 .. n |-> g[i]]
    OBVIOUS
  <2> HIDE DEF g
  <2>3. ASSUME NEW i \in 1 .. n PROVE g[i] = CutStep(bytes, g, i)
    <3>1. \A j \in i + 1 .. n : f[j] = g[j]
      BY <1>1, <2>1
    <3>2. CutStep(bytes, f, i) = CutStep(bytes, g, i)
      BY <3>1, CutStepNeedsLater
    <3> QED
      BY <1>3, <2>1, <3>2
  <2> HIDE DEF n
  <2> QED
    BY <2>2, <2>3
<1>5. IsCut(CutOf(bytes))
  <2>1. CutOf(bytes) = CHOOSE h : IsCut(h)
    BY DEF CutOf
  <2> HIDE DEF IsCut, g
  <2> QED
    BY <1>4, <2>1
<1>6. Cut(bytes) = CutOf(bytes)[1]
  BY DEF Cut, CutOf, CutStep
<1> QED
  BY <1>5, <1>6

Cuts(S) == [events : Seq(Seq(S)), remainder : Seq(S)]

\* What the reference finds from any byte on: sequences of bytes.
LEMMA CutType ==
    ASSUME NEW S, NEW bytes \in Seq(S), NEW i \in 1 .. Len(bytes) + 1
    PROVE  CutOf(bytes)[i] \in Cuts(S)
<1> DEFINE n == Len(bytes) + 1
           cut == CutOf(bytes)
           Wrong == {d \in 0 .. n : \E k \in 1 .. n : k = n - d /\ cut[k] \notin Cuts(S)}
<1>1. n \in Nat \ {0} /\ Len(bytes) \in Nat
  OBVIOUS
<1>2. ASSUME NEW k \in 1 .. n PROVE cut[k] = CutStep(bytes, cut, k)
  BY CutEquation
<1> HIDE DEF cut
<1>3. Wrong = {}
  <2> SUFFICES ASSUME Wrong # {} PROVE FALSE
    OBVIOUS
  <2>1. PICK d \in Wrong : \A e \in Wrong : d <= e
    <3>1. Wrong \in SUBSET Nat
      OBVIOUS
    <3> HIDE DEF Wrong
    <3> QED
      BY <3>1, LeastNatural
  <2>2. PICK k \in 1 .. n : k = n - d /\ cut[k] \notin Cuts(S)
    BY <2>1
  <2>3. \A j \in k + 1 .. n : cut[j] \in Cuts(S)
    <3> SUFFICES ASSUME NEW j \in k + 1 .. n, cut[j] \notin Cuts(S) PROVE FALSE
      OBVIOUS
    <3>1. PICK e \in 0 .. n : e = n - j
      <4> HIDE DEF n
      <4>1. j \in Nat /\ n \in Nat /\ j <= n /\ n - j \in 0 .. n
        BY <1>1
      <4> QED
        BY <4>1
    <3>2. j \in 1 .. n /\ j = n - e /\ e < d /\ d \in Nat
      BY <1>1, <2>2, <3>1
    <3>3. e \in Wrong
      BY <3>2
    <3> HIDE DEF Wrong
    <3> QED
      BY <2>1, <3>2, <3>3
  <2> DEFINE rest == SubSeq(bytes, k, Len(bytes))
             found == FirstSeparator(rest)
             block == SubSeq(rest, 1, found[1] - 1)
             tail == cut[k + found[1] - 1 + Len(found[2])]
  <2>4. rest \in Seq(S)
    BY CutGoesOn
  <2>5. SeparatorsOf(rest) # {} => block \in Seq(S) /\ tail \in Cuts(S)
    BY <2>3, CutGoesOn
  <2>6. cut[k] = IF SeparatorsOf(rest) = {} THEN [events |-> <<>>, remainder |-> rest]
                 ELSE IF block = <<>> THEN tail
                 ELSE [tail EXCEPT !.events = <<block>> \o @]
    BY <1>2, Zenon DEF CutStep
  <2> HIDE DEF rest, block, tail
  <2>7. CASE SeparatorsOf(rest) = {}
    BY <2>2, <2>4, <2>6, <2>7 DEF Cuts
  <2>8. CASE SeparatorsOf(rest) # {} /\ block = <<>>
    BY <2>2, <2>5, <2>6, <2>8
  <2>9. CASE SeparatorsOf(rest) # {} /\ block # <<>>
    <3>1. <<block>> \o tail.events \in Seq(Seq(S))
      BY <2>5, <2>9 DEF Cuts
    <3>2. [tail EXCEPT !.events = <<block>> \o @] \in Cuts(S)
      BY <2>5, <2>9, <3>1 DEF Cuts
    <3> QED
      BY <2>2, <2>6, <2>9, <3>2
  <2> QED
    BY <2>7, <2>8, <2>9
<1>4. n - i \in 0 .. n /\ i = n - (n - i) /\ i \in 1 .. n
  BY <1>1
<1>5. cut[i] \in Cuts(S)
  <2> HIDE DEF n
  <2> QED
    BY <1>3, <1>4
<1> QED
  BY <1>5 DEF cut

-----------------------------------------------------------------------------
\* The framing keeps its invariant.

LEMMA StreamBytes ==
    ASSUME FramingType
    PROVE  /\ stream \in Seq(Byte) /\ Len(stream) \in Nat
           /\ received \in Nat /\ received <= Len(stream)
           /\ taken \in Nat /\ taken <= received
           /\ ReferenceEvents \in Seq(Seq(Byte)) /\ Remainder \in Seq(Byte)
<1>1. stream \in Seq(Byte)
  BY FramingAssumption DEF FramingType, Byte
<1>2. Len(stream) \in Nat /\ 1 \in 1 .. Len(stream) + 1
  BY <1>1
<1>3. Cut(stream) \in Cuts(Byte)
  BY <1>1, <1>2, CutType, CutEquation
<1>4. ReferenceEvents \in Seq(Seq(Byte)) /\ Remainder \in Seq(Byte)
  BY <1>3 DEF Cuts, ReferenceEvents, Remainder
<1>5. /\ received \in Nat /\ received <= Len(stream)
      /\ taken \in Nat /\ taken <= received
  <2>1. received \in 0 .. Len(stream) /\ taken \in 0 .. received
    BY DEF FramingType
  <2>2. received \in Nat /\ received <= Len(stream)
    BY <1>2, <2>1
  <2> QED
    BY <2>1, <2>2
<1> QED
  BY <1>1, <1>2, <1>4, <1>5

\* Two neighbouring parts of a sequence are one part.
LEMMA PartsJoin ==
    ASSUME NEW S, NEW s \in Seq(S), NEW n \in 0 .. Len(s), NEW m \in 0 .. n,
           NEW i \in 1 .. m + 1
    PROVE  /\ SubSeq(s, i, m) \in Seq(S) /\ Len(SubSeq(s, i, m)) = m - i + 1
           /\ SubSeq(s, i, m) \o SubSeq(s, m + 1, n) = SubSeq(s, i, n)
<1> DEFINE a == SubSeq(s, i, m)
           b == SubSeq(s, m + 1, n)
           ab == SubSeq(s, i, n)
<1>1. Len(s) \in Nat /\ n \in Nat /\ m \in Nat /\ i \in Nat /\ i >= 1 /\ i <= m + 1
      /\ m <= n /\ n <= Len(s)
  OBVIOUS
<1>2. /\ a \in Seq(S) /\ Len(a) = m - i + 1
      /\ \A k \in 1 .. m - i + 1 : a[k] = s[i + k - 1]
  BY <1>1
<1>3. /\ b \in Seq(S) /\ Len(b) = n - m
      /\ \A k \in 1 .. n - m : b[k] = s[m + k]
  <2>1. \A k \in 1 .. n - (m + 1) + 1 : b[k] = s[(m + 1) + k - 1]
    BY <1>1
  <2>2. b \in Seq(S) /\ Len(b) = n - m
    BY <1>1
  <2>3. ASSUME NEW k \in 1 .. n - m PROVE b[k] = s[m + k]
    <3>1. k \in 1 .. n - (m + 1) + 1 /\ (m + 1) + k - 1 = m + k
      BY <1>1
    <3> HIDE DEF b
    <3> QED
      BY <2>1, <3>1
  <2> HIDE DEF b
  <2> QED
    BY <2>2, <2>3
<1>4. /\ ab \in Seq(S) /\ Len(ab) = n - i + 1
      /\ \A k \in 1 .. n - i + 1 : ab[k] = s[i + k - 1]
  BY <1>1
<1> HIDE DEF a, b, ab
<1>5. a \o b \in Seq(S) /\ Len(a \o b) = n - i + 1
  <2>1. a \o b \in Seq(S) /\ Len(a \o b) = Len(a) + Len(b)
    BY <1>2, <1>3, ConcatProperties
  <2>2. (m - i + 1) + (n - m) = n - i + 1
    BY <1>1
  <2> QED
    BY <1>2, <1>3, <2>1, <2>2
<1>6. ASSUME NEW k \in 1 .. n - i + 1
      PROVE  (a \o b)[k] = ab[k]
  <2>1. CASE k <= m - i + 1
    BY <1>1, <1>2, <1>3, <1>4, <2>1
  <2>2. CASE ~(k <= m - i + 1)
    <3>1. (a \o b)[k] = b[k - (m - i + 1)]
      BY <1>1, <1>2, <1>3, <2>2
    <3>2. k - (m - i + 1) \in 1 .. n - m
      BY <1>1, <2>2
    <3>3. b[k - (m - i + 1)] = s[m + (k - (m - i + 1))]
      BY <1>3, <3>2
    <3>4. m + (k - (m - i + 1)) = i + k - 1
      BY <1>1
    <3> QED
      BY <1>4, <3>1, <3>3, <3>4
  <2> QED
    BY <1>1, <2>1, <2>2
<1>7. a \o b = ab
  BY <1>4, <1>5, <1>6, SeqEqual
<1> QED
  BY <1>2, <1>7 DEF a, b, ab

LEMMA FrontIsPrefix ==
    ASSUME NEW S, NEW s \in Seq(S), NEW t \in Seq(S)
    PROVE  IsPrefix(s, s \o t)
<1>1. s \o t \in Seq(S) /\ Len(s) \in Nat /\ Len(s) <= Len(s \o t)
      /\ \A i \in 1 .. Len(s) : (s \o t)[i] = s[i]
  OBVIOUS
<1>2. SubSeq(s \o t, 1, Len(s)) = s
  <2> DEFINE st == s \o t
             u == SubSeq(st, 1, Len(s))
  <2>1. st \in Seq(S) /\ Len(s) <= Len(st) /\ \A i \in 1 .. Len(s) : st[i] = s[i]
    BY <1>1
  <2> HIDE DEF st
  <2>2. u \in Seq(S) /\ Len(u) = Len(s) /\ \A i \in 1 .. Len(s) : u[i] = st[i]
    BY <1>1, <2>1
  <2> HIDE DEF u
  <2>3. u = s
    BY <2>1, <2>2, SeqEqual
  <2> QED
    BY <2>3 DEF u, st
<1> QED
  BY <1>1, <1>2, SubSeqFull DEF IsPrefix

\* What has been cut is a prefix of what the reference finds.
LEMMA CutSoFarIsPrefix ==
    ASSUME FramingType, NEW at \in 1 .. taken + 1, CutSoFar(at)
    PROVE  EventsIgnoreChunks
<1>1. at \in 1 .. Len(stream) + 1
  BY StreamBytes
<1>2. CutOf(stream)[at].events \in Seq(Seq(Byte))
  BY <1>1, StreamBytes, CutType DEF Cuts
<1> QED
  BY <1>2, FrontIsPrefix DEF FramingType, CutSoFar, EventsIgnoreChunks

LEMMA FramingInitInv == FramingInit => FramingInv
<1> SUFFICES ASSUME FramingInit PROVE FramingInv
  OBVIOUS
<1> USE DEF FramingInit
<1>1. stream \in Seq(Byte)
  BY FramingAssumption DEF Byte
<1>2. FramingType
  BY <1>1 DEF FramingType
<1>3. CutSoFar(1)
  <2>1. SubSeq(stream, 1, 0) = <<>>
    BY <1>1
  <2>2. <<>> \o CutOf(stream)[1].events = CutOf(stream)[1].events
    <3>1. CutOf(stream)[1].events \in Seq(Seq(Byte))
      BY <1>1, CutType DEF Cuts
    <3> QED
      BY <3>1, ConcatEmptySeq
  <2> QED
    BY <1>1, <2>1, <2>2, CutEquation DEF CutSoFar, ReferenceEvents, Remainder
<1>4. EventsIgnoreChunks /\ 1 \in 1 .. taken + 1
  BY <1>2, <1>3, CutSoFarIsPrefix
<1>5. SeparatorsOf(buffer) = {} /\ ~BufferOverflows
  BY FramingAssumption DEF SeparatorsOf, BufferOverflows
<1>6. \A i \in DOMAIN events : Len(events[i]) <= MaxEvent
  OBVIOUS
<1> QED
  BY <1>2, <1>3, <1>4, <1>5, <1>6 DEF FramingInv

\* A step that moves no byte into the buffer or out of it.
LEMMA StillPreservesInv ==
    ASSUME FramingInv, step # "too large", UNCHANGED <<stream, taken, buffer, events>>,
           FramingType',
           Settled' => SeparatorsOf(buffer) = {} /\ ~BufferOverflows,
           step' \in {"receive", "complete"} => taken = received',
           step' = "complete" => received' = Len(stream) /\ IsBlank(buffer)
    PROVE  FramingInv'
<1>1. PICK at \in 1 .. taken + 1 : CutSoFar(at)
  BY DEF FramingInv
<1>2. CutSoFar(at)'
  BY <1>1 DEF CutSoFar, ReferenceEvents, Remainder
<1>3. EventsIgnoreChunks'
  BY DEF FramingInv, EventsIgnoreChunks, ReferenceEvents
<1>4. /\ (\A i \in DOMAIN events : Len(events[i]) <= MaxEvent)'
      /\ (Settled => SeparatorsOf(buffer) = {} /\ ~BufferOverflows)'
  BY DEF FramingInv, BufferOverflows
<1>5. /\ (step \in {"receive", "complete"} => taken = received)'
      /\ (step = "complete" => received = Len(stream) /\ IsBlank(buffer))'
  OBVIOUS
<1>6. \E i \in 1 .. taken' + 1 : CutSoFar(i)'
  BY <1>2
<1> QED
  BY <1>3, <1>4, <1>5, <1>6 DEF FramingInv

LEMMA ReceivePreservesInv ==
    ASSUME FramingInv, NEW size \in 1 .. Len(stream), Receive(size) PROVE FramingInv'
<1>1. FramingType /\ step = "receive" /\ Settled
  BY DEF FramingInv, Receive, Settled
<1>2. step' \in {"fill", "wire limit"} /\ UNCHANGED <<stream, taken, buffer, events>>
  BY DEF Receive
<1>3. received' \in 0 .. Len(stream) /\ received <= received'
  <2>1. received' = received + size /\ received + size <= Len(stream)
    BY DEF Receive
  <2>2. received \in Nat /\ size \in Nat /\ Len(stream) \in Nat
    BY <1>1, StreamBytes
  <2> QED
    BY <2>1, <2>2
<1>4. FramingType'
  <2>1. taken \in 0 .. received'
    <3>1. received \in Nat /\ received' \in Nat /\ taken \in Nat /\ taken <= received
      BY <1>1, <1>3, StreamBytes
    <3> QED
      BY <1>3, <3>1
  <2> QED
    BY <1>1, <1>2, <1>3, <2>1 DEF FramingType
<1> QED
  BY <1>1, <1>2, <1>4, StillPreservesInv DEF FramingInv

LEMMA ChunkPreservesInv ==
    ASSUME FramingInv, ChunkIsUsed PROVE FramingInv'
<1> USE DEF ChunkIsUsed
<1>1. FramingType /\ step = "fill" /\ Settled
  BY DEF FramingInv, Settled
<1>2. FramingType'
  BY <1>1 DEF FramingType
<1> QED
  BY <1>1, <1>2, StillPreservesInv DEF FramingInv

LEMMA EndFramesPreservesInv ==
    ASSUME FramingInv, EndFrames PROVE FramingInv'
<1>1. FramingType /\ step = "frame" /\ SeparatorsOf(buffer) = {}
  BY DEF FramingInv, EndFrames
<1>2. step' \in {"fill", "too large"} /\ (step' = "fill" => ~BufferOverflows)
      /\ UNCHANGED <<stream, received, taken, buffer, events>>
  BY DEF EndFrames
<1>3. FramingType'
  BY <1>1, <1>2 DEF FramingType
<1> QED
  BY <1>1, <1>2, <1>3, StillPreservesInv DEF Settled

LEMMA EndOfStreamPreservesInv ==
    ASSUME FramingInv, EndOfStream PROVE FramingInv'
<1>1. FramingType /\ step = "receive" /\ Settled /\ taken = received
      /\ received = Len(stream)
  BY DEF FramingInv, EndOfStream, Settled
<1>2. step' \in {"complete", "inside event"} /\ (step' = "complete" => IsBlank(buffer))
      /\ UNCHANGED <<stream, received, taken, buffer, events>>
  BY DEF EndOfStream
<1>3. FramingType'
  BY <1>1, <1>2 DEF FramingType
<1> QED
  BY <1>1, <1>2, <1>3, StillPreservesInv DEF FramingInv

LEMMA FillPreservesInv ==
    ASSUME FramingInv, Fill PROVE FramingInv'
<1> DEFINE left == received - taken
           take == IF left < Capacity THEN left ELSE Capacity
<1>1. FramingType /\ step = "fill" /\ Settled /\ ~BufferOverflows /\ taken < received
  BY DEF FramingInv, Fill, Settled
<1>2. /\ buffer' = buffer \o SubSeq(stream, taken + 1, taken + take)
      /\ taken' = taken + take /\ step' = "frame" /\ UNCHANGED <<stream, received, events>>
  BY DEF Fill
<1>3. Len(buffer) <= MaxEvent + 4
  <2>1. CASE Len(buffer) <= MaxEvent
    BY <1>1, <2>1, FramingAssumption DEF FramingType
  <2>2. CASE PossibleSuffix(SubSeq(buffer, MaxEvent + 1, Len(buffer)))
                /\ ~(Len(buffer) <= MaxEvent)
    <3>1. PICK s \in Separators : Len(SubSeq(buffer, MaxEvent + 1, Len(buffer))) <= Len(s)
      BY <2>2 DEF PossibleSuffix, IsPrefix
    <3>2. Len(s) \in {2, 4}
      <4>1. Len(<<LF, LF>>) = 2 /\ Len(<<CR, LF, CR, LF>>) = 4
        OBVIOUS
      <4>2. s = <<LF, LF>> \/ s = <<CR, LF, CR, LF>>
        BY <3>1 DEF Separators
      <4> QED
        BY <4>1, <4>2
    <3>3. Len(SubSeq(buffer, MaxEvent + 1, Len(buffer))) = Len(buffer) - MaxEvent
      BY <1>1, <2>2, FramingAssumption DEF FramingType
    <3>4. Len(buffer) \in Nat /\ MaxEvent \in Nat
      BY <1>1, FramingAssumption DEF FramingType
    <3>5. Len(buffer) - MaxEvent <= 4
      <4>1. CASE Len(s) = 2
        BY <3>1, <3>3, <3>4, <4>1
      <4>2. CASE Len(s) = 4
        BY <3>1, <3>3, <3>4, <4>2
      <4> QED
        BY <3>2, <4>1, <4>2
    <3> QED
      BY <3>4, <3>5
  <2> QED
    BY <1>1, <2>1, <2>2, FramingAssumption DEF BufferOverflows, FramingType
<1>4. take \in Nat /\ take <= left
  <2>1. Len(buffer) \in Nat /\ MaxEvent \in Nat
    BY <1>1, FramingAssumption DEF FramingType
  <2> QED
    BY <1>1, <1>3, <2>1, StreamBytes DEF Capacity
<1> HIDE DEF take
<1>5. /\ stream \in Seq(Byte) /\ Len(stream) \in Nat /\ taken \in Nat
      /\ taken + take \in taken .. received /\ received \in Nat /\ received <= Len(stream)
  BY <1>1, <1>4, StreamBytes
<1>6. PICK at \in 1 .. taken + 1 : CutSoFar(at)
  BY <1>1 DEF FramingInv
<1>7. buffer' = SubSeq(stream, at, taken') /\ buffer' \in Seq(Byte)
  <2>1. PICK n \in 0 .. Len(stream) : n = taken + take
    BY <1>4, <1>5
  <2>2. taken \in 0 .. n
    BY <1>4, <1>5, <2>1
  <2>3. SubSeq(stream, at, taken) \o SubSeq(stream, taken + 1, n) = SubSeq(stream, at, n)
    BY <1>5, <2>2, PartsJoin
  <2>4. SubSeq(stream, at, n) \in Seq(Byte)
    BY <1>5, <1>6, <2>1
  <2> QED
    BY <1>2, <1>6, <2>1, <2>3, <2>4 DEF CutSoFar
<1>8. FramingType'
  BY <1>1, <1>2, <1>5, <1>7 DEF FramingType
<1>9. at \in 1 .. taken' + 1 /\ CutSoFar(at)'
  <2>1. at \in 1 .. taken' + 1
    BY <1>2, <1>5
  <2> QED
    BY <1>2, <1>6, <1>7, <2>1 DEF CutSoFar, ReferenceEvents, Remainder
<1>10. EventsIgnoreChunks'
  BY <1>2 DEF FramingInv, EventsIgnoreChunks, ReferenceEvents
<1>11. ~Settled'
  BY <1>2 DEF Settled
<1>12. (\A i \in DOMAIN events : Len(events[i]) <= MaxEvent)'
  BY <1>2 DEF FramingInv
<1> QED
  BY <1>2, <1>8, <1>9, <1>10, <1>11, <1>12 DEF FramingInv

\* A part of a part of a sequence is a part of the sequence.
LEMMA PartOfPart ==
    ASSUME NEW S, NEW s \in Seq(S), NEW m \in 0 .. Len(s), NEW i \in 1 .. m + 1,
           NEW n \in 0 .. m - i + 1, NEW j \in 1 .. n + 1
    PROVE  SubSeq(SubSeq(s, i, m), j, n) = SubSeq(s, i + j - 1, i + n - 1)
<1> DEFINE part == SubSeq(s, i, m)
           a == SubSeq(part, j, n)
           b == SubSeq(s, i + j - 1, i + n - 1)
<1>1. /\ Len(s) \in Nat /\ m \in Nat /\ m <= Len(s) /\ i \in Nat /\ i >= 1 /\ i <= m + 1
      /\ n \in Nat /\ n <= m - i + 1 /\ j \in Nat /\ j >= 1 /\ j <= n + 1
  OBVIOUS
<1>2. /\ part \in Seq(S) /\ Len(part) = m - i + 1
      /\ \A k \in 1 .. m - i + 1 : part[k] = s[i + k - 1]
  BY <1>1
<1> HIDE DEF part
<1>3. /\ a \in Seq(S) /\ Len(a) = n - j + 1
      /\ \A k \in 1 .. n - j + 1 : a[k] = part[j + k - 1]
  BY <1>1, <1>2
<1>4. /\ b \in Seq(S) /\ Len(b) = n - j + 1
      /\ \A k \in 1 .. n - j + 1 : b[k] = s[i + j + k - 2]
  <2>1. PICK low \in Nat : low = i + j - 1 /\ low >= 1
    BY <1>1
  <2>2. PICK high \in Nat : high = i + n - 1 /\ high <= Len(s) /\ low <= high + 1
    BY <1>1, <2>1
  <2>3. /\ SubSeq(s, low, high) \in Seq(S) /\ Len(SubSeq(s, low, high)) = high - low + 1
        /\ \A k \in 1 .. high - low + 1 : SubSeq(s, low, high)[k] = s[low + k - 1]
    BY <2>1, <2>2
  <2>4. high - low + 1 = n - j + 1
    BY <1>1, <2>1, <2>2
  <2>5. \A k \in 1 .. n - j + 1 : low + k - 1 = i + j + k - 2
    BY <1>1, <2>1
  <2> QED
    BY <2>1, <2>2, <2>3, <2>4, <2>5
<1> HIDE DEF a, b
<1>5. ASSUME NEW k \in 1 .. n - j + 1 PROVE a[k] = b[k]
  <2>1. PICK p \in 1 .. m - i + 1 : p = j + k - 1
    BY <1>1
  <2>2. part[p] = s[i + p - 1] /\ i + p - 1 = i + j + k - 2
    BY <1>1, <1>2, <2>1
  <2> QED
    BY <1>3, <1>4, <2>1, <2>2
<1>6. a = b
  BY <1>3, <1>4, <1>5, SeqEqual
<1> QED
  BY <1>6 DEF a, b, part

\* The block the framing takes from the buffer is the next one of the reference.
LEMMA FrameCuts ==
    ASSUME FramingType, NEW at \in 1 .. taken + 1, buffer = SubSeq(stream, at, taken),
           SeparatorsOf(buffer) # {}
    PROVE  LET found == FirstSeparator(buffer)
               block == SubSeq(buffer, 1, found[1] - 1)
               left  == SubSeq(buffer, found[1] + Len(found[2]), Len(buffer))
           IN  /\ block \in Seq(Byte) /\ left \in Seq(Byte)
               /\ \E next \in 1 .. taken + 1 :
                     /\ left = SubSeq(stream, next, taken)
                     /\ CutOf(stream)[next] \in Cuts(Byte)
                     /\ CutOf(stream)[at] =
                           IF block = <<>> THEN CutOf(stream)[next]
                           ELSE [CutOf(stream)[next] EXCEPT !.events = <<block>> \o @]
<1> DEFINE found == FirstSeparator(buffer)
           block == SubSeq(buffer, 1, found[1] - 1)
           left  == SubSeq(buffer, found[1] + Len(found[2]), Len(buffer))
           rest  == SubSeq(stream, at, Len(stream))
           size  == taken - at + 1
<1>1. /\ stream \in Seq(Byte) /\ Len(stream) \in Nat /\ taken \in Nat
      /\ taken <= Len(stream) /\ at \in Nat /\ at >= 1 /\ at <= taken + 1
  BY StreamBytes
<1>2. buffer \in Seq(Byte) /\ Len(buffer) = size /\ size \in Nat
  BY <1>1
<1>3. buffer = SubSeq(rest, 1, size)
  <2>1. PICK m \in 0 .. Len(stream) : m = Len(stream)
    BY <1>1
  <2>2. at \in 1 .. m + 1 /\ size \in 0 .. m - at + 1 /\ 1 \in 1 .. size + 1
    BY <1>1, <2>1
  <2>3. at + 1 - 1 = at /\ at + size - 1 = taken
    BY <1>1
  <2> HIDE DEF size
  <2>4. SubSeq(SubSeq(stream, at, m), 1, size) = SubSeq(stream, at + 1 - 1, at + size - 1)
    BY <1>1, <2>2, PartOfPart
  <2> QED
    BY <2>1, <2>3, <2>4
<1>4. rest \in Seq(Byte) /\ Len(rest) = Len(stream) - at + 1 /\ size \in 0 .. Len(rest)
  BY <1>1
<1>5. SeparatorsOf(rest) # {} /\ FirstSeparator(rest) = found
  <2> HIDE DEF rest, size
  <2> QED
    BY <1>3, <1>4, FirstSeparatorStays
<1>6. /\ found[1] \in 1 .. size /\ Len(found[2]) \in {2, 4}
      /\ found[1] + Len(found[2]) <= size + 1
  BY <1>2, FirstSeparatorProperty
<1>7. PICK f \in 1 .. size : f = found[1]
  BY <1>6
<1>8. PICK l \in {2, 4} : l = Len(found[2])
  BY <1>6
<1>9. f \in Nat /\ f >= 1 /\ l \in Nat /\ l >= 2 /\ f + l <= size + 1
  <2>1. l = 2 \/ l = 4
    BY <1>8
  <2>2. f + l <= size + 1
    BY <1>6, <1>7, <1>8
  <2>3. f \in Nat /\ f >= 1
    BY <1>2
  <2> QED
    BY <2>1, <2>2, <2>3
<1> HIDE DEF found
<1>10. PICK next \in 1 .. taken + 1 : next = at + f - 1 + l
  <2>1. at + f - 1 + l \in 1 .. taken + 1
    BY <1>1, <1>9
  <2> QED
    BY <2>1
<1>11. block = SubSeq(rest, 1, f - 1) /\ block \in Seq(Byte)
  <2>1. PICK m \in 0 .. Len(stream) : m = taken
    BY <1>1
  <2>2. PICK n \in 0 .. m - at + 1 : n = f - 1
    BY <1>1, <1>9, <2>1
  <2>3. at \in 1 .. m + 1 /\ 1 \in 1 .. n + 1
    BY <1>1, <2>1, <2>2
  <2>4. SubSeq(SubSeq(stream, at, m), 1, n) = SubSeq(stream, at + 1 - 1, at + n - 1)
    BY <1>1, <2>3, PartOfPart
  <2>5. PICK k \in 0 .. Len(stream) : k = Len(stream)
    BY <1>1
  <2>6. at \in 1 .. k + 1 /\ n \in 0 .. k - at + 1
    BY <1>1, <2>1, <2>2, <2>5
  <2>7. SubSeq(SubSeq(stream, at, k), 1, n) = SubSeq(stream, at + 1 - 1, at + n - 1)
    BY <1>1, <2>3, <2>6, PartOfPart
  <2>8. block = SubSeq(buffer, 1, n)
    BY <1>7, <2>2
  <2>9. block = SubSeq(rest, 1, f - 1)
    BY <2>1, <2>2, <2>4, <2>5, <2>7, <2>8
  <2>10. SubSeq(buffer, 1, n) \in Seq(Byte)
    <3>1. n \in Nat /\ n <= Len(buffer)
      BY <1>1, <1>2, <1>9, <2>2
    <3> QED
      BY <1>2, <3>1
  <2> QED
    BY <2>8, <2>9, <2>10
<1>12. left = SubSeq(stream, next, taken) /\ left \in Seq(Byte)
  <2>1. PICK m \in 0 .. Len(stream) : m = taken
    BY <1>1
  <2>2. PICK n \in 0 .. m - at + 1 : n = Len(buffer)
    BY <1>1, <1>2, <2>1
  <2>3. PICK j \in 1 .. n + 1 : j = f + l
    BY <1>1, <1>2, <1>9, <2>2
  <2>4. at \in 1 .. m + 1
    BY <1>1, <2>1
  <2>5. SubSeq(SubSeq(stream, at, m), j, n) = SubSeq(stream, at + j - 1, at + n - 1)
    BY <1>1, <2>4, PartOfPart
  <2>6. at + j - 1 = next /\ at + n - 1 = taken
    <3>1. at \in Nat /\ j \in Nat /\ n \in Nat
      BY <1>1, <1>2, <2>2, <2>3
    <3> QED
      BY <1>1, <1>2, <1>9, <1>10, <2>2, <2>3, <3>1
  <2>7. left = SubSeq(buffer, j, n)
    BY <1>7, <1>8, <2>2, <2>3
  <2>8. SubSeq(stream, next, taken) \in Seq(Byte)
    BY <1>1
  <2> QED
    BY <2>1, <2>5, <2>6, <2>7, <2>8
<1>13. at \in 1 .. Len(stream) + 1 /\ next \in 1 .. Len(stream) + 1
  BY <1>1
<1>14. CutOf(stream)[next] \in Cuts(Byte)
  BY <1>1, <1>13, CutType
<1>15. CutOf(stream)[at] = CutStep(stream, CutOf(stream), at)
  BY <1>1, <1>13, CutEquation
<1> DEFINE cut == CutOf(stream)
<1> HIDE DEF cut
<1>16. CutStep(stream, cut, at) = IF block = <<>> THEN cut[next]
                                  ELSE [cut[next] EXCEPT !.events = <<block>> \o @]
  <2>1. CutStep(stream, cut, at) =
           IF SubSeq(rest, 1, found[1] - 1) = <<>> THEN cut[at + found[1] - 1 + Len(found[2])]
           ELSE [cut[at + found[1] - 1 + Len(found[2])]
                    EXCEPT !.events = <<SubSeq(rest, 1, found[1] - 1)>> \o @]
    <3> HIDE DEF rest
    <3>1. rest = SubSeq(stream, at, Len(stream))
      BY DEF rest
    <3> QED
      BY <1>5, <3>1, Zenon DEF CutStep
  <2> HIDE DEF rest, block
  <2> QED
    BY <1>7, <1>8, <1>10, <1>11, <2>1
<1> QED
  BY <1>11, <1>12, <1>14, <1>15, <1>16 DEF found, cut

LEMMA FramePreservesInv ==
    ASSUME FramingInv, Frame PROVE FramingInv'
<1> DEFINE found == FirstSeparator(buffer)
           block == SubSeq(buffer, 1, found[1] - 1)
           left  == SubSeq(buffer, found[1] + Len(found[2]), Len(buffer))
<1>1. FramingType /\ step = "frame" /\ EventsIgnoreChunks
      /\ \A i \in DOMAIN events : Len(events[i]) <= MaxEvent
  BY DEF FramingInv, Frame
<1>2. /\ SeparatorsOf(buffer) # {} /\ buffer' = left
      /\ UNCHANGED <<stream, received, taken>>
      /\ \/ step' = "too large" /\ UNCHANGED events
         \/ /\ ~(Len(block) > MaxEvent)
            /\ events' = IF block = <<>> THEN events ELSE Append(events, block)
            /\ UNCHANGED step
  BY DEF Frame
<1>3. PICK at \in 1 .. taken + 1 : CutSoFar(at)
  BY <1>1 DEF FramingInv
<1>4. block \in Seq(Byte) /\ left \in Seq(Byte)
  BY <1>1, <1>2, <1>3, FrameCuts DEF CutSoFar
<1>5. PICK next \in 1 .. taken + 1 :
         /\ left = SubSeq(stream, next, taken)
         /\ CutOf(stream)[next] \in Cuts(Byte)
         /\ CutOf(stream)[at] =
               IF block = <<>> THEN CutOf(stream)[next]
               ELSE [CutOf(stream)[next] EXCEPT !.events = <<block>> \o @]
  BY <1>1, <1>2, <1>3, FrameCuts DEF CutSoFar
<1> HIDE DEF found, block, left
<1>6. CASE step' = "too large" /\ UNCHANGED events
  <2>1. FramingType'
    BY <1>1, <1>2, <1>4, <1>6 DEF FramingType
  <2>2. EventsIgnoreChunks'
    BY <1>1, <1>2, <1>6 DEF EventsIgnoreChunks, ReferenceEvents
  <2>3. ~Settled' /\ (\A i \in DOMAIN events : Len(events[i]) <= MaxEvent)'
    BY <1>1, <1>6 DEF Settled
  <2> QED
    BY <1>6, <2>1, <2>2, <2>3 DEF FramingInv
<1>7. CASE /\ ~(Len(block) > MaxEvent)
           /\ events' = IF block = <<>> THEN events ELSE Append(events, block)
           /\ UNCHANGED step
  <2>1. events' \in Seq(Seq(Byte)) /\ \A i \in DOMAIN events' : Len(events'[i]) <= MaxEvent
    <3>1. events \in Seq(Seq(Byte))
      BY <1>1 DEF FramingType
    <3>2. CASE block = <<>>
      BY <1>1, <1>7, <3>1, <3>2
    <3>3. CASE block # <<>>
      <4>1. Len(block) <= MaxEvent
        BY <1>4, <1>7, FramingAssumption
      <4>2. events' = Append(events, block)
        BY <1>7, <3>3
      <4>3. /\ events' \in Seq(Seq(Byte)) /\ DOMAIN events' = 1 .. Len(events) + 1
            /\ \A i \in 1 .. Len(events) : events'[i] = events[i]
            /\ events'[Len(events) + 1] = block
            /\ DOMAIN events = 1 .. Len(events) /\ Len(events) \in Nat
        BY <1>4, <3>1, <4>2
      <4>4. \A i \in 1 .. Len(events) + 1 : i \in 1 .. Len(events) \/ i = Len(events) + 1
        BY <4>3
      <4> QED
        BY <1>1, <4>1, <4>3, <4>4
    <3> QED
      BY <3>2, <3>3
  <2>2. FramingType'
    BY <1>1, <1>2, <1>4, <1>7, <2>1 DEF FramingType
  <2> DEFINE tail == CutOf(stream)[next]
  <2>3. /\ events' \o tail.events = events \o CutOf(stream)[at].events
        /\ tail.remainder = CutOf(stream)[at].remainder
    <3> HIDE DEF tail
    <3>1. tail \in Cuts(Byte)
      BY <1>5 DEF tail
    <3>2. CASE block = <<>>
      BY <1>5, <1>7, <3>2 DEF tail
    <3>3. CASE block # <<>>
      <4>1. CutOf(stream)[at] = [tail EXCEPT !.events = <<block>> \o @]
        BY <1>5, <3>3 DEF tail
      <4>2. /\ CutOf(stream)[at].events = <<block>> \o tail.events
            /\ CutOf(stream)[at].remainder = tail.remainder
        BY <3>1, <4>1 DEF Cuts
      <4>3. Append(events, block) = events \o <<block>>
        <5>1. events \in Seq(Seq(Byte))
          BY <1>1 DEF FramingType
        <5> QED
          BY <1>4, <5>1, AppendIsConcat
      <4>4. (events \o <<block>>) \o tail.events = events \o (<<block>> \o tail.events)
        <5>1. /\ events \in Seq(Seq(Byte)) /\ <<block>> \in Seq(Seq(Byte))
              /\ tail.events \in Seq(Seq(Byte))
          BY <1>1, <1>4, <3>1 DEF FramingType, Cuts
        <5>2. PICK later \in Seq(Seq(Byte)) : later = tail.events
          BY <5>1
        <5>3. PICK one \in Seq(Seq(Byte)) : one = <<block>>
          BY <5>1
        <5>4. (events \o one) \o later = events \o (one \o later)
          BY <5>1, ConcatAssociative
        <5> QED
          BY <5>2, <5>3, <5>4
      <4> QED
        BY <1>7, <3>3, <4>2, <4>3, <4>4
    <3> QED
      BY <3>2, <3>3
  <2>4. next \in 1 .. taken' + 1 /\ CutSoFar(next)'
    BY <1>2, <1>3, <1>5, <2>3 DEF CutSoFar, ReferenceEvents, Remainder
  <2>5. EventsIgnoreChunks'
    <3>1. tail.events \in Seq(Seq(Byte)) /\ events' \in Seq(Seq(Byte))
      BY <1>5, <2>1 DEF Cuts
    <3>2. events' \o tail.events = ReferenceEvents
      BY <1>3, <2>3 DEF CutSoFar
    <3> HIDE DEF tail
    <3>3. IsPrefix(events', ReferenceEvents)
      BY <3>1, <3>2, FrontIsPrefix
    <3> QED
      BY <1>2, <3>3 DEF EventsIgnoreChunks, ReferenceEvents
  <2>6. ~Settled' /\ step' = "frame"
    BY <1>1, <1>7 DEF Settled
  <2>7. \E i \in 1 .. taken' + 1 : CutSoFar(i)'
    BY <2>4
  <2> QED
    BY <2>1, <2>2, <2>5, <2>6, <2>7 DEF FramingInv
<1> QED
  BY <1>2, <1>6, <1>7

\* Whatever the protocol does, the framing makes one of its own steps or none.
LEMMA StreamNextPreservesFraming ==
    FramingInv /\ [StreamNext]_<<framing, protocol>> => FramingInv'
<1> SUFFICES ASSUME FramingInv, [StreamNext]_<<framing, protocol>> PROVE FramingInv'
  OBVIOUS
<1>1. ASSUME UNCHANGED framing PROVE FramingInv'
  BY <1>1 DEF framing, FramingInv, FramingType, CutSoFar, Settled, BufferOverflows,
              EventsIgnoreChunks, ReferenceEvents, Remainder
<1>2. ASSUME NEW size \in 1 .. Len(stream), ReceiveChunk(size) PROVE FramingInv'
  BY <1>2, ReceivePreservesInv DEF ReceiveChunk
<1>3. CASE UseChunk
  BY <1>3, FillPreservesInv, ChunkPreservesInv DEF UseChunk
<1>4. CASE ParseBlock
  BY <1>4, FramePreservesInv DEF ParseBlock
<1>5. CASE EndBlocks
  BY <1>5, EndFramesPreservesInv DEF EndBlocks
<1>6. CASE EndBytes
  BY <1>6, EndOfStreamPreservesInv DEF EndBytes
<1>7. CASE Request \/ TransportBreaks \/ Resume \/ Close
  <2>1. UNCHANGED framing
    BY <1>7 DEF Request, TransportBreaks, Resume, Close
  <2> QED
    BY <1>1, <2>1
<1>8. CASE UNCHANGED <<framing, protocol>>
  BY <1>1, <1>8
<1> QED
  BY <1>2, <1>3, <1>4, <1>5, <1>6, <1>7, <1>8 DEF StreamNext

LEMMA FramingInvHolds == StreamSpec => []FramingInv
<1>1. StreamInit => FramingInv
  BY FramingInitInv DEF StreamInit
<1> QED
  BY <1>1, StreamNextPreservesFraming, PTL DEF StreamSpec

\* For every stream and every size of events: the events found in chunks of any size are
\* the first ones of the whole stream.
THEOREM ChunksDoNotMatter == StreamSpec => []EventsIgnoreChunks
<1>1. FramingInv => EventsIgnoreChunks
  BY DEF FramingInv
<1> QED
  BY <1>1, FramingInvHolds, PTL

-----------------------------------------------------------------------------
(***************************************************************************)
(* The size of what was delivered is a fold, and folds are defined by      *)
(* recursion: it counts the units of output, and the set of these units    *)
(* needs no recursion.                                                     *)
(***************************************************************************)

SizeOf(d) == FoldLeft(LAMBDA total, event : total + event.size, 0, d)

UnitsAt(d, positions) == UNION { {i} \X (1 .. d[i].size) : i \in positions }

LEMMA UnitsAtFinite ==
    ASSUME NEW d \in Seq(Event), NEW positions \in SUBSET (1 .. Len(d))
    PROVE  /\ IsFiniteSet(UnitsAt(d, positions))
           /\ Cardinality(UnitsAt(d, positions)) \in Nat
<1> DEFINE UnitsOf(i) == {i} \X (1 .. d[i].size)
           Parts == {UnitsOf(i) : i \in positions}
<1>1. IsFiniteSet(positions)
  <2>1. IsFiniteSet(1 .. Len(d))
    BY FS_Interval
  <2> QED
    BY <2>1, FS_Subset
<1>2. IsFiniteSet(Parts)
  <2> DEFINE f == [i \in positions |-> UnitsOf(i)]
  <2>1. f \in Surjection(positions, Parts)
    <3> HIDE DEF UnitsOf
    <3> QED
      BY DEF Surjection
  <2> QED
    BY <1>1, <2>1, FS_Surjection
<1>3. ASSUME NEW i \in positions
      PROVE  IsFiniteSet(UnitsOf(i))
  <2>1. d[i].size \in Int /\ 1 \in Int
    <3>1. d[i] \in Event
      OBVIOUS
    <3> QED
      BY <3>1 DEF Event
  <2>2. IsFiniteSet(1 .. d[i].size) /\ IsFiniteSet({i})
    BY <2>1, FS_Interval, FS_Singleton
  <2> QED
    BY <2>2, FS_Product
<1>4. IsFiniteSet(UNION Parts)
  <2> HIDE DEF UnitsOf
  <2>1. \A T \in Parts : IsFiniteSet(T)
    BY <1>3
  <2> QED
    BY <1>2, <2>1, FS_UNION
<1> QED
  BY <1>4, FS_CardinalityType DEF UnitsAt

\* One event more adds its size.
LEMMA UnitsAtAdd ==
    ASSUME NEW d \in Seq(Event), NEW positions \in SUBSET (1 .. Len(d)),
           NEW last \in (1 .. Len(d)) \ positions
    PROVE  Cardinality(UnitsAt(d, positions \cup {last})) =
              Cardinality(UnitsAt(d, positions)) + d[last].size
<1> DEFINE size == d[last].size
           Old == UnitsAt(d, positions)
           New == {last} \X (1 .. size)
<1>1. size \in Nat
  <2>1. d[last] \in Event
    OBVIOUS
  <2> QED
    BY <2>1 DEF Event
<1>2. UnitsAt(d, positions \cup {last}) = Old \cup New
  BY DEF UnitsAt
<1>3. Old \cap New = {}
  BY DEF UnitsAt
<1>4. IsFiniteSet(Old) /\ Cardinality(Old) \in Nat
  BY UnitsAtFinite
<1>5. IsFiniteSet(New) /\ Cardinality(New) = size
  <2>1. IsFiniteSet({last}) /\ Cardinality({last}) = 1
    BY FS_Singleton
  <2>2. IsFiniteSet(1 .. size) /\ Cardinality(1 .. size) = size
    <3> HIDE DEF size
    <3>1. size \in Int /\ 1 \in Int /\ (1 > size => size = 0) /\ size - 1 + 1 = size
      BY <1>1
    <3> QED
      BY <3>1, FS_Interval
  <2>3. IsFiniteSet(New) /\ Cardinality(New) = 1 * size
    <3> HIDE DEF size
    <3> QED
      BY <2>1, <2>2, FS_Product
  <2> QED
    BY <1>1, <2>3
<1> HIDE DEF Old, New
<1>6. Cardinality(Old \cup New) =
         Cardinality(Old) + Cardinality(New) - Cardinality(Old \cap New)
  BY <1>4, <1>5, FS_Union
<1>7. Cardinality(Old \cap New) = 0
  BY <1>3, FS_EmptySet
<1> HIDE DEF size
<1>8. Cardinality(Old \cup New) = Cardinality(Old) + size
  BY <1>1, <1>4, <1>5, <1>6, <1>7
<1> QED
  BY <1>2, <1>8 DEF Old, size

LEMMA SizeOfProperty ==
    ASSUME NEW d \in Seq(Event)
    PROVE  SizeOf(d) = Cardinality(UnitsAt(d, 1 .. Len(d)))
<1> DEFINE Total(s) == Cardinality(UnitsAt(d, s))
           Folds(f) == f = [s \in SUBSET DOMAIN d |->
                               IF s = {} THEN 0 ELSE f[s \ {Max(s)}] + d[Max(s)].size]
           chosen == CHOOSE f : Folds(f)
<1>1. DOMAIN d = 1 .. Len(d) /\ Len(d) \in Nat
  OBVIOUS
<1>2. SizeOf(d) = chosen[DOMAIN d]
  BY DEF SizeOf, FoldLeft, MapThenFoldSet
<1>3. ASSUME NEW s \in SUBSET DOMAIN d, s # {}
      PROVE  Max(s) \in s /\ \A i \in s : i <= Max(s)
  <2> DEFINE Below == {Len(d) - i : i \in s}
  <2>1. Below \in SUBSET Nat /\ Below # {}
    BY <1>1, <1>3
  <2>2. PICK least \in Below : \A n \in Below : least <= n
    <3> HIDE DEF Below
    <3> QED
      BY <2>1, LeastNatural
  <2>3. PICK x \in s : least = Len(d) - x
    OBVIOUS
  <2>4. ASSUME NEW y \in s PROVE x >= y
    <3>1. Len(d) - y \in Below
      OBVIOUS
    <3> HIDE DEF Below
    <3>2. Len(d) - x <= Len(d) - y
      BY <2>2, <2>3, <3>1
    <3> QED
      BY <1>1, <3>2
  <2> QED
    BY <1>1, <2>4 DEF Max
<1>4. ASSUME NEW s \in SUBSET DOMAIN d, s # {}
      PROVE  Total(s) = Total(s \ {Max(s)}) + d[Max(s)].size
  <2>1. PICK last \in s : last = Max(s)
    BY <1>3, <1>4
  <2>2. PICK rest \in SUBSET DOMAIN d : rest = s \ {last}
    OBVIOUS
  <2>3. last \in (1 .. Len(d)) \ rest /\ rest \in SUBSET (1 .. Len(d))
    BY <1>1, <2>2
  <2>4. rest \cup {last} = s
    BY <2>2
  <2> QED
    BY <2>1, <2>2, <2>3, <2>4, UnitsAtAdd
<1>5. Total({}) = 0
  <2>1. UnitsAt(d, {}) = {}
    BY DEF UnitsAt
  <2> QED
    BY <2>1, FS_EmptySet
<1> HIDE DEF Total
<1>6. Folds([s \in SUBSET DOMAIN d |-> Total(s)])
  <2> DEFINE f == [s \in SUBSET DOMAIN d |-> Total(s)]
             g == [s \in SUBSET DOMAIN d |->
                      IF s = {} THEN 0 ELSE f[s \ {Max(s)}] + d[Max(s)].size]
  <2>1. ASSUME NEW s \in SUBSET DOMAIN d PROVE f[s] = g[s]
    <3>1. CASE s = {}
      BY <1>5, <3>1
    <3>2. CASE s # {}
      <4>1. f[s \ {Max(s)}] = Total(s \ {Max(s)}) /\ f[s] = Total(s)
        OBVIOUS
      <4> HIDE DEF f
      <4>2. g[s] = f[s \ {Max(s)}] + d[Max(s)].size
        BY <3>2
      <4> QED
        BY <1>4, <3>2, <4>1, <4>2
    <3> QED
      BY <3>1, <3>2
  <2>2. f = [s \in SUBSET DOMAIN d |-> f[s]] /\ g = [s \in SUBSET DOMAIN d |-> g[s]]
    OBVIOUS
  <2> HIDE DEF f, g
  <2>3. f = g
    BY <2>1, <2>2
  <2> QED
    BY <2>3 DEF f, g
<1>7. Folds(chosen)
  <2> HIDE DEF Folds
  <2> QED
    BY <1>6
<1> HIDE DEF chosen
<1> DEFINE Wrong == {k \in 0 .. Len(d) : chosen[1 .. k] # Total(1 .. k)}
<1>8. Wrong = {}
  <2> SUFFICES ASSUME Wrong # {} PROVE FALSE
    OBVIOUS
  <2>1. Wrong \in SUBSET Nat
    OBVIOUS
  <2>2. PICK k \in Wrong : \A j \in Wrong : k <= j
    <3> HIDE DEF Wrong
    <3> QED
      BY <2>1, LeastNatural
  <2>3. k \in 0 .. Len(d) /\ 1 .. k \in SUBSET DOMAIN d
    BY <1>1
  <2>4. PICK s \in SUBSET DOMAIN d : s = 1 .. k
    BY <2>3
  <2>5. chosen[s] = IF s = {} THEN 0 ELSE chosen[s \ {Max(s)}] + d[Max(s)].size
    BY <1>7
  <2>6. CASE k = 0
    <3>1. 1 .. k = {}
      BY <2>6
    <3> QED
      BY <1>5, <2>4, <2>5, <3>1
  <2>7. CASE k > 0
    <3>1. s # {} /\ s \ {k} = 1 .. k - 1
      <4>1. k \in Int /\ k \in 1 .. k
        BY <2>3, <2>7
      <4>2. ASSUME NEW i PROVE i \in (1 .. k) \ {k} <=> i \in 1 .. k - 1
        BY <4>1
      <4> QED
        BY <2>4, <4>1, <4>2
    <3>2. Max(s) = k
      <4>1. Max(s) \in s /\ \A i \in s : i <= Max(s)
        BY <1>3, <3>1
      <4> QED
        BY <2>3, <2>4, <2>7, <4>1
    <3>3. chosen[1 .. k - 1] = Total(1 .. k - 1)
      <4>1. k - 1 \in 0 .. Len(d) /\ k - 1 < k
        BY <2>3, <2>7
      <4> QED
        BY <2>2, <2>3, <4>1
    <3>4. Total(s) = Total(1 .. k - 1) + d[k].size
      BY <1>4, <3>1, <3>2
    <3> QED
      BY <2>4, <2>5, <3>1, <3>2, <3>3, <3>4
  <2> QED
    BY <2>3, <2>6, <2>7
<1>9. chosen[1 .. Len(d)] = Total(1 .. Len(d))
  BY <1>1, <1>8
<1> QED
  BY <1>1, <1>2, <1>9 DEF Total

\* The size of one event more.
LEMMA SizeOfAppend ==
    ASSUME NEW d \in Seq(Event), NEW event \in Event
    PROVE  /\ SizeOf(Append(d, event)) = SizeOf(d) + event.size
           /\ SizeOf(d) \in Nat /\ SizeOf(<<>>) = 0
<1>1. PICK longer \in Seq(Event) : longer = Append(d, event)
  <2>1. Append(d, event) \in Seq(Event)
    BY AppendProperties
  <2> QED
    BY <2>1
<1>2. /\ Len(d) \in Nat /\ Len(longer) = Len(d) + 1
      /\ \A i \in 1 .. Len(d) : longer[i] = d[i]
      /\ longer[Len(d) + 1] = event
  BY <1>1
<1>3. UnitsAt(longer, 1 .. Len(d)) = UnitsAt(d, 1 .. Len(d))
  <2>1. \A i \in 1 .. Len(d) : longer[i].size = d[i].size
    BY <1>2
  <2> QED
    BY <2>1 DEF UnitsAt
<1>4. /\ 1 .. Len(d) \in SUBSET (1 .. Len(longer))
      /\ Len(d) + 1 \in (1 .. Len(longer)) \ (1 .. Len(d))
      /\ (1 .. Len(d)) \cup {Len(d) + 1} = 1 .. Len(longer)
  BY <1>2
<1>5. Cardinality(UnitsAt(longer, 1 .. Len(longer))) =
         Cardinality(UnitsAt(longer, 1 .. Len(d))) + event.size
  BY <1>2, <1>4, UnitsAtAdd
<1>6. SizeOf(d) \in Nat
  BY SizeOfProperty, UnitsAtFinite
<1>7. SizeOf(<<>>) = 0
  <2>1. <<>> \in Seq(Event) /\ 1 .. Len(<<>>) = {}
    OBVIOUS
  <2>2. UnitsAt(<<>>, {}) = {}
    BY DEF UnitsAt
  <2> QED
    BY <2>1, <2>2, SizeOfProperty, FS_EmptySet
<1> QED
  BY <1>1, <1>3, <1>5, <1>6, <1>7, SizeOfProperty

-----------------------------------------------------------------------------
(***************************************************************************)
(* The two halves of a stream.  Every event that the framing finds is      *)
(* delivered before it finds another, so that, as long as nothing fails,   *)
(* there are as many delivered as found.                                   *)
(***************************************************************************)

LEMMA OutputSizeIsSizeOf == Protocol!OutputSize = SizeOf(delivered)
BY DEF Protocol!OutputSize, Protocol!FoldLeft, Protocol!MapThenFoldSet, Protocol!Max,
       SizeOf, FoldLeft, MapThenFoldSet, Max

ReturnInv ==
    /\ stage # "failed" =>
          /\ Len(delivered) = Len(events)
          /\ SizeOf(delivered) = output /\ output <= MaxOutput
    /\ SizeOf(delivered) <= MaxOutput
    /\ stage = "returned" => step = "complete"

LEMMA ReturnInitInv == StreamInit => ReturnInv
<1> SUFFICES ASSUME StreamInit PROVE ReturnInv
  OBVIOUS
<1> USE DEF StreamInit, FramingInit, Protocol!Init
<1>1. SizeOf(<<>>) = 0
  <2>1. <<>> \in Seq(Event)
    OBVIOUS
  <2>2. Protocol!Completed(NoRoute) \in Event
    BY DEF Protocol!Completed, Event
  <2> QED
    BY <2>1, <2>2, SizeOfAppend
<1> QED
  BY <1>1, StreamAssumption DEF ReturnInv

\* A step that delivers nothing and leaves what the framing has found.
LEMMA QuietPreservesReturn ==
    ASSUME ReturnInv, stage # "failed", UNCHANGED <<delivered, events, output>>,
           stage' = "returned" => step' = "complete"
    PROVE  ReturnInv'
BY DEF ReturnInv

\* A failed stream keeps what it has delivered.
LEMMA FailurePreservesReturn ==
    ASSUME ReturnInv, stage' = "failed", UNCHANGED delivered
    PROVE  ReturnInv'
BY DEF ReturnInv

\* One event found is one event delivered, with its size, or the stream has failed.
LEMMA EventPreservesReturn ==
    ASSUME StreamInv, ReturnInv, Protocol!ReadEvent, Len(events') = Len(events) + 1
    PROVE  ReturnInv'
<1> USE DEF Protocol!Counted, Protocol!Reading
<1>1. delivered \in Seq(Event) /\ output \in Nat
  BY DEF StreamInv, StreamType
<1>2. ASSUME NEW event \in Event, Protocol!Deliver(event), stage = "read",
             output' = output + event.size, output' <= MaxOutput
      PROVE  ReturnInv'
  <2>1. stage' = "suspended" /\ delivered' = Append(delivered, event)
    BY <1>2 DEF Protocol!Deliver
  <2>2. Len(delivered') = Len(delivered) + 1
    BY <1>1, <1>2, <2>1, AppendProperties
  <2>3. SizeOf(delivered') = SizeOf(delivered) + event.size
    BY <1>1, <1>2, <2>1, SizeOfAppend
  <2>4. Len(delivered) = Len(events) /\ SizeOf(delivered) = output
    BY <1>2 DEF ReturnInv
  <2>5. Len(delivered') = Len(events')
    BY <2>2, <2>4
  <2>6. SizeOf(delivered') = output'
    BY <1>2, <2>3, <2>4
  <2> QED
    BY <1>2, <2>1, <2>5, <2>6 DEF ReturnInv
<1>3. ASSUME NEW type, NEW p, Protocol!Raise(type, p) PROVE ReturnInv'
  BY <1>3, FailurePreservesReturn DEF Protocol!Raise
<1>4. output <= MaxOutput \/ stage # "read"
  BY DEF ReturnInv
<1>5. ASSUME NEW r \in Routes, Protocol!ReadStart(r) PROVE ReturnInv'
  <2>1. CASE Protocol!Deliver(Protocol!Start(r))
    <3>1. Protocol!Start(r) \in Event
      BY StreamAssumption DEF Protocol!Start, Event
    <3>3. Protocol!Start(r).size = 0
      BY DEF Protocol!Start
    <3>2. stage = "read" /\ output' = output
      BY <1>5 DEF Protocol!ReadStart
    <3> QED
      BY <1>1, <1>2, <1>4, <2>1, <3>1, <3>2, <3>3
  <2> QED
    BY <1>3, <1>5, <2>1 DEF Protocol!ReadStart
<1>6. ASSUME NEW r \in Routes, Protocol!ReadCompleted(r) PROVE ReturnInv'
  <2>1. CASE Protocol!Deliver(Protocol!Completed(r))
    <3>1. Protocol!Completed(r) \in Event
      BY StreamAssumption DEF Protocol!Completed, Event
    <3>3. Protocol!Completed(r).size = 0
      BY DEF Protocol!Completed
    <3>2. stage = "read" /\ output' = output
      BY <1>6 DEF Protocol!ReadCompleted
    <3> QED
      BY <1>1, <1>2, <1>4, <2>1, <3>1, <3>2, <3>3
  <2> QED
    BY <1>3, <1>6, <2>1 DEF Protocol!ReadCompleted
<1>7. ASSUME NEW size \in Sizes, Protocol!ReadOutput(size) PROVE ReturnInv'
  <2>1. CASE output + size <= MaxOutput /\ Protocol!Deliver(Protocol!Output(size))
    <3>1. Protocol!Output(size) \in Event
      BY StreamAssumption DEF Protocol!Output, Event
    <3>3. Protocol!Output(size).size = size
      BY DEF Protocol!Output
    <3>2. stage = "read" /\ output' = output + size
      BY <1>7 DEF Protocol!ReadOutput
    <3> QED
      BY <1>2, <2>1, <3>1, <3>2, <3>3
  <2> QED
    BY <1>3, <1>7, <2>1 DEF Protocol!ReadOutput
<1>8. CASE Protocol!ReadError \/ Protocol!ReadInvalid \/ Protocol!TooManyEvents
           \/ Protocol!DataAfterTerminal
  <2>1. \E type, p : Protocol!Raise(type, p)
    BY <1>8 DEF Protocol!ReadError, Protocol!ReadInvalid, Protocol!TooManyEvents,
                Protocol!DataAfterTerminal
  <2> QED
    BY <1>3, <2>1
<1> QED
  BY <1>5, <1>6, <1>7, <1>8 DEF Protocol!ReadEvent

LEMMA StreamNextPreservesReturn ==
    StreamInv /\ FramingInv /\ ReturnInv /\ [StreamNext]_<<framing, protocol>> => ReturnInv'
<1> SUFFICES ASSUME StreamInv, FramingInv, ReturnInv, [StreamNext]_<<framing, protocol>>
             PROVE  ReturnInv'
  OBVIOUS
<1>1. ASSUME UNCHANGED protocol, UNCHANGED events, stage = "read" \/ UNCHANGED step
      PROVE  ReturnInv'
  BY <1>1 DEF ReturnInv, protocol, parser
<1>2. ASSUME NEW type, NEW p, Protocol!Raise(type, p) PROVE ReturnInv'
  BY <1>2, FailurePreservesReturn DEF Protocol!Raise
<1>3. ASSUME NEW type, RaiseOf(type) PROVE ReturnInv'
  BY <1>2, <1>3 DEF RaiseOf, Protocol!FramingFails
<1>4. CASE Request
  <2>1. CASE Protocol!Respond
    BY <1>4, <2>1, QuietPreservesReturn
    DEF Request, framing, Protocol!Respond, Protocol!parser
  <2>2. CASE Protocol!RequestFails \/ Protocol!RequestRejected \/ Protocol!ResponseInvalid
    BY <1>2, <2>2 DEF Protocol!RequestFails, Protocol!RequestRejected,
                      Protocol!ResponseInvalid
  <2> QED
    BY <1>4, <2>1, <2>2 DEF Request, Protocol!Request
<1>5. CASE TransportBreaks
  BY <1>2, <1>5 DEF TransportBreaks, Protocol!TransportBreaks
<1>6. CASE UseChunk
  BY <1>1, <1>6 DEF UseChunk, Running, Fill, ChunkIsUsed
<1>7. CASE ParseBlock
  <2>1. stage = "read" /\ Frame
    BY <1>7 DEF ParseBlock, Running
  <2>2. CASE \E type : RaiseOf(type)
    BY <1>3, <2>2
  <2>3. CASE UNCHANGED protocol /\ UNCHANGED events
    BY <1>1, <2>1, <2>3
  <2>4. CASE Protocol!ReadEvent /\ step' # "too large" /\ ~(events' = events /\ step' = step)
    <3> DEFINE block == SubSeq(buffer, 1, FirstSeparator(buffer)[1] - 1)
    <3>1. events' = Append(events, block)
      BY <2>1, <2>4 DEF Frame
    <3>2. events' \in Seq(Seq(Byte)) /\ events \in Seq(Seq(Byte))
      BY StreamNextPreservesFraming DEF FramingInv, FramingType
    <3> HIDE DEF block
    <3>3. Len(events') = Len(events) + 1
      BY <3>1, <3>2
    <3> QED
      BY <2>4, <3>3, EventPreservesReturn
  <2> QED
    BY <1>7, <2>2, <2>3, <2>4, Zenon DEF ParseBlock
<1>8. CASE EndBlocks
  <2>1. CASE UNCHANGED protocol
    BY <1>1, <1>8, <2>1 DEF EndBlocks, Running, EndFrames
  <2>2. CASE RaiseOf("limit")
    BY <1>3, <2>2
  <2> QED
    BY <1>8, <2>1, <2>2 DEF EndBlocks
<1>9. CASE EndBytes
  <2>1. CASE RaiseOf("protocol")
    BY <1>3, <2>1
  <2>2. CASE Protocol!EndOfStream /\ step' = "complete"
    <3>1. CASE stage' = "returned" /\ UNCHANGED delivered
      <4>1. UNCHANGED events /\ stage = "read"
        BY <1>9 DEF EndBytes, EndOfStream, Running
      <4>2. UNCHANGED output
        BY <2>2 DEF Protocol!EndOfStream, Protocol!parser
      <4> QED
        BY <2>2, <3>1, <4>1, <4>2, QuietPreservesReturn
    <3>2. CASE Protocol!Raise("stream", Protocol!SafePhase)
      BY <1>2, <3>2
    <3> QED
      BY <2>2, <3>1, <3>2 DEF Protocol!EndOfStream
  <2> QED
    BY <1>9, <2>1, <2>2 DEF EndBytes
<1>10. ASSUME NEW size, ReceiveChunk(size) PROVE ReturnInv'
  <2>1. CASE UNCHANGED protocol
    BY <1>1, <1>10, <2>1 DEF ReceiveChunk, Running, Receive
  <2>2. CASE RaiseOf("limit")
    BY <1>3, <2>2
  <2> QED
    BY <1>10, <2>1, <2>2 DEF ReceiveChunk
<1>11. CASE Resume
  <2>1. CASE Protocol!Raise("protocol", Protocol!SafePhase)
    BY <1>2, <2>1
  <2>2. CASE Protocol!Pull
    BY <1>11, <2>2, QuietPreservesReturn DEF Resume, framing, Protocol!Pull, Protocol!parser
  <2> QED
    BY <1>11, <2>1, <2>2 DEF Resume
<1>12. CASE Close
  BY <1>12, QuietPreservesReturn DEF Close, framing, Protocol!Close, Protocol!parser
<1>13. CASE UNCHANGED <<framing, protocol>>
  BY <1>1, <1>13 DEF framing
<1> QED
  BY <1>4, <1>5, <1>6, <1>7, <1>8, <1>9, <1>10, <1>11, <1>12, <1>13 DEF StreamNext

\* What a complete framing has found: all events of the stream, and nothing too large.
LEMMA CompleteIsWhole ==
    ASSUME FramingInv, step = "complete"
    PROVE  events = ReferenceEvents /\ IsBlank(Remainder) /\ ~Oversized
<1>1. /\ FramingType /\ taken = Len(stream) /\ SeparatorsOf(buffer) = {}
      /\ IsBlank(buffer) /\ ~BufferOverflows
      /\ \A i \in DOMAIN events : Len(events[i]) <= MaxEvent
  BY DEF FramingInv, Settled
<1>2. PICK at \in 1 .. taken + 1 : CutSoFar(at)
  BY DEF FramingInv
<1>3. /\ stream \in Seq(Byte) /\ at \in 1 .. Len(stream) + 1
      /\ events \in Seq(Seq(Byte)) /\ buffer \in Seq(Byte)
  BY <1>1, StreamBytes DEF FramingType
<1>4. CutOf(stream)[at] = CutStep(stream, CutOf(stream), at)
  BY <1>3, CutEquation
<1>5. CutOf(stream)[at] = [events |-> <<>>, remainder |-> buffer]
  <2>1. buffer = SubSeq(stream, at, Len(stream))
    BY <1>1, <1>2 DEF CutSoFar
  <2> QED
    BY <1>1, <1>4, <2>1 DEF CutStep
<1>6. events = ReferenceEvents /\ buffer = Remainder
  <2>1. events \o <<>> = ReferenceEvents /\ buffer = Remainder
    BY <1>2, <1>5 DEF CutSoFar
  <2> QED
    BY <1>3, <2>1, ConcatEmptySeq
<1>7. MayBecomeEvent(buffer, MaxEvent)
  <2>1. Len(buffer) \in Nat /\ MaxEvent \in Nat
    BY <1>3, FramingAssumption
  <2>2. CASE Len(buffer) <= MaxEvent
    <3>1. SubSeq(buffer, Len(buffer) + 1, Len(buffer)) = <<>>
      BY <1>3
    <3>2. PossibleSuffix(<<>>)
      <4>1. IsPrefix(<<>>, <<LF, LF>>)
        <5>1. SubSeq(<<>>, 1, 0) = <<>> /\ SubSeq(<<LF, LF>>, 1, 0) = <<>>
          BY SubSeqEmpty
        <5> QED
          BY <5>1 DEF IsPrefix
      <4> QED
        BY <4>1 DEF PossibleSuffix, Separators
    <3>3. Len(buffer) \in 0 .. Len(buffer)
      BY <2>1
    <3> QED
      BY <2>2, <3>1, <3>2, <3>3 DEF MayBecomeEvent
  <2>3. CASE Len(buffer) > MaxEvent
    <3>1. PossibleSuffix(SubSeq(buffer, MaxEvent + 1, Len(buffer)))
      BY <1>1, <2>3 DEF BufferOverflows
    <3>2. MaxEvent \in 0 .. Len(buffer) /\ MaxEvent <= MaxEvent
      BY <2>1, <2>3
    <3> QED
      BY <3>1, <3>2 DEF MayBecomeEvent
  <2> QED
    BY <2>1, <2>2, <2>3
<1>8. \A i \in DOMAIN events : ~(Len(events[i]) > MaxEvent)
  <2> SUFFICES ASSUME NEW i \in DOMAIN events PROVE ~(Len(events[i]) > MaxEvent)
    OBVIOUS
  <2>1. Len(events[i]) \in Nat /\ MaxEvent \in Nat
    BY <1>3, FramingAssumption
  <2> QED
    BY <1>1, <2>1
<1> QED
  BY <1>1, <1>6, <1>7, <1>8 DEF Oversized

\* An iterator that returns has delivered an event for every block of the whole stream,
\* the completed one last, and only white space follows; and no stream delivers more
\* output than its limit.
THEOREM ReturnsAreWhole == StreamSpec => []ReturnIsWholeStream
<1>1. StreamInit => ReturnInv
  BY ReturnInitInv
<1>2. StreamInv /\ FramingInv /\ ReturnInv => ReturnIsWholeStream
  <2> SUFFICES ASSUME StreamInv, FramingInv, ReturnInv PROVE ReturnIsWholeStream
    OBVIOUS
  <2>1. Last(delivered) = delivered[Len(delivered)]
    BY DEF Last
  <2>2. delivered # <<>> /\ Last(delivered).kind = "completed" => phase # "before"
    BY <2>1 DEF StreamInv, FailureTells, IsCompleted
  <2>3. Protocol!OutputSize <= MaxOutput
    BY OutputSizeIsSizeOf DEF ReturnInv
  <2>4. ASSUME stage = "returned"
        PROVE  /\ Len(delivered) = Len(ReferenceEvents)
               /\ delivered # <<>> /\ Last(delivered).kind = "completed"
               /\ IsBlank(Remainder) /\ ~Oversized
    <3>1. step = "complete" /\ Len(delivered) = Len(events) /\ IsCompleted
      BY <2>4 DEF ReturnInv, StreamInv, FailureTells
    <3> QED
      BY <2>1, <3>1, CompleteIsWhole DEF IsCompleted
  <2> QED
    BY <2>2, <2>3, <2>4 DEF ReturnIsWholeStream
<1> QED
  BY <1>1, <1>2, StreamInvHolds, FramingInvHolds, StreamNextPreservesReturn, PTL DEF StreamSpec
=============================================================================
