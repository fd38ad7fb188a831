--------------------------- MODULE Providers_proofs ---------------------------
(***************************************************************************)
(* Proofs about the providers the library uses beside the Router: one      *)
(* generation of Higgsfield, for every interval, every set of timeouts and *)
(* every set of IDs; and the bounds of an OpenRouter snapshot, for all     *)
(* bounds and every document.                                              *)
(***************************************************************************)
EXTENDS GenerationWait, JsonBounds, FiniteSetTheorems, SequenceTheorems, TLAPS

-----------------------------------------------------------------------------
(***************************************************************************)
(* Higgsfield: at most one generation, an accepted request that is never   *)
(* out of reach, and the promise of PollUntilDeadline.                     *)
(*                                                                         *)
(* SubmittedOnce needs to know that the POST is only the first request,    *)
(* AcceptedIsNamed that the three IDs of the loop agree: CallInv.          *)
(***************************************************************************)

\* Until the first request nothing was sent and nothing is known; the client asks
\* for a status only if it knows of which request, and an answer to the submission
\* always makes the next request a GET.
CallInv ==
    /\ requestId = first
    /\ pc = "start" => method = "POST"
    /\ statusId # NoId => statusId = first
    /\ method = "GET" => statusId # NoId
    /\ method = "POST" => pc = "done" \/ (pc = "sleep" <=> statusId # NoId)
    /\ pc # "done" => (statusId = NoId <=> first = NoId)
    /\ pc = "start" \/ (pc = "ready" /\ method = "POST") => generations = 0 /\ ~sent
    /\ pc \notin {"ask", "done"} => ~sent
    /\ pc # "done" => result = [kind |-> "none", id |-> NoId]
    /\ pc = "done" => result.id = first \/ result.kind = "recursion"
    /\ result.kind \in Ended \cup {"completed"} => result.id # NoId

PauseInv ==
    /\ pc \in {"start", "done"} => began = 0 /\ deadline = 0 /\ heard = 0 /\ asked = 0
    /\ pc = "sleep" => wake >= heard + Interval \/ wake >= deadline
    /\ pc = "ready" /\ asked > 0 => now >= heard + Interval \/ now >= deadline

Inv == TypeOK /\ SubmittedOnce /\ CallInv /\ PauseInv

-----------------------------------------------------------------------------
\* Every way the call ends.
LEMMA EndPreservesInv ==
    ASSUME Inv, NEW kind \in Kinds, NEW id \in Ids \cup {NoId}, End(kind, id),
           UNCHANGED provider, requestId' = id, first' = id,
           method' = method, statusId' \in {statusId, id},
           kind \in Ended \cup {"completed"} => id # NoId,
           first \in {NoId, id},
           method = "GET" => statusId' # NoId
    PROVE  Inv'
<1> USE GenerationAssumption
    DEF GenerationAssumption, Inv, provider, End, Kinds, Ended
<1>1. TypeOK'
  BY DEF TypeOK, Results
<1>2. SubmittedOnce'
  BY DEF SubmittedOnce
<1>3. CallInv'
  BY DEF CallInv
<1>4. PauseInv'
  BY DEF PauseInv
<1> QED
  BY <1>1, <1>2, <1>3, <1>4

LEMMA ClientPreservesInv ==
    ASSUME Inv, Client
    PROVE  Inv'
<1> USE GenerationAssumption DEF GenerationAssumption
<1>1. CASE RejectArguments
  <2>1. PICK kind \in {"value", "protocol"} : End(kind, NoId)
    BY <1>1 DEF RejectArguments
  <2>2. first = NoId /\ statusId = NoId /\ requestId = NoId /\ method = "POST"
    BY <1>1 DEF RejectArguments, Inv, CallInv, TypeOK
  <2>3. UNCHANGED <<provider, request>>
    BY <1>1 DEF RejectArguments
  <2> QED
    BY <2>1, <2>2, <2>3, EndPreservesInv DEF request, Kinds, Ended
<1>2. CASE Call
  BY <1>2 DEF Call, Inv, TypeOK, SubmittedOnce, CallInv, PauseInv, provider, request
<1>3. CASE TimeoutBeforeRequest
  <2>1. requestId = first /\ first \in Ids \cup {NoId}
    BY DEF Inv, CallInv, TypeOK
  <2> QED
    BY <1>3, <2>1, EndPreservesInv
    DEF TimeoutBeforeRequest, request, Kinds, Ended, Inv, CallInv
<1>4. CASE Request
  BY <1>4 DEF Request, Send, Inv, TypeOK, SubmittedOnce, CallInv, PauseInv, request
<1>5. CASE HttpFails
  <2>1. requestId = first /\ first \in Ids \cup {NoId}
    BY DEF Inv, CallInv, TypeOK
  <2> QED
    BY <1>5, <2>1, EndPreservesInv DEF HttpFails, request, Kinds, Ended, Inv, CallInv
<1>6. ASSUME NEW id \in Ids \cup {NoId}, AnswerUnidentified(id) PROVE Inv'
  <2>1. requestId = first /\ first \in Ids \cup {NoId}
    BY DEF Inv, CallInv, TypeOK
  <2> QED
    BY <1>6, <2>1, EndPreservesInv
    DEF AnswerUnidentified, request, Kinds, Ended, Inv, CallInv
<1>7. ASSUME NEW id \in Ids \cup {NoId}, NEW status \in Statuses, AnswerFinal(id, status)
      PROVE Inv'
  <2>1. id \in Ids /\ first \in {NoId, id} /\ requestId' = id /\ first' = id
    BY <1>7 DEF AnswerFinal, Identified, Identify, Inv, CallInv
  <2>2. PICK kind \in Kinds : End(kind, id)
    BY <1>7 DEF AnswerFinal, Statuses, Kinds, Open
  <2>3. UNCHANGED <<provider, method, statusId>>
    BY <1>7 DEF AnswerFinal, Identified, Identify
  <2> QED
    BY <2>1, <2>2, <2>3, EndPreservesInv DEF Inv, CallInv
<1>8. ASSUME NEW id \in Ids \cup {NoId}, NEW status \in Statuses,
             TimeoutAfterAnswer(id, status)
      PROVE Inv'
  <2>1. id \in Ids /\ first \in {NoId, id} /\ requestId' = id /\ first' = id
    BY <1>8 DEF TimeoutAfterAnswer, Identified, Identify, Inv, CallInv
  <2>2. UNCHANGED <<provider, method>> /\ statusId' \in {statusId, id} /\ statusId' # NoId
    BY <1>8, <2>1 DEF TimeoutAfterAnswer, Identified, Identify, StatusUrl
  <2> QED
    BY <1>8, <2>1, <2>2, EndPreservesInv DEF TimeoutAfterAnswer, Kinds, Ended
<1>9. ASSUME NEW id \in Ids \cup {NoId}, NEW status \in Statuses, Pause(id, status)
      PROVE Inv'
  <2>1. id \in Ids /\ first \in {NoId, id} /\ requestId' = id /\ first' = id
    BY <1>9 DEF Pause, Sleep, Identified, Identify, Inv, CallInv
  <2>2. statusId' = id
    BY <1>9, <2>1 DEF Pause, Sleep, StatusUrl, Inv, CallInv
  <2>3. TypeOK' /\ SubmittedOnce'
    BY <1>9, <2>1, <2>2
    DEF Pause, Sleep, Identified, Identify, Least, Inv, TypeOK, SubmittedOnce, provider
  <2>4. CallInv'
    BY <1>9, <2>1, <2>2 DEF Pause, Sleep, Identified, Identify, Inv, CallInv, TypeOK,
                            provider
  <2>5. PauseInv'
    BY <1>9 DEF Pause, Sleep, Least, Inv, TypeOK, PauseInv
  <2> QED
    BY <2>3, <2>4, <2>5 DEF Inv
<1>10. CASE WakeUp
  BY <1>10 DEF WakeUp, NextRound, Inv, TypeOK, SubmittedOnce, CallInv, PauseInv, provider
<1>11. CASE AnswerTooDeep
  <2> USE <1>11 DEF AnswerTooDeep, End, Inv, provider, request
  <2>1. TypeOK'
    BY DEF TypeOK, Results, Kinds
  <2>2. SubmittedOnce'
    BY DEF SubmittedOnce
  <2>3. CallInv'
    BY DEF CallInv, Ended
  <2>4. PauseInv'
    BY DEF PauseInv
  <2> QED
    BY <2>1, <2>2, <2>3, <2>4
<1> QED
  BY <1>1, <1>2, <1>3, <1>4, <1>5, <1>6, <1>7, <1>8, <1>9, <1>10, <1>11 DEF Client, Answer

LEMMA InvIsInvariant == Spec => []Inv
<1> USE GenerationAssumption DEF GenerationAssumption
<1>1. Init => Inv
  <2> SUFFICES ASSUME Init PROVE Inv
    OBVIOUS
  <2>1. TypeOK
    BY DEF Init, TypeOK, Results
  <2>2. SubmittedOnce
    BY DEF Init, SubmittedOnce
  <2>3. CallInv
    BY DEF Init, CallInv, Ended
  <2>4. PauseInv
    BY DEF Init, PauseInv
  <2> QED
    BY <2>1, <2>2, <2>3, <2>4 DEF Inv
<1>2. Inv /\ [Next]_vars => Inv'
  <2>1. ASSUME Inv, TakeSubmission PROVE Inv'
    <3> USE <2>1 DEF TakeSubmission, Inv, request, times
    <3>0. /\ generations \in Nat
          /\ generations' = generations \/ generations' = generations + 1
          /\ sent = TRUE /\ sent' = FALSE
      BY DEF TypeOK
    <3>1. TypeOK'
      <4>1. generations' \in Nat
        BY <3>0
      <4> QED
        BY <3>0, <4>1 DEF TypeOK
    <3>2. SubmittedOnce'
      <4>1. generations = 0
        BY <3>0 DEF SubmittedOnce
      <4>2. (IF sent' THEN 1 ELSE 0) = 0
        BY <3>0
      <4>3. generations' = 0 \/ generations' = 1
        BY <3>0, <4>1
      <4> HIDE <2>1, <3>0
      <4> QED
        BY <4>2, <4>3 DEF SubmittedOnce
    <3>3. CallInv'
      BY DEF CallInv
    <3>4. PauseInv'
      BY DEF PauseInv
    <3> QED
      BY <3>1, <3>2, <3>3, <3>4
  <2>2. Inv /\ Tick => Inv'
    BY DEF Tick, Inv, TypeOK, SubmittedOnce, CallInv, PauseInv, provider, request, times
  <2>3. Inv /\ UNCHANGED vars => Inv'
    BY DEF vars, Inv, TypeOK, SubmittedOnce, CallInv, PauseInv, provider, request, times
  <2> QED
    BY <2>1, <2>2, <2>3, ClientPreservesInv DEF Next
<1> QED
  BY <1>1, <1>2, PTL DEF Spec

-----------------------------------------------------------------------------
\* The variables of generate_image and of its provider have their types in every
\* state that a call reaches.
THEOREM TypeCorrect == Spec => []TypeOK
BY InvIsInvariant, PTL DEF Inv

\* One call of generate_image pays for at most one generation, whatever is lost,
\* late or wrong.
THEOREM OneGeneration == Spec => []SubmittedOnce
BY InvIsInvariant, PTL DEF Inv

\* Once the client has a request ID, every end of the call but a RecursionError names
\* it and every later request is about it.
THEOREM AcceptedStaysNamed == Spec => []AcceptedIsNamed
<1>1. Inv => AcceptedIsNamed
  BY DEF Inv, CallInv, AcceptedIsNamed
<1> QED
  BY <1>1, InvIsInvariant, PTL

-----------------------------------------------------------------------------
\* generate_image keeps the promise of PollUntilDeadline: one request at a time, none
\* once the deadline has passed, and a pause of Interval before each but the first.
THEOREM GenerationPolls == Spec => Polls
<1> USE GenerationAssumption
    DEF GenerationAssumption, provider, request, times
<1>1. Init => Polling!Init
  BY DEF Init, Polling!Init
<1>2. Inv /\ [Next]_vars => [Polling!Next]_Polling!vars
  <2> SUFFICES ASSUME Inv, [Next]_vars PROVE [Polling!Next]_Polling!vars
    OBVIOUS
  <2> USE DEF Inv, TypeOK, PauseInv, Polling!vars
  <2>1. CASE RejectArguments
    BY <2>1 DEF RejectArguments, End
  <2>2. CASE Call
    <3>1. Polling!Begin
      BY <2>2 DEF Call, Polling!Begin, Polling!Start
    <3> QED
      BY <3>1 DEF Polling!Next
  <2>3. CASE TimeoutBeforeRequest \/ HttpFails \/ AnswerTooDeep
    <3>1. Polling!End
      BY <2>3 DEF TimeoutBeforeRequest, HttpFails, AnswerTooDeep, End, Polling!End,
                  Polling!Idle
    <3> QED
      BY <3>1 DEF Polling!Next
  <2>4. CASE Request
    <3>1. Polling!Ask
      BY <2>4 DEF Request, Send, Polling!Ask
    <3> QED
      BY <3>1 DEF Polling!Next
  <2>5. ASSUME NEW id, NEW status,
               AnswerUnidentified(id) \/ AnswerFinal(id, status) \/ TimeoutAfterAnswer(id,
               status)
        PROVE [Polling!Next]_Polling!vars
    <3>1. pc = "ask" /\ \E kind, i : End(kind, i)
      BY <2>5 DEF AnswerUnidentified, AnswerFinal, TimeoutAfterAnswer, Identified, Identify
    <3>2. Polling!End
      BY <3>1 DEF End, Polling!End, Polling!Idle
    <3> QED
      BY <3>2 DEF Polling!Next
  <2>6. ASSUME NEW id, NEW status, Pause(id, status) PROVE [Polling!Next]_Polling!vars
    <3>1. Polling!Answer
      BY <2>6 DEF Pause, Sleep, Identified, Identify, Polling!Answer
    <3> QED
      BY <3>1 DEF Polling!Next
  <2>7. CASE WakeUp
    BY <2>7 DEF WakeUp, NextRound
  <2>8. CASE TakeSubmission
    BY <2>8 DEF TakeSubmission
  <2>9. CASE Tick
    <3>1. now' \in 0 .. MaxTime /\ now' > now
      BY <2>9 DEF Tick
    <3>2. UNCHANGED <<pc, began, deadline, heard, asked>>
      BY <2>9 DEF Tick
    <3>3. Polling!Pass
      BY <3>1, <3>2 DEF Polling!Pass
    <3> QED
      BY <3>3 DEF Polling!Next
  <2>10. CASE UNCHANGED vars
    BY <2>10 DEF vars
  <2>11. CASE Answer
    BY <2>5, <2>6, <2>11 DEF Answer
  <2> QED
    BY <2>1, <2>2, <2>3, <2>4, <2>7, <2>8, <2>9, <2>10, <2>11 DEF Next, Client
<1> QED
  BY <1>1, <1>2, InvIsInvariant, PTL DEF Spec, Polls, Polling!Spec

\* Every request but the last one took an interval of the time that has passed.
Spaced ==
    /\ began <= now
    /\ pc \in {"ready", "sleep"} /\ asked > 0 => heard >= began + (asked - 1) * Interval
    /\ pc = "ask" => asked > 0 /\ now >= began + (asked - 1) * Interval

\* The top of the loop is reached an interval after the answer or too late to ask.
LEMMA RequestIsSpaced ==
    ASSUME Inv, Spaced, Request
    PROVE  now >= began + asked * Interval
<1> USE GenerationAssumption
    DEF GenerationAssumption, Inv, TypeOK, PauseInv, Spaced, Request, Send
<1>1. CASE asked = 0
  BY <1>1
<1>2. CASE asked > 0
  <2>1. heard >= began + (asked - 1) * Interval /\ now >= heard + Interval
    BY <1>2
  <2>2. (asked - 1) * Interval + Interval = asked * Interval
    OBVIOUS
  <2>3. asked * Interval \in Int /\ (asked - 1) * Interval \in Int
    OBVIOUS
  <2> QED
    BY <2>1, <2>2, <2>3
<1> QED
  BY <1>1, <1>2

LEMMA NextPreservesSpacing ==
    ASSUME Inv, Spaced, PollsBounded, [Next]_vars
    PROVE  Spaced' /\ PollsBounded'
<1> USE GenerationAssumption
    DEF GenerationAssumption, Inv, TypeOK, PauseInv, Spaced, PollsBounded,
        Polling!RequestsBounded, provider, request, times
<1>1. CASE Call
  BY <1>1 DEF Call
<1>2. ASSUME NEW kind, NEW id, End(kind, id) PROVE Spaced' /\ PollsBounded'
  BY <1>2 DEF End
<1>3. CASE RejectArguments \/ TimeoutBeforeRequest \/ HttpFails \/ AnswerTooDeep
  BY <1>2, <1>3 DEF RejectArguments, TimeoutBeforeRequest, HttpFails, AnswerTooDeep
<1>4. CASE Request
  <2>1. now >= began + asked * Interval
    BY <1>4, RequestIsSpaced
  <2>2. /\ asked' = asked + 1 /\ asked' > 0 /\ asked' - 1 = asked
        /\ pc' = "ask" /\ now < deadline
        /\ UNCHANGED <<now, began, deadline>>
    BY <1>4 DEF Request, Send
  <2>3. asked * Interval \in Int
    OBVIOUS
  <2> QED
    BY <2>1, <2>2, <2>3
<1>5. CASE Answer
  <2>1. ASSUME NEW id, NEW status, Pause(id, status) PROVE Spaced' /\ PollsBounded'
    BY <2>1 DEF Pause, Sleep, Identified, Identify
  <2> QED
    BY <1>2, <1>5, <2>1
    DEF Answer, AnswerUnidentified, AnswerFinal, TimeoutAfterAnswer
<1>6. CASE WakeUp
  BY <1>6 DEF WakeUp, NextRound
<1>7. CASE TakeSubmission
  BY <1>7 DEF TakeSubmission
<1>8. CASE Tick
  BY <1>8 DEF Tick
<1>9. CASE UNCHANGED vars
  BY <1>9 DEF vars
<1> QED
  BY <1>1, <1>3, <1>4, <1>5, <1>6, <1>7, <1>8, <1>9 DEF Next, Client

\* The provider is asked at most once at the beginning of a call and once for every
\* whole interval of its timeout.
THEOREM GenerationRequestsAreBounded == Spec => []PollsBounded
<1>1. Init => Spaced /\ PollsBounded
  BY DEF Init, Spaced, PollsBounded, Polling!RequestsBounded
<1>2. Inv /\ Spaced /\ PollsBounded /\ [Next]_vars => Spaced' /\ PollsBounded'
  BY NextPreservesSpacing
<1> QED
  BY <1>1, <1>2, InvIsInvariant, PTL DEF Spec

-----------------------------------------------------------------------------
(***************************************************************************)
(* OpenRouter, for documents in UTF-8 without a byte order mark: while the *)
(* scan passes, its stack is that of the decoder and its commas count what *)
(* the decoder has built; when it stops, a bound of the walk is exceeded,  *)
(* or a comma has promised one value too many.                             *)
(***************************************************************************)

Container == [opener : {"array", "object"}, separators : Nat]

Frame == [opener : {"root", "array", "object"},
          expect : {"value", "first", "key", "next"}, count : Nat,
          names : {names \in SUBSET Names : IsFiniteSet(names)}]

Scanner == [passing : BOOLEAN, containers : Seq(Container), nodes : Nat]

Decoder == [wellFormed : BOOLEAN, frames : Seq(Frame), proper : BOOLEAN, nodes : Nat,
            depth : Nat, items : Nat, members : Nat, chars : Nat, keyChars : Nat,
            digits : Nat, length : Nat, exponent : Nat]

DocumentType ==
    /\ scan \in Scanner
    /\ decoded \in Decoder
    /\ outcome \in {"reading", "parsed", "rejected", "raised"}

\* The root is the first frame, and every frame but the top one has just taken the
\* container above it.
FramesInv ==
    /\ decoded.frames # <<>>
    /\ \A i \in DOMAIN decoded.frames :
          LET f == decoded.frames[i] IN
          /\ f.opener = "root" <=> i = 1
          /\ i < Len(decoded.frames) => f.expect = "next"
          /\ f.opener = "root" => f.expect \in {"value", "next"}
          /\ f.opener = "array" => f.expect # "key"
          /\ f.opener # "array" => f.count = 0

\* The commas of container c tell what its frame f has taken.
Separated(f, c) ==
    /\ c.opener = f.opener
    /\ c.separators < Maximum(c.opener)
    /\ f.opener = "array" =>
          f.count = c.separators + (IF f.expect = "next" THEN 1 ELSE 0)
    /\ f.opener = "object" =>
          LET keys == c.separators + (IF f.expect \in {"value", "next"} THEN 1 ELSE 0) IN
          Cardinality(f.names) <= keys /\ (decoded.proper => Cardinality(f.names) = keys)

StacksAgree ==
    /\ scan.nodes = decoded.nodes
    /\ Len(decoded.frames) = Len(scan.containers) + 1
    /\ Len(scan.containers) <= MaxDepth
    /\ \A i \in DOMAIN scan.containers : Separated(decoded.frames[i + 1], scan.containers[i])

\* A comma was read behind as many items or members as there may be.
OneTooMany ==
    \/ Top.opener = "array" /\ Top.expect = "value" /\ Top.count >= MaxItems
    \/ Top.opener = "object" /\ Top.expect = "key" /\ Cardinality(Top.names) >= MaxMembers

StoppedInv ==
    ~scan.passing /\ Walk => OneTooMany \/ decoded.length > MaxDigits + 8

DocumentInv ==
    /\ DocumentType
    /\ decoded.wellFormed => FramesInv /\ StoppedInv
    /\ decoded.wellFormed /\ scan.passing => StacksAgree
    /\ scan.passing => scan.nodes <= MaxNodes
    /\ DecoderIsBounded /\ RejectionsAreDue

-----------------------------------------------------------------------------
\* Of two numbers, and of their multiples.
LEMMA Larger ==
    ASSUME NEW a \in Nat, NEW b \in Nat
    PROVE  Max({a, b}) \in {a, b} /\ Max({a, b}) >= a /\ Max({a, b}) >= b
<1>1. \E x \in {a, b} : \A y \in {a, b} : x >= y
  OBVIOUS
<1> QED
  BY <1>1 DEF Max

LEMMA Multiples ==
    ASSUME NEW a \in Nat, NEW b \in Nat, NEW c \in Nat, a <= b
    PROVE  c * a <= c * b /\ c * a \in Nat /\ c * b \in Nat
<1>1. PICK d \in Nat : b = a + d
  <2>1. b - a \in Nat /\ b = a + (b - a)
    OBVIOUS
  <2> QED
    BY <2>1
<1>2. c * (a + d) = c * a + c * d
  OBVIOUS
<1>3. c * a \in Nat /\ c * d \in Nat
  OBVIOUS
<1> QED
  BY <1>1, <1>2, <1>3

\* A string with too many bytes has too many characters.
LEMMA BytesBoundChars ==
    ASSUME NEW size \in Strings, NEW limit \in Nat
    PROVE  /\ size.chars \in Nat
           /\ size.bytes <= limit * SourceBytes => size.chars <= limit * SourceBytes
           /\ size.bytes > limit * SourceBytes => size.chars > limit
<1> USE BoundsAssumption DEF BoundsAssumption
<1>1. size.chars \in Nat /\ size.bytes \in Nat /\ SourceBytes \in Nat
  OBVIOUS
<1>2. size.chars <= size.bytes /\ size.bytes <= SourceBytes * size.chars
  OBVIOUS
<1>3. limit * SourceBytes = SourceBytes * limit /\ limit * SourceBytes \in Nat
  BY <1>1
<1>4. SourceBytes * size.chars \in Nat
  BY <1>1
<1>5. size.chars <= limit => SourceBytes * size.chars <= SourceBytes * limit
  BY <1>1, Multiples
<1> QED
  BY <1>1, <1>2, <1>3, <1>4, <1>5

\* The top frame, and the stack with another top.
LEMMA TopOfFrames ==
    ASSUME DocumentType, FramesInv
    PROVE  /\ Len(decoded.frames) \in Nat /\ Len(decoded.frames) >= 1
           /\ DOMAIN decoded.frames = 1 .. Len(decoded.frames)
           /\ Top = decoded.frames[Len(decoded.frames)] /\ Top \in Frame
<1>1. decoded.frames \in Seq(Frame) /\ decoded.frames # <<>>
  BY DEF DocumentType, Decoder, FramesInv
<1> QED
  BY <1>1 DEF Top, Last

LEMMA AnotherTop ==
    ASSUME DocumentType, FramesInv, NEW f \in Frame
    PROVE  /\ WithTop(f) \in Seq(Frame)
           /\ Len(WithTop(f)) = Len(decoded.frames)
           /\ DOMAIN WithTop(f) = DOMAIN decoded.frames
           /\ WithTop(f)[Len(decoded.frames)] = f
           /\ \A i \in DOMAIN decoded.frames :
                 i # Len(decoded.frames) => WithTop(f)[i] = decoded.frames[i]
<1>1. decoded.frames \in Seq(Frame)
  BY DEF DocumentType, Decoder
<1> QED
  BY <1>1, TopOfFrames DEF WithTop

\* What one step of the scan makes of its counters.
LEMMA CheckedScan ==
    ASSUME DocumentType, NEW next \in Scanner, NEW holds \in BOOLEAN
    PROVE  /\ Checked(next, holds) \in Scanner
           /\ ~scan.passing => Checked(next, holds) = scan
           /\ scan.passing =>
                 /\ Checked(next, holds).passing <=> holds /\ next.nodes <= MaxNodes
                 /\ Checked(next, holds).nodes = next.nodes
                 /\ Checked(next, holds).containers = next.containers
BY BoundsAssumption DEF BoundsAssumption, DocumentType, Scanner, Checked

\* A token that the decoder does not expect ends the document.
LEMMA MisfitPreservesInv ==
    ASSUME DocumentInv, plain, outcome = "reading", UNCHANGED outcome,
           scan' \in Scanner, scan'.passing => scan.passing /\ scan'.nodes <= MaxNodes,
           decoded' = [decoded EXCEPT !.wellFormed = FALSE]
    PROVE  DocumentInv'
<1>1. /\ decoded' \in Decoder /\ ~decoded'.wellFormed
      /\ decoded'.nodes = decoded.nodes /\ decoded'.depth = decoded.depth
      /\ decoded'.items = decoded.items /\ decoded'.members = decoded.members
      /\ decoded'.chars = decoded.chars
  BY DEF DocumentInv, DocumentType, Decoder
<1>2. DecoderIsBounded'
  BY <1>1 DEF DocumentInv, DecoderIsBounded
<1>3. RejectionsAreDue'
  BY DEF RejectionsAreDue
<1>4. DocumentType'
  BY <1>1 DEF DocumentInv, DocumentType
<1> QED
  BY <1>1, <1>2, <1>3, <1>4 DEF DocumentInv

-----------------------------------------------------------------------------
\* The fields of records, each by itself.
LEMMA FrameFields ==
    ASSUME NEW f \in Frame
    PROVE  /\ f.opener \in {"root", "array", "object"}
           /\ f.expect \in {"value", "first", "key", "next"}
           /\ f.count \in Nat /\ f.names \subseteq Names /\ IsFiniteSet(f.names)
BY DEF Frame

LEMMA DecoderFields ==
    ASSUME NEW d \in Decoder
    PROVE  /\ d.frames \in Seq(Frame)
           /\ d.nodes \in Nat /\ d.depth \in Nat /\ d.items \in Nat /\ d.members \in Nat
           /\ d.chars \in Nat /\ d.keyChars \in Nat /\ d.digits \in Nat /\ d.length \in Nat
           /\ d.exponent \in Nat
BY DEF Decoder

LEMMA ScannerFields ==
    ASSUME NEW s \in Scanner
    PROVE  s.containers \in Seq(Container) /\ s.nodes \in Nat
BY DEF Scanner

\* What the decoder has built never shrinks.
Grows ==
    /\ decoded'.proper => decoded.proper
    /\ decoded'.nodes >= decoded.nodes /\ decoded'.depth >= decoded.depth
    /\ decoded'.items >= decoded.items /\ decoded'.members >= decoded.members
    /\ decoded'.chars >= decoded.chars /\ decoded'.keyChars >= decoded.keyChars
    /\ decoded'.digits >= decoded.digits /\ decoded'.length >= decoded.length
    /\ decoded'.exponent >= decoded.exponent

\* So a bound that is exceeded stays exceeded, and one value too many will be built.
LEMMA StopsStay ==
    ASSUME DocumentType, StoppedInv, decoded' \in Decoder, Grows,
           ~scan.passing /\ OneTooMany => ~Walk',
           scan.passing /\ ~scan'.passing =>
               ~Walk' \/ OneTooMany' \/ decoded'.length > MaxDigits + 8
    PROVE  StoppedInv'
<1> SUFFICES ASSUME ~scan'.passing, Walk', ~scan.passing
             PROVE  OneTooMany' \/ decoded'.length > MaxDigits + 8
  BY DEF StoppedInv
<1> USE BoundsAssumption DEF BoundsAssumption
<1> DEFINE Fields(d) ==
      /\ d.nodes \in Nat /\ d.depth \in Nat /\ d.items \in Nat /\ d.members \in Nat
      /\ d.chars \in Nat /\ d.keyChars \in Nat /\ d.digits \in Nat /\ d.length \in Nat
      /\ d.exponent \in Nat
<1>1. Fields(decoded) /\ Fields(decoded')
  BY DecoderFields, Zenon DEF DocumentType
<1>2. decoded.proper
  BY Zenon DEF Walk, NamesFit, Grows
<1>3. /\ decoded.keyChars <= MaxKeyChars
      /\ decoded.nodes <= MaxNodes /\ decoded.depth <= MaxDepth
      /\ decoded.items <= MaxItems /\ decoded.members <= MaxMembers
      /\ decoded.chars <= MaxChars /\ decoded.digits <= MaxDigits
      /\ decoded.exponent <= MaxExponent
  BY <1>1 DEF Walk, NamesFit, Grows
<1>4. Walk
  BY <1>2, <1>3, Zenon DEF Walk, NamesFit
<1>5. decoded.length > MaxDigits + 8
  BY <1>4, Zenon DEF StoppedInv
<1> QED
  BY <1>1, <1>5 DEF Grows

-----------------------------------------------------------------------------
\* A step that replaces the top frame.
LEMMA FramesFollow ==
    ASSUME DocumentType, FramesInv, NEW f \in Frame, f.opener = Top.opener,
           f.opener = "root" => f.expect \in {"value", "next"},
           f.opener = "array" => f.expect # "key", f.opener # "array" => f.count = 0,
           decoded'.frames = WithTop(f)
    PROVE  FramesInv' /\ Top' = f
<1>1. /\ Len(decoded.frames) \in Nat /\ Len(decoded.frames) >= 1
      /\ DOMAIN decoded.frames = 1 .. Len(decoded.frames)
      /\ Top = decoded.frames[Len(decoded.frames)]
  BY TopOfFrames
<1>2. /\ Len(decoded'.frames) = Len(decoded.frames)
      /\ DOMAIN decoded'.frames = DOMAIN decoded.frames
      /\ decoded'.frames[Len(decoded.frames)] = f
      /\ \A i \in DOMAIN decoded.frames :
            i # Len(decoded.frames) => decoded'.frames[i] = decoded.frames[i]
  BY AnotherTop
<1>3. Top' = f
  BY <1>2 DEF Top, Last
<1>4. decoded'.frames # <<>>
  BY <1>1, <1>2
<1> QED
  BY <1>1, <1>2, <1>3, <1>4 DEF FramesInv

\* The container of the top frame, which the root does not have.
LEMMA TopSeparated ==
    ASSUME DocumentType, FramesInv, StacksAgree
    PROVE  /\ Top.opener = "root" <=> scan.containers = <<>>
           /\ scan.containers # <<>> =>
                 /\ Last(scan.containers) \in Container
                 /\ Separated(Top, Last(scan.containers))
<1>1. scan.containers \in Seq(Container)
  BY DEF DocumentType, Scanner
<1>2. /\ Len(decoded.frames) \in Nat /\ Len(decoded.frames) >= 1
      /\ DOMAIN decoded.frames = 1 .. Len(decoded.frames)
      /\ Top = decoded.frames[Len(decoded.frames)]
  BY TopOfFrames
<1>3. Len(decoded.frames) = Len(scan.containers) + 1
  BY DEF StacksAgree
<1>4. Top.opener = "root" <=> Len(decoded.frames) = 1
  <2>1. Len(decoded.frames) \in DOMAIN decoded.frames
    BY <1>2
  <2> QED
    BY <1>2, <2>1, Zenon DEF FramesInv
<1>5. Top.opener = "root" <=> scan.containers = <<>>
  BY <1>1, <1>3, <1>4
<1>6. ASSUME scan.containers # <<>>
      PROVE  Last(scan.containers) \in Container /\ Separated(Top, Last(scan.containers))
  <2>1. Len(scan.containers) \in DOMAIN scan.containers
    BY <1>1, <1>6
  <2>2. Separated(decoded.frames[Len(scan.containers) + 1],
                  scan.containers[Len(scan.containers)])
    BY <2>1 DEF StacksAgree
  <2> QED
    BY <1>1, <1>2, <1>3, <2>1, <2>2 DEF Last
<1> QED
  BY <1>5, <1>6

\* Both stacks keep their height, and below the top they do not change.
LEMMA StacksFollow ==
    ASSUME DocumentType, FramesInv, StacksAgree, NEW f \in Frame,
           decoded'.frames = WithTop(f), decoded'.proper => decoded.proper,
           scan' \in Scanner, scan'.nodes = decoded'.nodes,
           Len(scan'.containers) = Len(scan.containers),
           \A i \in DOMAIN scan.containers :
              i # Len(scan.containers) => scan'.containers[i] = scan.containers[i],
           scan.containers # <<>> => Separated(f, Last(scan.containers))'
    PROVE  StacksAgree'
<1>1. scan.containers \in Seq(Container) /\ scan'.containers \in Seq(Container)
  BY DEF DocumentType, Scanner
<1>2. /\ Len(decoded'.frames) = Len(decoded.frames)
      /\ decoded'.frames[Len(decoded.frames)] = f
      /\ \A i \in DOMAIN decoded.frames :
            i # Len(decoded.frames) => decoded'.frames[i] = decoded.frames[i]
  BY AnotherTop
<1>3. /\ DOMAIN decoded.frames = 1 .. Len(decoded.frames)
      /\ Len(decoded.frames) = Len(scan.containers) + 1
  BY TopOfFrames DEF StacksAgree
<1>4. DOMAIN scan'.containers = DOMAIN scan.containers
  BY <1>1
<1>5. ASSUME NEW i \in DOMAIN scan.containers
      PROVE  Separated(decoded.frames[i + 1], scan.containers[i])'
  <2>1. /\ i \in Nat /\ i >= 1 /\ i <= Len(scan.containers) /\ Len(scan.containers) \in Nat
        /\ i + 1 \in DOMAIN decoded.frames
    BY <1>1, <1>3
  <2>2. CASE i # Len(scan.containers)
    <3>1. decoded'.frames[i + 1] = decoded.frames[i + 1]
          /\ scan'.containers[i] = scan.containers[i]
      BY <1>2, <1>3, <2>1, <2>2
    <3>2. Separated(decoded.frames[i + 1], scan.containers[i])
      BY DEF StacksAgree
    <3> QED
      BY <3>1, <3>2 DEF Separated
  <2>3. CASE i = Len(scan.containers)
    <3>1. scan.containers # <<>> /\ Last(scan.containers)' = scan'.containers[i]
      BY <1>1, <2>1, <2>3 DEF Last
    <3>2. decoded'.frames[i + 1] = f
      BY <1>2, <1>3, <2>3
    <3> QED
      BY <3>1, <3>2 DEF Separated
  <2> QED
    BY <2>2, <2>3
<1> QED
  BY <1>2, <1>3, <1>4, <1>5 DEF StacksAgree

-----------------------------------------------------------------------------
\* The frame of a value that was taken, and what WithValue makes of the decoder.
Taken ==
    [Top EXCEPT !.expect = "next", !.count = IF Top.opener = "array" THEN @ + 1 ELSE @]

LEMMA TakenFrame ==
    ASSUME DocumentType, FramesInv
    PROVE  /\ Taken \in Frame
           /\ Taken.opener = Top.opener /\ Taken.expect = "next" /\ Taken.names = Top.names
           /\ Taken.count = IF Top.opener = "array" THEN Top.count + 1 ELSE Top.count
           /\ Top.opener # "array" => Taken.count = 0
<1> DEFINE count == IF Top.opener = "array" THEN Top.count + 1 ELSE Top.count
<1>1. Top \in Frame /\ Top.count \in Nat
  BY TopOfFrames, FrameFields, Zenon
<1>2. count \in Nat
  BY <1>1
<1>3. Taken = [Top EXCEPT !.expect = "next", !.count = count]
  BY DEF Taken
<1>4. Top.opener # "array" => Top.count = 0
  <2>1. Len(decoded.frames) \in DOMAIN decoded.frames
    BY TopOfFrames
  <2> QED
    BY <2>1, TopOfFrames, Zenon DEF FramesInv
<1> HIDE DEF count
<1>5. /\ Taken \in Frame
      /\ Taken.opener = Top.opener /\ Taken.expect = "next" /\ Taken.names = Top.names
      /\ Taken.count = count
  BY <1>1, <1>2, <1>3 DEF Frame
<1> QED
  BY <1>4, <1>5, Zenon DEF count

LEMMA ValueBuilt ==
    ASSUME DocumentType, FramesInv
    PROVE  /\ WithValue \in Decoder
           /\ WithValue.wellFormed = decoded.wellFormed /\ WithValue.proper = decoded.proper
           /\ WithValue.frames = WithTop(Taken)
           /\ WithValue.nodes = decoded.nodes + 1
           /\ WithValue.depth \in {decoded.depth, Len(decoded.frames)}
           /\ WithValue.depth >= decoded.depth /\ WithValue.depth >= Len(decoded.frames)
           /\ WithValue.items \in {decoded.items, Taken.count}
           /\ WithValue.items >= decoded.items /\ WithValue.items >= Taken.count
           /\ WithValue.members = decoded.members /\ WithValue.chars = decoded.chars
           /\ WithValue.keyChars = decoded.keyChars /\ WithValue.digits = decoded.digits
           /\ WithValue.length = decoded.length
           /\ WithValue.exponent = decoded.exponent
           /\ WithValue.nodes >= decoded.nodes
<1> DEFINE depth == Max({decoded.depth, Len(decoded.frames)})
           items == Max({decoded.items, Taken.count})
           nodes == decoded.nodes + 1
<1>1. decoded \in Decoder
  BY DEF DocumentType
<1>2. decoded.depth \in Nat /\ Len(decoded.frames) \in Nat
  BY <1>1, TopOfFrames, DecoderFields, Zenon
<1>3. decoded.items \in Nat /\ Taken.count \in Nat
  BY <1>1, TakenFrame, FrameFields, DecoderFields, Zenon
<1>4. /\ depth \in {decoded.depth, Len(decoded.frames)}
      /\ depth >= decoded.depth /\ depth >= Len(decoded.frames)
  BY <1>2, Larger, Zenon
<1>5. /\ items \in {decoded.items, Taken.count}
      /\ items >= decoded.items /\ items >= Taken.count
  BY <1>3, Larger, Zenon
<1>6. WithTop(Taken) \in Seq(Frame)
  BY TakenFrame, AnotherTop, Zenon
<1>7. nodes \in Nat
  BY <1>1, DecoderFields
<1>8. WithValue = [decoded EXCEPT !.frames = WithTop(Taken), !.nodes = nodes,
                                  !.depth = depth, !.items = items]
  BY DEF WithValue, Taken
<1> HIDE DEF depth, items, nodes
<1>9. depth \in Nat /\ items \in Nat
  BY <1>2, <1>3, <1>4, <1>5
<1>10. /\ WithValue \in Decoder
       /\ WithValue.wellFormed = decoded.wellFormed /\ WithValue.proper = decoded.proper
       /\ WithValue.frames = WithTop(Taken) /\ WithValue.nodes = nodes
       /\ WithValue.depth = depth /\ WithValue.items = items
       /\ WithValue.members = decoded.members /\ WithValue.chars = decoded.chars
       /\ WithValue.keyChars = decoded.keyChars /\ WithValue.digits = decoded.digits
       /\ WithValue.length = decoded.length
       /\ WithValue.exponent = decoded.exponent
  BY <1>1, <1>6, <1>7, <1>8, <1>9 DEF Decoder
<1>11. nodes >= decoded.nodes
  BY <1>1, DecoderFields DEF nodes
<1> QED
  BY <1>4, <1>5, <1>10, <1>11, Zenon DEF nodes

\* A value too many exceeds the items of its array.
LEMMA ValueExceeds ==
    ASSUME DocumentType, FramesInv, ValueFits, OneTooMany, decoded' \in Decoder,
           decoded'.items >= Taken.count
    PROVE  ~Walk'
<1>1. Top.opener = "array" /\ Top.count >= MaxItems
  BY Zenon DEF ValueFits, OneTooMany
<1>2. Taken.count = Top.count + 1 /\ Top.count \in Nat
  BY <1>1, TakenFrame, TopOfFrames, FrameFields, Zenon
<1>3. decoded'.items > MaxItems
  BY <1>1, <1>2, DecoderFields, BoundsAssumption DEF BoundsAssumption
<1>4. decoded'.items \in Nat /\ MaxItems \in Nat
  BY DecoderFields, BoundsAssumption DEF BoundsAssumption
<1>5. ~(decoded'.items <= MaxItems)
  BY <1>3, <1>4
<1> QED
  BY <1>5, Zenon DEF Walk

\* A value that fits leaves its frame as a separator would find it, and its array has as
\* many items as commas and one more.
LEMMA TakenSeparated ==
    ASSUME DocumentType, FramesInv, StacksAgree, ValueFits
    PROVE  /\ scan.containers # <<>> => Separated(Taken, Last(scan.containers))
           /\ Taken.count <= MaxItems
<1>1. /\ Taken.opener = Top.opener /\ Taken.expect = "next" /\ Taken.names = Top.names
      /\ Taken.count = IF Top.opener = "array" THEN Top.count + 1 ELSE Top.count
      /\ Top.opener # "array" => Taken.count = 0
  BY TakenFrame
<1>2. /\ Top.count \in Nat /\ Top.opener \in {"root", "array", "object"}
      /\ Top.expect \in {"value", "first", "key", "next"}
  BY TopOfFrames, FrameFields, Zenon
<1>3. ASSUME scan.containers # <<>>
      PROVE  Separated(Taken, Last(scan.containers)) /\ Taken.count <= MaxItems
  <2> DEFINE c == Last(scan.containers)
  <2>1. c \in Container /\ Separated(Top, c)
    BY <1>3, TopSeparated
  <2>2. c.opener = Top.opener /\ c.separators \in Nat
    BY <2>1 DEF Container, Separated
  <2> HIDE DEF c
  <2>3. CASE Top.opener = "array"
    <3>1. Top.expect # "next"
      BY Zenon DEF ValueFits
    <3>2. Top.count = c.separators /\ c.separators < MaxItems
      BY <2>1, <2>2, <2>3, <3>1 DEF Separated, Maximum
    <3>3. Taken.count = c.separators + 1
      BY <1>1, <2>3, <3>2
    <3>4. Taken.count <= MaxItems
      BY <2>2, <3>2, <3>3, BoundsAssumption DEF BoundsAssumption
    <3>5. Separated(Taken, c)
      BY <1>1, <2>1, <2>3, <3>3 DEF Separated
    <3> QED
      BY <3>4, <3>5 DEF c
  <2>4. CASE Top.opener # "array"
    <3>1. Top.opener = "object" => Top.expect = "value"
      BY Zenon DEF ValueFits
    <3>2. Separated(Taken, c)
      BY <1>1, <2>1, <2>4, <3>1 DEF Separated
    <3>3. Taken.count <= MaxItems
      BY <1>1, <2>4, BoundsAssumption DEF BoundsAssumption
    <3> QED
      BY <3>2, <3>3 DEF c
  <2> QED
    BY <2>3, <2>4
<1>4. ASSUME scan.containers = <<>> PROVE Taken.count <= MaxItems
  <2>1. Top.opener = "root"
    BY <1>4, TopSeparated
  <2> QED
    BY <2>1, <1>1, BoundsAssumption DEF BoundsAssumption
<1> QED
  BY <1>3, <1>4

\* Every bound of the walk by itself.
LEMMA WalkFails ==
    ASSUME NEW d \in Decoder, d = decoded',
           \/ d.nodes > MaxNodes \/ d.depth > MaxDepth \/ d.items > MaxItems
           \/ d.members > MaxMembers \/ d.chars > MaxChars \/ d.keyChars > MaxKeyChars
           \/ d.digits > MaxDigits
    PROVE  ~Walk'
<1>1. \/ ~(d.nodes <= MaxNodes) \/ ~(d.depth <= MaxDepth) \/ ~(d.items <= MaxItems)
      \/ ~(d.members <= MaxMembers) \/ ~(d.chars <= MaxChars)
      \/ ~(d.keyChars <= MaxKeyChars) \/ ~(d.digits <= MaxDigits)
  <2>1. /\ d.nodes \in Nat /\ d.depth \in Nat /\ d.items \in Nat /\ d.members \in Nat
        /\ d.chars \in Nat /\ d.keyChars \in Nat /\ d.digits \in Nat
    BY DecoderFields, Zenon
  <2>2. /\ MaxNodes \in Nat /\ MaxDepth \in Nat /\ MaxItems \in Nat /\ MaxMembers \in Nat
        /\ MaxChars \in Nat /\ MaxKeyChars \in Nat /\ MaxDigits \in Nat
    BY BoundsAssumption DEF BoundsAssumption
  <2> QED
    BY <2>1, <2>2
<1> QED
  BY <1>1, Zenon DEF Walk, NamesFit

\* While the scan passes, a value lies at most one level below the deepest container.
LEMMA ValueIsBounded ==
    ASSUME DocumentType, FramesInv, StacksAgree, DecoderIsBounded, plain, scan.passing,
           ValueFits,
           decoded'.depth = WithValue.depth, decoded'.items = WithValue.items
    PROVE  decoded'.depth <= MaxDepth + 1 /\ decoded'.items <= MaxItems
<1>1. Len(decoded.frames) = Len(scan.containers) + 1 /\ Len(scan.containers) <= MaxDepth
  BY DEF StacksAgree
<1>2. Len(scan.containers) \in Nat /\ MaxDepth \in Nat
  BY ScannerFields, BoundsAssumption DEF DocumentType, BoundsAssumption
<1>3. decoded.depth <= MaxDepth + 1 /\ decoded.items <= MaxItems
  BY DEF DecoderIsBounded
<1>4. decoded'.depth \in {decoded.depth, Len(decoded.frames)}
  BY ValueBuilt
<1>5. decoded'.items \in {decoded.items, Taken.count}
  BY ValueBuilt
<1> QED
  BY <1>1, <1>2, <1>3, <1>4, <1>5, TakenSeparated

\* A string or a number.
LEMMA ScalarPreservesInv ==
    ASSUME DocumentInv, plain, decoded.wellFormed, outcome = "reading", UNCHANGED outcome,
           ValueFits, scan' \in Scanner, decoded' \in Decoder,
           ~scan.passing => scan' = scan,
           scan.passing =>
               scan'.nodes = scan.nodes + 1 /\ scan'.containers = scan.containers,
           scan'.passing =>
               scan'.nodes <= MaxNodes /\ decoded'.chars <= MaxChars * SourceBytes,
           scan.passing /\ ~scan'.passing =>
               \/ scan'.nodes > MaxNodes \/ decoded'.chars > MaxChars
               \/ decoded'.length > MaxDigits + 8,
           Grows, decoded'.wellFormed, decoded'.proper = decoded.proper,
           decoded'.frames = WithValue.frames, decoded'.nodes = WithValue.nodes,
           decoded'.depth = WithValue.depth, decoded'.items = WithValue.items,
           decoded'.members = decoded.members
    PROVE  DocumentInv'
<1>1. DocumentType /\ FramesInv /\ StoppedInv /\ (scan.passing => StacksAgree)
  BY Zenon DEF DocumentInv
<1>2. Taken \in Frame /\ Taken.opener = Top.opener /\ Taken.expect = "next"
      /\ (Taken.opener # "array" => Taken.count = 0) /\ decoded'.frames = WithTop(Taken)
  BY <1>1, TakenFrame, ValueBuilt
<1>3. decoded'.nodes = decoded.nodes + 1
  BY <1>1, ValueBuilt
<1>4. DocumentType'
  BY <1>1 DEF DocumentType
<1>5. FramesInv'
  BY <1>1, <1>2, FramesFollow
<1>6. scan'.passing => scan.passing
  OBVIOUS
<1>7. ASSUME scan.passing PROVE StacksAgree'
  <2>1. StacksAgree
    BY <1>1, <1>7
  <2>2. scan'.nodes = decoded'.nodes /\ scan'.containers = scan.containers
    BY <1>3, <1>7, <2>1 DEF StacksAgree
  <2>3. PICK f \in Frame : f = Taken
    BY <1>2
  <2>4. scan.containers # <<>> => Separated(f, Last(scan.containers))'
    <3>1. scan.containers # <<>> => Separated(f, Last(scan.containers))
      BY <1>1, <2>1, <2>3, TakenSeparated
    <3> QED
      BY <2>2, <3>1 DEF Separated, Last
  <2> QED
    BY <1>1, <1>2, <2>1, <2>2, <2>3, <2>4, StacksFollow
<1>8. StoppedInv'
  <2>1. ~scan.passing /\ OneTooMany => ~Walk'
    BY <1>1, ValueExceeds, ValueBuilt
  <2>2. ASSUME scan.passing, scan'.nodes > MaxNodes PROVE decoded'.nodes > MaxNodes
    BY <2>2, <1>7 DEF StacksAgree
  <2>3. scan.passing /\ ~scan'.passing => ~Walk' \/ decoded'.length > MaxDigits + 8
    BY <2>2, WalkFails
  <2> QED
    BY <1>1, <2>1, <2>3, StopsStay
<1>9. ASSUME scan'.passing PROVE DecoderIsBounded'
  <2>1. scan.passing /\ StacksAgree /\ StacksAgree' /\ DecoderIsBounded
    BY <1>1, <1>6, <1>7, <1>9 DEF DocumentInv
  <2>2. decoded'.nodes <= MaxNodes
    BY <1>9, <2>1 DEF StacksAgree
  <2>3. decoded'.depth <= MaxDepth + 1 /\ decoded'.items <= MaxItems
    BY <1>1, <1>6, <1>9, <2>1, ValueIsBounded
  <2>5. decoded'.members <= MaxMembers
    BY <2>1 DEF DecoderIsBounded
  <2> QED
    BY <1>9, <2>2, <2>3, <2>5 DEF DecoderIsBounded
<1>10. DecoderIsBounded'
  BY <1>9 DEF DecoderIsBounded
<1>11. RejectionsAreDue'
  BY DEF RejectionsAreDue
<1> QED
  BY <1>4, <1>5, <1>6, <1>7, <1>8, <1>10, <1>11 DEF DocumentInv

-----------------------------------------------------------------------------
LEMMA StringPreservesInv ==
    ASSUME DocumentInv, plain, NEW size \in Strings, ReadString(size)
    PROVE  DocumentInv'
<1>1. DocumentType /\ decoded.wellFormed /\ outcome = "reading" /\ UNCHANGED outcome
      /\ scan \in Scanner /\ decoded \in Decoder /\ FramesInv
  BY Zenon DEF DocumentInv, DocumentType, ReadString, Read
<1>2. size.chars \in Nat /\ size.bytes \in Nat
      /\ MaxChars * SourceBytes \in Nat /\ MaxNodes \in Nat /\ MaxChars \in Nat
  BY BoundsAssumption DEF BoundsAssumption
<1> DEFINE next == [scan EXCEPT !.nodes = @ + 1]
           holds == size.bytes <= MaxChars * SourceBytes
           chars == Max({decoded.chars, size.chars})
<1>3. next \in Scanner /\ next.nodes = scan.nodes + 1 /\ next.containers = scan.containers
  BY <1>1 DEF Scanner
<1>4. holds \in BOOLEAN /\ scan' = Checked(next, holds)
  <2>1. holds \in BOOLEAN
    BY <1>2
  <2>2. scan' = Checked(next, holds)
    BY Zenon DEF ReadString, Read, ScanString
  <2> QED
    BY <2>1, <2>2
<1> HIDE DEF next, holds
<1>5. /\ scan' \in Scanner
      /\ ~scan.passing => scan' = scan
      /\ scan.passing =>
            /\ scan'.passing <=> holds /\ scan'.nodes <= MaxNodes
            /\ scan'.nodes = scan.nodes + 1 /\ scan'.containers = scan.containers
  BY <1>1, <1>3, <1>4, CheckedScan
<1>6. scan'.passing => scan.passing
  BY <1>5
<1>7. CASE ~ValueFits
  <2>1. decoded' = [decoded EXCEPT !.wellFormed = FALSE]
    BY <1>7, Zenon DEF ReadString, Read
  <2> QED
    BY <1>1, <1>5, <1>6, <2>1, MisfitPreservesInv
<1>8. CASE ValueFits
  <2>1. decoded' = [WithValue EXCEPT !.chars = Max({WithValue.chars, size.chars})]
    BY <1>8 DEF ReadString, Read
  <2>2. decoded.chars \in Nat /\ WithValue.chars = decoded.chars
    BY <1>1, DecoderFields, ValueBuilt
  <2>3. decoded' = [WithValue EXCEPT !.chars = chars]
    BY <2>1, <2>2
  <2>4. chars \in {decoded.chars, size.chars} /\ chars >= decoded.chars /\ chars >= size.chars
    BY <1>2, <2>2, Larger, Zenon
  <2> HIDE DEF chars
  <2>5. /\ decoded' \in Decoder /\ decoded'.wellFormed /\ decoded'.proper = decoded.proper
        /\ decoded'.frames = WithValue.frames /\ decoded'.nodes = WithValue.nodes
        /\ decoded'.depth = WithValue.depth /\ decoded'.items = WithValue.items
        /\ decoded'.members = WithValue.members /\ decoded'.chars = chars
        /\ decoded'.keyChars = WithValue.keyChars /\ decoded'.digits = WithValue.digits
        /\ decoded'.length = WithValue.length
        /\ decoded'.exponent = WithValue.exponent
    <3>1. WithValue \in Decoder /\ WithValue.wellFormed = decoded.wellFormed
          /\ WithValue.proper = decoded.proper
      BY <1>1, ValueBuilt, Zenon
    <3>2. chars \in Nat
      BY <1>2, <2>2, <2>4
    <3> QED
      BY <1>1, <2>3, <3>1, <3>2 DEF Decoder
  <2>6. Grows
    <3>1. decoded'.proper => decoded.proper
      BY <2>5, Zenon
    <3>2. decoded'.chars >= decoded.chars
      BY <2>4, <2>5
    <3>3. /\ decoded'.nodes >= decoded.nodes /\ decoded'.depth >= decoded.depth
          /\ decoded'.items >= decoded.items /\ decoded'.members >= decoded.members
          /\ decoded'.keyChars >= decoded.keyChars /\ decoded'.digits >= decoded.digits
          /\ decoded'.length >= decoded.length
          /\ decoded'.exponent >= decoded.exponent
      <4>1. /\ WithValue.members = decoded.members /\ WithValue.keyChars = decoded.keyChars
            /\ WithValue.digits = decoded.digits /\ WithValue.length = decoded.length
            /\ WithValue.exponent = decoded.exponent
            /\ WithValue.nodes >= decoded.nodes /\ WithValue.depth >= decoded.depth
            /\ WithValue.items >= decoded.items
        BY <1>1, ValueBuilt, Zenon
      <4>2. /\ decoded.members \in Nat /\ decoded.keyChars \in Nat
            /\ decoded.digits \in Nat /\ decoded.length \in Nat
            /\ decoded.exponent \in Nat
        BY <1>1, DecoderFields, Zenon
      <4> QED
        BY <2>5, <4>1, <4>2
    <3> QED
      BY <3>1, <3>2, <3>3, Zenon DEF Grows
  <2>7. scan'.passing =>
           scan'.nodes <= MaxNodes /\ decoded'.chars <= MaxChars * SourceBytes
    <3>1. ASSUME scan'.passing
          PROVE  scan'.nodes <= MaxNodes /\ decoded'.chars <= MaxChars * SourceBytes
      <4>1. holds /\ scan'.nodes <= MaxNodes /\ scan.passing
        BY <1>5, <3>1
      <4>2. size.chars <= MaxChars * SourceBytes
        BY <1>2, <4>1, BytesBoundChars DEF holds
      <4>3. decoded.chars <= MaxChars * SourceBytes
        BY <4>1 DEF DocumentInv, DecoderIsBounded
      <4> QED
        BY <2>4, <2>5, <4>1, <4>2, <4>3
    <3> QED
      BY <3>1
  <2>8. scan.passing /\ ~scan'.passing =>
           \/ scan'.nodes > MaxNodes \/ decoded'.chars > MaxChars
           \/ decoded'.length > MaxDigits + 8
    <3>1. ASSUME scan.passing, ~scan'.passing, ~(scan'.nodes > MaxNodes)
          PROVE  decoded'.chars > MaxChars
      <4>1. scan'.nodes <= MaxNodes
        BY <1>2, <1>5, <3>1, ScannerFields
      <4>2. ~holds
        BY <1>5, <3>1, <4>1
      <4>3. size.chars > MaxChars
        BY <1>2, <4>2, BytesBoundChars DEF holds
      <4> QED
        BY <1>2, <2>2, <2>4, <2>5, <4>3
    <3> QED
      BY <3>1
  <2>9. decoded'.members = decoded.members
    BY <1>1, <2>5, ValueBuilt
  <2> QED
    BY <1>1, <1>5, <1>8, <2>5, <2>6, <2>7, <2>8, <2>9, ScalarPreservesInv
<1> QED
  BY <1>7, <1>8

LEMMA NumberPreservesInv ==
    ASSUME DocumentInv, plain, NEW size \in Numbers, ReadNumber(size)
    PROVE  DocumentInv'
<1>1. DocumentType /\ decoded.wellFormed /\ outcome = "reading" /\ UNCHANGED outcome
      /\ scan \in Scanner /\ decoded \in Decoder /\ FramesInv
  BY Zenon DEF DocumentInv, DocumentType, ReadNumber, Read
<1>2. /\ size.digits \in Nat /\ size.length \in Nat /\ size.exponent \in Nat
      /\ MaxDigits \in Nat /\ MaxNodes \in Nat
  BY BoundsAssumption DEF BoundsAssumption
<1> DEFINE next == [scan EXCEPT !.nodes = @ + 1]
           holds == size.length <= MaxDigits + 8
           digits == Max({decoded.digits, size.digits})
           length == Max({decoded.length, size.length})
           exponent == Max({decoded.exponent, size.exponent})
<1>3. next \in Scanner /\ next.nodes = scan.nodes + 1 /\ next.containers = scan.containers
  BY <1>1 DEF Scanner
<1>4. holds \in BOOLEAN /\ scan' = Checked(next, holds)
  <2>1. holds \in BOOLEAN
    BY <1>2
  <2>2. scan' = Checked(next, holds)
    BY Zenon DEF ReadNumber, Read, ScanNumber
  <2> QED
    BY <2>1, <2>2
<1> HIDE DEF next, holds
<1>5. /\ scan' \in Scanner
      /\ ~scan.passing => scan' = scan
      /\ scan.passing =>
            /\ scan'.passing <=> holds /\ scan'.nodes <= MaxNodes
            /\ scan'.nodes = scan.nodes + 1 /\ scan'.containers = scan.containers
  BY <1>1, <1>3, <1>4, CheckedScan
<1>6. scan'.passing => scan.passing
  BY <1>5
<1>7. CASE ~ValueFits
  <2>1. decoded' = [decoded EXCEPT !.wellFormed = FALSE]
    BY <1>7, Zenon DEF ReadNumber, Read
  <2> QED
    BY <1>1, <1>5, <1>6, <2>1, MisfitPreservesInv
<1>8. CASE ValueFits
  <2>1. decoded' = [WithValue EXCEPT !.digits = Max({WithValue.digits, size.digits}),
                                     !.length = Max({WithValue.length, size.length}),
                                     !.exponent = Max({WithValue.exponent, size.exponent})]
    BY <1>8 DEF ReadNumber, Read
  <2>2. /\ decoded.digits \in Nat /\ WithValue.digits = decoded.digits
        /\ decoded.length \in Nat /\ WithValue.length = decoded.length
        /\ decoded.exponent \in Nat /\ WithValue.exponent = decoded.exponent
    BY <1>1, DecoderFields, ValueBuilt
  <2>3. decoded' = [WithValue EXCEPT !.digits = digits, !.length = length,
                                     !.exponent = exponent]
    BY <2>1, <2>2
  <2>4. /\ digits \in {decoded.digits, size.digits} /\ digits >= decoded.digits
        /\ length \in {decoded.length, size.length} /\ length >= decoded.length
        /\ length >= size.length
        /\ exponent \in {decoded.exponent, size.exponent} /\ exponent >= decoded.exponent
    BY <1>2, <2>2, Larger, Zenon
  <2> HIDE DEF digits, length, exponent
  <2>5. /\ decoded' \in Decoder /\ decoded'.wellFormed /\ decoded'.proper = decoded.proper
        /\ decoded'.frames = WithValue.frames /\ decoded'.nodes = WithValue.nodes
        /\ decoded'.depth = WithValue.depth /\ decoded'.items = WithValue.items
        /\ decoded'.members = WithValue.members /\ decoded'.chars = WithValue.chars
        /\ decoded'.keyChars = WithValue.keyChars /\ decoded'.digits = digits
        /\ decoded'.length = length /\ decoded'.exponent = exponent
    <3>1. WithValue \in Decoder /\ WithValue.wellFormed = decoded.wellFormed
          /\ WithValue.proper = decoded.proper
      BY <1>1, ValueBuilt, Zenon
    <3>2. digits \in Nat /\ length \in Nat /\ exponent \in Nat
      BY <1>2, <2>2, <2>4
    <3> QED
      BY <1>1, <2>3, <3>1, <3>2 DEF Decoder
  <2>6. Grows
    <3>1. decoded'.proper => decoded.proper
      BY <2>5, Zenon
    <3>2. /\ WithValue.members = decoded.members /\ WithValue.keyChars = decoded.keyChars
          /\ WithValue.chars = decoded.chars /\ WithValue.nodes >= decoded.nodes
          /\ WithValue.depth >= decoded.depth /\ WithValue.items >= decoded.items
      BY <1>1, ValueBuilt, Zenon
    <3>3. decoded.members \in Nat /\ decoded.keyChars \in Nat /\ decoded.chars \in Nat
      BY <1>1, DecoderFields, Zenon
    <3>4. /\ decoded'.nodes >= decoded.nodes /\ decoded'.depth >= decoded.depth
          /\ decoded'.items >= decoded.items /\ decoded'.members >= decoded.members
          /\ decoded'.chars >= decoded.chars /\ decoded'.keyChars >= decoded.keyChars
          /\ decoded'.digits >= decoded.digits /\ decoded'.length >= decoded.length
          /\ decoded'.exponent >= decoded.exponent
      BY <2>4, <2>5, <3>2, <3>3
    <3> QED
      BY <3>1, <3>4, Zenon DEF Grows
  <2>7. scan'.passing =>
           scan'.nodes <= MaxNodes /\ decoded'.chars <= MaxChars * SourceBytes
    <3>1. ASSUME scan.passing PROVE decoded.chars <= MaxChars * SourceBytes
      BY <3>1 DEF DocumentInv, DecoderIsBounded
    <3>2. decoded'.chars = decoded.chars
      BY <1>1, <2>5, ValueBuilt
    <3> QED
      BY <1>5, <1>6, <3>1, <3>2
  <2>8. scan.passing /\ ~scan'.passing =>
           \/ scan'.nodes > MaxNodes \/ decoded'.chars > MaxChars
           \/ decoded'.length > MaxDigits + 8
    <3>1. ASSUME scan.passing, ~scan'.passing, ~(scan'.nodes > MaxNodes)
          PROVE  decoded'.length > MaxDigits + 8
      <4>1. scan'.nodes <= MaxNodes
        BY <1>2, <1>5, <3>1, ScannerFields
      <4>2. ~(size.length <= MaxDigits + 8)
        BY <1>5, <3>1, <4>1 DEF holds
      <4> QED
        BY <1>2, <2>2, <2>4, <2>5, <4>2
    <3> QED
      BY <3>1
  <2>9. decoded'.members = decoded.members
    BY <1>1, <2>5, ValueBuilt
  <2> QED
    BY <1>1, <1>5, <1>8, <2>5, <2>6, <2>7, <2>8, <2>9, ScalarPreservesInv
<1> QED
  BY <1>7, <1>8

-----------------------------------------------------------------------------
\* The frame and the container of an opener.
Opened(kind) == [Root EXCEPT !.opener = kind, !.expect = "first"]

Pushed(kind) == [opener |-> kind, separators |-> 0]

LEMMA OpenedFrame ==
    ASSUME NEW kind \in {"array", "object"}
    PROVE  /\ Opened(kind) \in Frame /\ Pushed(kind) \in Container
           /\ Opened(kind).opener = kind /\ Opened(kind).expect = "first"
           /\ Opened(kind).count = 0 /\ Cardinality(Opened(kind).names) = 0
           /\ Pushed(kind).opener = kind /\ Pushed(kind).separators = 0
           /\ 0 < Maximum(kind)
<1> DEFINE none == {}
<1>1. Opened(kind) = [opener |-> kind, expect |-> "first", count |-> 0, names |-> none]
  <2>1. Root = [opener |-> "root", expect |-> "value", count |-> 0, names |-> none]
    BY DEF Root
  <2> HIDE DEF none
  <2> DEFINE frame == [Root EXCEPT !.opener = kind]
  <2>2. frame = [opener |-> kind, expect |-> "value", count |-> 0, names |-> none]
    BY <2>1
  <2>3. Opened(kind) = [frame EXCEPT !.expect = "first"]
    BY Zenon DEF Opened
  <2> HIDE DEF frame
  <2> QED
    BY <2>2, <2>3
<1>2. IsFiniteSet({}) /\ Cardinality({}) = 0
  BY FS_EmptySet
<1>3. {} \in {names \in SUBSET Names : IsFiniteSet(names)}
  BY <1>2
<1>4. Opened(kind) \in Frame
  BY <1>1, <1>3 DEF Frame
<1>5. 0 < Maximum(kind)
  BY BoundsAssumption DEF BoundsAssumption, Maximum
<1> QED
  BY <1>1, <1>2, <1>4, <1>5 DEF Pushed, Container

LEMMA FramesPush ==
    ASSUME DocumentType, FramesInv, NEW kind \in {"array", "object"},
           decoded'.frames = Append(WithTop(Taken), Opened(kind))
    PROVE  FramesInv'
<1> DEFINE g == WithTop(Taken)
           n == Len(decoded.frames)
<1>1. /\ n \in Nat /\ n >= 1 /\ DOMAIN decoded.frames = 1 .. n /\ Top = decoded.frames[n]
  BY TopOfFrames
<1>2. /\ g \in Seq(Frame) /\ Len(g) = n /\ g[n] = Taken
      /\ \A i \in 1 .. n : i # n => g[i] = decoded.frames[i]
  BY <1>1, TakenFrame, AnotherTop
<1>3. /\ Taken.opener = Top.opener /\ Taken.expect = "next"
      /\ Taken.opener # "array" => Taken.count = 0
  BY TakenFrame
<1> HIDE DEF g, n
<1>4. /\ decoded'.frames # <<>> /\ Len(decoded'.frames) = n + 1
      /\ DOMAIN decoded'.frames = 1 .. (n + 1)
      /\ decoded'.frames[n + 1] = Opened(kind)
      /\ \A i \in 1 .. n : decoded'.frames[i] = g[i]
  <2>1. Opened(kind) \in Frame /\ decoded'.frames = Append(g, Opened(kind))
    BY OpenedFrame DEF g
  <2> QED
    BY <1>1, <1>2, <2>1
<1>5. ASSUME NEW i \in DOMAIN decoded'.frames
      PROVE  LET f == decoded'.frames[i] IN
             /\ f.opener = "root" <=> i = 1
             /\ i < Len(decoded'.frames) => f.expect = "next"
             /\ f.opener = "root" => f.expect \in {"value", "next"}
             /\ f.opener = "array" => f.expect # "key"
             /\ f.opener # "array" => f.count = 0
  <2>1. CASE i = n + 1
    BY <1>1, <1>4, <2>1, OpenedFrame
  <2>2. CASE i = n
    <3>1. decoded'.frames[i] = Taken /\ (Top.opener = "root" <=> i = 1)
      <4>1. i \in DOMAIN decoded.frames /\ decoded.frames[i] = Top
        BY <1>1, <2>2
      <4>2. Top.opener = "root" <=> i = 1
        BY <4>1, Zenon DEF FramesInv
      <4> QED
        BY <1>1, <1>2, <1>4, <2>2, <4>2
    <3> QED
      BY <1>3, <3>1
  <2>3. CASE i < n
    <3>1. i \in DOMAIN decoded.frames /\ decoded'.frames[i] = decoded.frames[i]
      BY <1>1, <1>2, <1>4, <2>3
    <3>2. i < Len(decoded.frames)
      BY <2>3 DEF n
    <3> QED
      BY <3>1, <3>2, Zenon DEF FramesInv
  <2> QED
    BY <1>1, <1>4, <2>1, <2>2, <2>3
<1> QED
  BY <1>4, <1>5 DEF FramesInv

LEMMA StacksPush ==
    ASSUME DocumentType, FramesInv, StacksAgree, ValueFits,
           NEW kind \in {"array", "object"},
           decoded'.frames = Append(WithTop(Taken), Opened(kind)),
           decoded'.proper = decoded.proper, scan'.nodes = decoded'.nodes,
           scan'.containers = Append(scan.containers, Pushed(kind)),
           Len(scan.containers) < MaxDepth
    PROVE  StacksAgree'
<1> DEFINE g == WithTop(Taken)
           n == Len(scan.containers)
<1>1. /\ n \in Nat /\ scan.containers \in Seq(Container) /\ Len(decoded.frames) = n + 1
      /\ DOMAIN decoded.frames = 1 .. (n + 1)
  BY TopOfFrames, ScannerFields DEF DocumentType, StacksAgree
<1>2. /\ g \in Seq(Frame) /\ Len(g) = n + 1 /\ g[n + 1] = Taken
      /\ \A i \in 1 .. n : g[i] = decoded.frames[i]
  <2>1. \A i \in 1 .. n : i \in DOMAIN decoded.frames /\ i # Len(decoded.frames)
    BY <1>1
  <2>2. Taken \in Frame
    BY TakenFrame
  <2>3. /\ g \in Seq(Frame) /\ Len(g) = Len(decoded.frames)
        /\ g[Len(decoded.frames)] = Taken
        /\ \A i \in DOMAIN decoded.frames :
              i # Len(decoded.frames) => g[i] = decoded.frames[i]
    BY <2>2, AnotherTop, Zenon
  <2> QED
    BY <1>1, <2>1, <2>3
<1>3. n > 0 => Separated(Taken, scan.containers[n])
  BY <1>1, TakenSeparated DEF Last
<1>4. \A i \in 1 .. n : Separated(decoded.frames[i + 1], scan.containers[i])
  BY <1>1 DEF StacksAgree
<1>5. n < MaxDepth /\ MaxDepth \in Nat
  BY BoundsAssumption DEF BoundsAssumption
<1> HIDE DEF g, n
<1>6. /\ Len(decoded'.frames) = n + 2 /\ decoded'.frames[n + 2] = Opened(kind)
      /\ \A i \in 1 .. (n + 1) : decoded'.frames[i] = g[i]
  <2>1. Opened(kind) \in Frame /\ decoded'.frames = Append(g, Opened(kind))
    BY OpenedFrame DEF g
  <2> QED
    BY <1>1, <1>2, <2>1
<1>7. /\ Len(scan'.containers) = n + 1 /\ DOMAIN scan'.containers = 1 .. (n + 1)
      /\ scan'.containers[n + 1] = Pushed(kind)
      /\ \A i \in 1 .. n : scan'.containers[i] = scan.containers[i]
  <2>1. Pushed(kind) \in Container /\ n = Len(scan.containers)
    BY OpenedFrame DEF n
  <2> QED
    BY <1>1, <2>1
<1>8. ASSUME NEW i \in 1 .. (n + 1)
      PROVE  Separated(decoded.frames[i + 1], scan.containers[i])'
  <2>0. n \in Nat /\ i \in Nat /\ i >= 1 /\ i <= n + 1
    BY <1>1
  <2>1. CASE i = n + 1
    <3>1. decoded'.frames[i + 1] = Opened(kind) /\ scan'.containers[i] = Pushed(kind)
      BY <1>1, <1>6, <1>7, <2>1
    <3> QED
      BY <3>1, OpenedFrame DEF Separated
  <2>2. CASE i = n
    <3>1. decoded'.frames[i + 1] = Taken /\ scan'.containers[i] = scan.containers[n] /\ n > 0
      BY <1>1, <1>2, <1>6, <1>7, <2>2
    <3> QED
      BY <1>3, <3>1 DEF Separated
  <2>3. CASE i < n
    <3>1. /\ i \in 1 .. n /\ decoded'.frames[i + 1] = decoded.frames[i + 1]
          /\ scan'.containers[i] = scan.containers[i]
      <4>1. i \in 1 .. n /\ i + 1 \in 1 .. n /\ i + 1 \in 1 .. (n + 1)
        BY <2>0, <2>3
      <4> QED
        BY <1>2, <1>6, <1>7, <4>1, Zenon
    <3>2. Separated(decoded.frames[i + 1], scan.containers[i])
      BY <1>4, <3>1
    <3> QED
      BY <3>1, <3>2 DEF Separated
  <2>4. i = n + 1 \/ i = n \/ i < n
    BY <2>0
  <2> QED
    BY <2>1, <2>2, <2>3, <2>4, Zenon
<1> QED
  BY <1>1, <1>5, <1>6, <1>7, <1>8 DEF StacksAgree

LEMMA OpenPreservesInv ==
    ASSUME DocumentInv, plain, NEW kind \in {"array", "object"}, ReadOpen(kind)
    PROVE  DocumentInv'
<1>1. DocumentType /\ decoded.wellFormed /\ outcome = "reading" /\ UNCHANGED outcome
      /\ scan \in Scanner /\ decoded \in Decoder /\ FramesInv /\ StoppedInv
      /\ (scan.passing => StacksAgree)
  BY Zenon DEF DocumentInv, DocumentType, ReadOpen, Read
<1>2. MaxDepth \in Nat /\ MaxNodes \in Nat /\ Len(scan.containers) \in Nat
  BY <1>1, ScannerFields, BoundsAssumption DEF BoundsAssumption
<1> DEFINE containers == Append(scan.containers, Pushed(kind))
           next == [scan EXCEPT !.nodes = @ + 1, !.containers = containers]
           holds == Len(scan.containers) < MaxDepth
           frames == Append(WithTop(Taken), Opened(kind))
<1>3. next \in Scanner /\ next.nodes = scan.nodes + 1 /\ next.containers = containers
  <2>1. containers \in Seq(Container)
    BY <1>1, OpenedFrame, ScannerFields
  <2> DEFINE nodes == scan.nodes + 1
  <2>2. nodes \in Nat
    BY <1>1, ScannerFields
  <2>3. next = [scan EXCEPT !.nodes = nodes, !.containers = containers]
    OBVIOUS
  <2> HIDE DEF containers, nodes, next
  <2>4. next \in Scanner /\ next.nodes = nodes /\ next.containers = containers
    BY <1>1, <2>1, <2>2, <2>3 DEF Scanner
  <2> QED
    BY <2>4 DEF nodes
<1>4. holds \in BOOLEAN /\ scan' = Checked(next, holds)
  <2>1. holds \in BOOLEAN
    BY <1>2
  <2>2. scan' = Checked(next, holds)
    BY DEF ReadOpen, Read, ScanOpen, Pushed
  <2> QED
    BY <2>1, <2>2
<1> HIDE DEF next, holds
<1>5. /\ scan' \in Scanner
      /\ ~scan.passing => scan' = scan
      /\ scan.passing =>
            /\ scan'.passing <=> holds /\ scan'.nodes <= MaxNodes
            /\ scan'.nodes = scan.nodes + 1 /\ scan'.containers = containers
  BY <1>1, <1>3, <1>4, CheckedScan
<1>6. scan'.passing => scan.passing /\ scan'.nodes <= MaxNodes
  BY <1>5
<1>7. CASE ~ValueFits
  <2>1. decoded' = [decoded EXCEPT !.wellFormed = FALSE]
    BY <1>7, Zenon DEF ReadOpen, Read
  <2> QED
    BY <1>1, <1>5, <1>6, <2>1, MisfitPreservesInv
<1>8. CASE ValueFits
  <2>1. WithValue \in Decoder /\ WithValue.frames = WithTop(Taken)
    BY <1>1, ValueBuilt
  <2>2. decoded' = [WithValue EXCEPT !.frames = frames]
    BY <1>8, <2>1 DEF ReadOpen, Read, Opened
  <2>3. frames \in Seq(Frame)
    BY <1>1, OpenedFrame, TakenFrame, AnotherTop
  <2> HIDE DEF frames, containers
  <2>4. /\ decoded' \in Decoder /\ decoded'.wellFormed = WithValue.wellFormed
        /\ decoded'.proper = WithValue.proper /\ decoded'.frames = frames
        /\ decoded'.nodes = WithValue.nodes
        /\ decoded'.depth = WithValue.depth /\ decoded'.items = WithValue.items
        /\ decoded'.members = WithValue.members /\ decoded'.chars = WithValue.chars
        /\ decoded'.keyChars = WithValue.keyChars /\ decoded'.digits = WithValue.digits
        /\ decoded'.length = WithValue.length
        /\ decoded'.exponent = WithValue.exponent
    BY <2>1, <2>2, <2>3 DEF Decoder
  <2>5. decoded'.proper = decoded.proper /\ decoded'.members = decoded.members
        /\ decoded'.chars = decoded.chars /\ decoded'.nodes = decoded.nodes + 1
        /\ decoded'.depth >= Len(decoded.frames)
    BY <1>1, <2>4, ValueBuilt
  <2>6. Grows
    <3>1. decoded'.proper => decoded.proper
      BY <2>5, Zenon
    <3>2. /\ WithValue.members = decoded.members /\ WithValue.keyChars = decoded.keyChars
          /\ WithValue.chars = decoded.chars /\ WithValue.digits = decoded.digits
          /\ WithValue.length = decoded.length /\ WithValue.nodes >= decoded.nodes
          /\ WithValue.exponent = decoded.exponent
          /\ WithValue.depth >= decoded.depth /\ WithValue.items >= decoded.items
      BY <1>1, ValueBuilt, Zenon
    <3>3. /\ decoded.members \in Nat /\ decoded.keyChars \in Nat /\ decoded.chars \in Nat
          /\ decoded.digits \in Nat /\ decoded.length \in Nat
          /\ decoded.exponent \in Nat
      BY <1>1, DecoderFields, Zenon
    <3>4. /\ decoded'.nodes >= decoded.nodes /\ decoded'.depth >= decoded.depth
          /\ decoded'.items >= decoded.items /\ decoded'.members >= decoded.members
          /\ decoded'.chars >= decoded.chars /\ decoded'.keyChars >= decoded.keyChars
          /\ decoded'.digits >= decoded.digits /\ decoded'.length >= decoded.length
          /\ decoded'.exponent >= decoded.exponent
      BY <2>4, <3>2, <3>3
    <3> QED
      BY <3>1, <3>4, Zenon DEF Grows
  <2>7. FramesInv'
    BY <1>1, <2>4, FramesPush DEF frames
  <2>8. ASSUME scan.passing PROVE scan'.nodes = decoded'.nodes
    BY <1>1, <1>5, <2>5, <2>8 DEF StacksAgree
  <2>9. ASSUME scan'.passing PROVE StacksAgree'
    <3>1. Len(scan.containers) < MaxDepth /\ scan.passing
      BY <1>5, <1>6, <2>9 DEF holds
    <3>2. scan'.containers = Append(scan.containers, Pushed(kind))
      BY <1>5, <3>1 DEF containers
    <3> QED
      BY <1>1, <1>8, <2>4, <2>5, <2>8, <3>1, <3>2, StacksPush DEF frames
  <2>10. StoppedInv'
    <3>1. ~scan.passing /\ OneTooMany => ~Walk'
      BY <1>1, <1>8, <2>4, ValueExceeds, ValueBuilt
    <3>2. ASSUME scan.passing, ~scan'.passing PROVE ~Walk'
      <4>1. CASE ~(scan'.nodes <= MaxNodes)
        <5>1. decoded'.nodes > MaxNodes
          BY <1>2, <1>5, <2>8, <3>2, <4>1, ScannerFields
        <5> QED
          BY <2>4, <5>1, WalkFails
      <4>2. CASE ~holds
        <5>1. Len(decoded.frames) = Len(scan.containers) + 1
          BY <1>1, <3>2 DEF StacksAgree
        <5>2. decoded'.depth > MaxDepth
          BY <1>2, <2>4, <2>5, <4>2, <5>1, DecoderFields DEF holds
        <5> QED
          BY <2>4, <5>2, WalkFails
      <4> QED
        BY <1>5, <3>2, <4>1, <4>2
    <3> QED
      BY <1>1, <2>4, <2>6, <3>1, <3>2, StopsStay
  <2>11. DecoderIsBounded'
    <3>1. ASSUME scan'.passing
          PROVE  /\ decoded'.nodes <= MaxNodes /\ decoded'.depth <= MaxDepth + 1
                 /\ decoded'.items <= MaxItems /\ decoded'.members <= MaxMembers
                 /\ decoded'.chars <= MaxChars * SourceBytes
      <4>1. scan.passing /\ StacksAgree /\ DecoderIsBounded
        BY <1>1, <1>6, <3>1 DEF DocumentInv
      <4>2. decoded'.nodes <= MaxNodes
        BY <1>6, <2>8, <3>1, <4>1
      <4>3. decoded'.depth <= MaxDepth + 1 /\ decoded'.items <= MaxItems
        BY <1>1, <1>8, <2>4, <4>1, ValueIsBounded
      <4>4. decoded'.members <= MaxMembers /\ decoded'.chars <= MaxChars * SourceBytes
        BY <2>5, <4>1 DEF DecoderIsBounded
      <4> QED
        BY <4>2, <4>3, <4>4
    <3> QED
      BY <3>1 DEF DecoderIsBounded
  <2>12. RejectionsAreDue'
    BY <1>1 DEF RejectionsAreDue
  <2>13. DocumentType'
    BY <1>1, <1>5, <2>4 DEF DocumentType
  <2> QED
    BY <1>6, <2>7, <2>9, <2>10, <2>11, <2>12, <2>13 DEF DocumentInv
<1> QED
  BY <1>7, <1>8

-----------------------------------------------------------------------------
\* A step that changes nothing of the decoder but its frames.
LEMMA OnlyFrames ==
    ASSUME DocumentType, plain, NEW frames \in Seq(Frame),
           decoded' = [decoded EXCEPT !.frames = frames]
    PROVE  /\ decoded' \in Decoder /\ Grows /\ decoded'.frames = frames
           /\ decoded'.wellFormed = decoded.wellFormed /\ decoded'.proper = decoded.proper
           /\ decoded'.nodes = decoded.nodes
           /\ (scan'.passing => scan.passing) /\ DecoderIsBounded => DecoderIsBounded'
<1>1. decoded \in Decoder
  BY DEF DocumentType
<1>2. /\ decoded' \in Decoder /\ decoded'.wellFormed = decoded.wellFormed
      /\ decoded'.proper = decoded.proper /\ decoded'.frames = frames
      /\ decoded'.nodes = decoded.nodes /\ decoded'.depth = decoded.depth
      /\ decoded'.items = decoded.items /\ decoded'.members = decoded.members
      /\ decoded'.chars = decoded.chars /\ decoded'.keyChars = decoded.keyChars
      /\ decoded'.digits = decoded.digits /\ decoded'.length = decoded.length
      /\ decoded'.exponent = decoded.exponent
  BY <1>1 DEF Decoder
<1>3. Grows
  <2>1. decoded'.proper => decoded.proper
    BY <1>2, Zenon
  <2>2. /\ decoded'.nodes >= decoded.nodes /\ decoded'.depth >= decoded.depth
        /\ decoded'.items >= decoded.items /\ decoded'.members >= decoded.members
        /\ decoded'.chars >= decoded.chars /\ decoded'.keyChars >= decoded.keyChars
        /\ decoded'.digits >= decoded.digits /\ decoded'.length >= decoded.length
        /\ decoded'.exponent >= decoded.exponent
    <3>1. /\ decoded.nodes \in Nat /\ decoded.depth \in Nat /\ decoded.items \in Nat
          /\ decoded.members \in Nat /\ decoded.chars \in Nat /\ decoded.keyChars \in Nat
          /\ decoded.digits \in Nat /\ decoded.length \in Nat
          /\ decoded.exponent \in Nat
      BY <1>1, DecoderFields, Zenon
    <3>2. \A n \in Nat : n >= n
      OBVIOUS
    <3> QED
      BY <1>2, <3>1, <3>2, Zenon
  <2> QED
    BY <2>1, <2>2, Zenon DEF Grows
<1>4. (scan'.passing => scan.passing) /\ DecoderIsBounded => DecoderIsBounded'
  BY <1>2 DEF DecoderIsBounded
<1> QED
  BY <1>2, <1>3, <1>4, Zenon

LEMMA ClosePreservesInv ==
    ASSUME DocumentInv, plain, NEW kind \in {"array", "object"}, ReadClose(kind)
    PROVE  DocumentInv'
<1>1. DocumentType /\ decoded.wellFormed /\ outcome = "reading" /\ UNCHANGED outcome
      /\ scan \in Scanner /\ decoded \in Decoder /\ FramesInv /\ StoppedInv
      /\ (scan.passing => StacksAgree) /\ (scan.passing => scan.nodes <= MaxNodes)
  BY Zenon DEF DocumentInv, DocumentType, ReadClose, Read
<1> DEFINE c == scan.containers
           n == Len(decoded.frames)
           containers == SubSeq(c, 1, Len(c) - 1)
           frames == SubSeq(decoded.frames, 1, n - 1)
           next == [scan EXCEPT !.containers = containers]
           closes == c # <<>> /\ Last(c).opener = kind
<1>2. c \in Seq(Container) /\ Len(c) \in Nat
  BY <1>1, ScannerFields
<1>3. closes => next \in Scanner /\ next.nodes = scan.nodes /\ next.containers = containers
  <2>1. closes => containers \in Seq(Container)
    BY <1>2
  <2> HIDE DEF containers, closes
  <2> QED
    BY <1>1, <2>1 DEF Scanner
<1>4. scan' = IF closes THEN Checked(next, TRUE) ELSE Checked(scan, FALSE)
  BY Zenon DEF ReadClose, Read, ScanClose
<1> HIDE DEF next, closes, containers, c
<1>5. /\ scan' \in Scanner
      /\ scan'.passing => scan.passing /\ scan'.nodes <= MaxNodes
      /\ ~scan.passing => scan' = scan
      /\ scan.passing /\ closes =>
            scan'.passing /\ scan'.nodes = scan.nodes /\ scan'.containers = containers
  <2>1. CASE closes
    <3>1. /\ scan' \in Scanner
          /\ ~scan.passing => scan' = scan
          /\ scan.passing =>
                /\ scan'.passing <=> TRUE /\ next.nodes <= MaxNodes
                /\ scan'.nodes = next.nodes /\ scan'.containers = next.containers
      BY <1>1, <1>3, <1>4, <2>1, CheckedScan
    <3> QED
      BY <1>1, <1>3, <2>1, <3>1
  <2>2. CASE ~closes
    <3>1. /\ scan' \in Scanner
          /\ ~scan.passing => scan' = scan
          /\ scan.passing => (scan'.passing <=> FALSE /\ scan.nodes <= MaxNodes)
      BY <1>1, <1>4, <2>2, CheckedScan
    <3> QED
      BY <2>2, <3>1
  <2> QED
    BY <2>1, <2>2
<1>6. CASE ~CloseFits(kind)
  <2>1. decoded' = [decoded EXCEPT !.wellFormed = FALSE]
    BY <1>6, Zenon DEF ReadClose, Read
  <2> QED
    BY <1>1, <1>5, <2>1, MisfitPreservesInv
<1>7. CASE CloseFits(kind)
  <2>1. Top.opener = kind /\ Top.expect \in {"first", "next"}
    BY <1>7, Zenon DEF CloseFits
  <2>2. n \in Nat /\ n >= 2 /\ decoded.frames \in Seq(Frame) /\ Top = decoded.frames[n]
        /\ DOMAIN decoded.frames = 1 .. n
    <3>1. n \in Nat /\ n >= 1 /\ DOMAIN decoded.frames = 1 .. n /\ Top = decoded.frames[n]
      BY <1>1, TopOfFrames
    <3>2. n \in DOMAIN decoded.frames /\ Top.opener # "root"
      BY <2>1, <3>1
    <3>3. n # 1
      BY <1>1, <3>1, <3>2, Zenon DEF FramesInv
    <3>4. n >= 2
      <4>1. n \in Nat /\ n >= 1
        BY <3>1, Zenon
      <4> HIDE DEF n
      <4> QED
        BY <3>3, <4>1
    <3>5. decoded.frames \in Seq(Frame)
      BY <1>1, DecoderFields, Zenon
    <3> QED
      BY <3>1, <3>4, <3>5, Zenon
  <2>3. /\ frames \in Seq(Frame) /\ Len(frames) = n - 1 /\ DOMAIN frames = 1 .. (n - 1)
        /\ \A i \in 1 .. (n - 1) : frames[i] = decoded.frames[i]
    BY <2>2
  <2>4. decoded' = [decoded EXCEPT !.frames = frames]
    BY <1>7 DEF ReadClose, Read
  <2> HIDE DEF frames, n
  <2>5. /\ decoded' \in Decoder /\ Grows /\ decoded'.frames = frames
        /\ decoded'.wellFormed /\ decoded'.proper = decoded.proper
        /\ decoded'.nodes = decoded.nodes /\ DecoderIsBounded'
    <3>1. DecoderIsBounded
      BY Zenon DEF DocumentInv
    <3> QED
      BY <1>1, <1>5, <2>3, <2>4, <3>1, OnlyFrames
  <2>6. FramesInv'
    <3>1. decoded'.frames # <<>> /\ DOMAIN decoded'.frames = 1 .. (n - 1)
          /\ Len(decoded'.frames) = n - 1
      BY <2>2, <2>3, <2>5
    <3>2. ASSUME NEW i \in 1 .. (n - 1)
          PROVE  i \in DOMAIN decoded.frames /\ i < Len(decoded.frames)
                 /\ decoded'.frames[i] = decoded.frames[i]
      BY <2>2, <2>3, <2>5 DEF n
    <3>3. ASSUME NEW i \in DOMAIN decoded'.frames
          PROVE  LET f == decoded'.frames[i] IN
                 /\ f.opener = "root" <=> i = 1
                 /\ i < Len(decoded'.frames) => f.expect = "next"
                 /\ f.opener = "root" => f.expect \in {"value", "next"}
                 /\ f.opener = "array" => f.expect # "key"
                 /\ f.opener # "array" => f.count = 0
      <4>1. i \in DOMAIN decoded.frames /\ i < Len(decoded.frames)
            /\ decoded'.frames[i] = decoded.frames[i]
        BY <3>1, <3>2
      <4> QED
        BY <1>1, <4>1, Zenon DEF FramesInv
    <3> QED
      BY <3>1, <3>3, Zenon DEF FramesInv
  <2>7. ASSUME scan.passing PROVE closes
    BY <1>1, <2>1, <2>7, TopSeparated DEF closes, c, Separated
  <2>8. ASSUME scan.passing PROVE StacksAgree'
    <3>1. StacksAgree /\ scan'.nodes = scan.nodes /\ scan'.containers = containers
          /\ c # <<>>
      BY <1>1, <1>5, <2>7, <2>8 DEF closes
    <3>2. n = Len(c) + 1 /\ Len(c) <= MaxDepth /\ scan.nodes = decoded.nodes
          /\ \A i \in DOMAIN c : Separated(decoded.frames[i + 1], c[i])
      BY <3>1 DEF StacksAgree, n, c
    <3>3. /\ Len(containers) = Len(c) - 1 /\ DOMAIN containers = 1 .. (Len(c) - 1)
          /\ \A i \in 1 .. (Len(c) - 1) : containers[i] = c[i]
      <4>1. Len(c) \in Nat /\ Len(c) >= 1 /\ c \in Seq(Container)
        BY <1>2, <3>1
      <4> DEFINE m == Len(c) - 1
      <4>2. m \in Nat /\ 1 \in Int /\ m \in Int /\ \A i \in 1 .. m : c[i] \in Container
        BY <4>1
      <4>3. containers = SubSeq(c, 1, m)
        BY DEF containers
      <4> HIDE DEF m
      <4>4. /\ containers \in Seq(Container)
            /\ Len(containers) = IF 1 <= m THEN m - 1 + 1 ELSE 0
            /\ \A i \in 1 .. m - 1 + 1 : containers[i] = c[1 + i - 1]
        BY <4>2, <4>3, SubSeqProperties
      <4>5. Len(containers) = m /\ DOMAIN containers = 1 .. m
            /\ \A i \in 1 .. m : containers[i] = c[i]
        BY <4>2, <4>4
      <4> QED
        BY <4>5 DEF m
    <3>4. ASSUME NEW i \in DOMAIN containers
          PROVE  Separated(decoded.frames[i + 1], scan.containers[i])'
      <4>1. i \in DOMAIN c /\ i \in 1 .. (Len(c) - 1) /\ i + 1 \in 1 .. (n - 1)
        BY <1>2, <3>2, <3>3
      <4>2. Separated(decoded.frames[i + 1], c[i])
        BY <3>2, <4>1
      <4>3. decoded'.frames[i + 1] = decoded.frames[i + 1] /\ scan'.containers[i] = c[i]
        BY <2>3, <2>5, <3>1, <3>3, <4>1
      <4> QED
        BY <2>5, <4>2, <4>3, Zenon DEF Separated
    <3>5. Len(containers) <= MaxDepth /\ Len(decoded'.frames) = Len(containers) + 1
      BY <1>2, <2>2, <2>3, <2>5, <3>2, <3>3, BoundsAssumption DEF BoundsAssumption
    <3> QED
      BY <2>5, <3>1, <3>2, <3>4, <3>5 DEF StacksAgree
  <2>9. StoppedInv'
    <3>1. ~OneTooMany
      BY <2>1, Zenon DEF OneTooMany
    <3>2. scan.passing => scan'.passing
      BY <1>5, <2>7
    <3> QED
      BY <1>1, <2>5, <3>1, <3>2, StopsStay
  <2>10. RejectionsAreDue'
    BY <1>1 DEF RejectionsAreDue
  <2>11. DocumentType'
    BY <1>1, <1>5, <2>5 DEF DocumentType
  <2> QED
    BY <1>5, <2>5, <2>6, <2>8, <2>9, <2>10, <2>11, Zenon DEF DocumentInv
<1> QED
  BY <1>6, <1>7

-----------------------------------------------------------------------------
LEMMA CommaPreservesInv ==
    ASSUME DocumentInv, plain, ReadComma
    PROVE  DocumentInv'
<1>1. DocumentType /\ decoded.wellFormed /\ outcome = "reading" /\ UNCHANGED outcome
      /\ scan \in Scanner /\ decoded \in Decoder /\ FramesInv /\ StoppedInv
      /\ (scan.passing => StacksAgree) /\ (scan.passing => scan.nodes <= MaxNodes)
  BY Zenon DEF DocumentInv, DocumentType, ReadComma, Read
<1> DEFINE c == scan.containers
           top == Last(c)
           counted == [top EXCEPT !.separators = @ + 1]
           containers == [c EXCEPT ![Len(c)] = counted]
           next == [scan EXCEPT !.containers = containers]
           holds == top.separators + 1 < Maximum(top.opener)
<1>2. c \in Seq(Container) /\ Len(c) \in Nat
  BY <1>1, ScannerFields
<1>3. ASSUME c # <<>>
      PROVE  /\ Len(c) >= 1 /\ top = c[Len(c)] /\ top \in Container
             /\ top.opener \in {"array", "object"} /\ top.separators \in Nat
  <2>1. top = c[Len(c)]
    BY DEF Last
  <2> HIDE DEF c, top
  <2>2. Len(c) >= 1 /\ top \in Container
    BY <1>2, <1>3, <2>1
  <2> QED
    BY <2>1, <2>2 DEF Container
<1>4. ASSUME c # <<>>
      PROVE  /\ counted \in Container /\ counted.opener = top.opener
             /\ counted.separators = top.separators + 1
  BY <1>3, <1>4 DEF Container
<1>5. ASSUME c # <<>>
      PROVE  /\ containers \in Seq(Container) /\ Len(containers) = Len(c)
             /\ containers[Len(c)] = counted
             /\ \A i \in DOMAIN c : i # Len(c) => containers[i] = c[i]
  <2> HIDE DEF counted, c
  <2> QED
    BY <1>2, <1>3, <1>4, <1>5
<1>6. ASSUME c # <<>>
      PROVE  /\ next \in Scanner /\ next.nodes = scan.nodes /\ next.containers = containers
             /\ holds \in BOOLEAN
             /\ scan' = Checked(next, holds)
  <2>1. [scan EXCEPT !.containers[Len(scan.containers)].separators = @ + 1] = next
    BY <1>1, <1>3, <1>6 DEF Scanner, Last
  <2>2. scan' = Checked(next, holds)
    BY <1>6, <2>1, Zenon DEF ReadComma, Read, ScanComma
  <2>3. holds \in BOOLEAN
    BY <1>3, <1>6, BoundsAssumption DEF BoundsAssumption, Maximum
  <2> HIDE DEF containers, holds
  <2>4. next \in Scanner /\ next.nodes = scan.nodes /\ next.containers = containers
    BY <1>1, <1>5, <1>6 DEF Scanner
  <2> QED
    BY <2>2, <2>3, <2>4
<1>7. c = <<>> => scan' = Checked(scan, FALSE)
  BY Zenon DEF ReadComma, Read, ScanComma
<1> HIDE DEF next, holds, containers, counted, c, top
<1>8. /\ scan' \in Scanner
      /\ scan'.passing => scan.passing /\ scan'.nodes <= MaxNodes
      /\ ~scan.passing => scan' = scan
      /\ scan.passing /\ c # <<>> =>
            /\ scan'.passing <=> holds
            /\ scan'.nodes = scan.nodes /\ scan'.containers = containers
  <2>1. CASE c # <<>>
    <3>1. /\ scan' \in Scanner
          /\ ~scan.passing => scan' = scan
          /\ scan.passing =>
                /\ scan'.passing <=> holds /\ next.nodes <= MaxNodes
                /\ scan'.nodes = next.nodes /\ scan'.containers = next.containers
      BY <1>1, <1>6, <2>1, CheckedScan
    <3> QED
      BY <1>1, <1>6, <2>1, <3>1
  <2>2. CASE c = <<>>
    <3>1. /\ scan' \in Scanner
          /\ ~scan.passing => scan' = scan
          /\ scan.passing => (scan'.passing <=> FALSE /\ scan.nodes <= MaxNodes)
      BY <1>1, <1>7, <2>2, CheckedScan
    <3> QED
      BY <2>2, <3>1
  <2> QED
    BY <2>1, <2>2
<1>9. CASE ~CommaFits
  <2>1. decoded' = [decoded EXCEPT !.wellFormed = FALSE]
    BY <1>9, Zenon DEF ReadComma, Read
  <2> QED
    BY <1>1, <1>8, <2>1, MisfitPreservesInv
<1>10. CASE CommaFits
  <2> DEFINE expect == IF Top.opener = "array" THEN "value" ELSE "key"
  <2>1. Top \in Frame /\ Top.opener # "root" /\ Top.expect = "next"
        /\ Top.opener \in {"root", "array", "object"}
    BY <1>1, <1>10, TopOfFrames, FrameFields, Zenon DEF CommaFits
  <2>2. PICK f \in Frame : f = [Top EXCEPT !.expect = expect]
    <3>1. expect \in {"value", "key"}
      OBVIOUS
    <3> HIDE DEF expect
    <3>2. [Top EXCEPT !.expect = expect] \in Frame
      BY <2>1, <3>1 DEF Frame
    <3> QED
      BY <3>2
  <2>3. /\ f.opener = Top.opener /\ f.expect = expect /\ f.count = Top.count
        /\ f.names = Top.names
    <3> HIDE DEF expect
    <3> QED
      BY <2>1, <2>2 DEF Frame
  <2>4. WithTop(f) \in Seq(Frame)
    BY <1>1, AnotherTop
  <2>5. decoded' = [decoded EXCEPT !.frames = WithTop(f)]
    BY <1>10, <2>2 DEF ReadComma, Read
  <2>6. /\ decoded' \in Decoder /\ Grows /\ decoded'.frames = WithTop(f)
        /\ decoded'.wellFormed /\ decoded'.proper = decoded.proper
        /\ decoded'.nodes = decoded.nodes /\ DecoderIsBounded'
    <3>1. DecoderIsBounded
      BY Zenon DEF DocumentInv
    <3> QED
      BY <1>1, <1>8, <2>4, <2>5, <3>1, OnlyFrames
  <2>7. FramesInv' /\ Top' = f
    <3>1. f.opener # "array" => f.count = 0
      <4>1. Len(decoded.frames) \in DOMAIN decoded.frames
            /\ Top = decoded.frames[Len(decoded.frames)]
        BY <1>1, TopOfFrames
      <4> QED
        BY <1>1, <2>3, <4>1, Zenon DEF FramesInv
    <3>2. f.opener # "root" /\ (f.opener = "array" => f.expect # "key")
      BY <2>1, <2>3
    <3> QED
      BY <1>1, <2>3, <2>6, <3>1, <3>2, FramesFollow
  <2>8. ASSUME scan.passing
        PROVE  /\ c # <<>> /\ top.opener = Top.opener
               /\ Top.opener = "array" => Top.count = top.separators + 1
               /\ Top.opener = "object" =>
                     /\ Cardinality(Top.names) <= top.separators + 1
                     /\ decoded.proper => Cardinality(Top.names) = top.separators + 1
    <3>1. c # <<>> /\ Separated(Top, top)
      BY <1>1, <2>1, <2>8, TopSeparated DEF c, top
    <3> QED
      BY <2>1, <3>1 DEF Separated
  <2>9. ASSUME scan'.passing PROVE StacksAgree'
    <3>1. scan.passing /\ StacksAgree /\ c # <<>> /\ holds
          /\ scan'.nodes = scan.nodes /\ scan'.containers = containers
      BY <1>1, <1>8, <2>8, <2>9
    <3>2. Last(scan.containers)' = counted
      BY <1>5, <3>1 DEF Last
    <3>3. Separated(f, Last(scan.containers))'
      <4>1. counted.opener = Top.opener /\ counted.separators = top.separators + 1
            /\ counted.separators < Maximum(counted.opener)
        BY <1>4, <2>8, <3>1 DEF holds
      <4>2. top.separators + 1 \in Nat
        BY <1>3, <3>1
      <4>3. Top.opener = "array" => f.expect # "next" /\ f.count = counted.separators + 0
        BY <2>3, <2>8, <3>1, <4>1, <4>2
      <4>4. Top.opener = "object" =>
               /\ f.expect \notin {"value", "next"}
               /\ Cardinality(f.names) <= counted.separators + 0
               /\ decoded.proper => Cardinality(f.names) = counted.separators + 0
        <5>1. counted.separators + 0 = top.separators + 1
          BY <4>1, <4>2
        <5> QED
          BY <2>3, <2>8, <3>1, <5>1
      <4> QED
        BY <2>3, <2>6, <3>2, <4>1, <4>3, <4>4 DEF Separated
    <3>4. /\ Len(scan'.containers) = Len(scan.containers)
          /\ \A i \in DOMAIN scan.containers :
                i # Len(scan.containers) => scan'.containers[i] = scan.containers[i]
      BY <1>5, <3>1 DEF c
    <3>5. scan'.nodes = decoded'.nodes
      BY <2>6, <3>1 DEF StacksAgree
    <3>6. decoded'.proper => decoded.proper
      BY <2>6, Zenon
    <3> QED
      BY <1>1, <1>8, <2>6, <3>1, <3>3, <3>4, <3>5, <3>6, StacksFollow
  <2>10. StoppedInv'
    <3>1. ~OneTooMany
      BY <2>1, Zenon DEF OneTooMany
    <3>2. ASSUME scan.passing, ~scan'.passing, Walk' PROVE OneTooMany'
      <4>1. decoded.proper
        BY <2>6, <3>2, Zenon DEF Walk, NamesFit
      <4>2. ~holds /\ c # <<>> /\ top.separators \in Nat /\ top.opener = Top.opener
        BY <1>3, <1>8, <2>8, <3>2
      <4>3. CASE Top.opener = "array"
        <5>1. f.count >= MaxItems
          BY <2>3, <2>8, <3>2, <4>2, <4>3, BoundsAssumption
          DEF holds, Maximum, BoundsAssumption
        <5>2. f.opener = "array" /\ f.expect = "value"
          BY <2>3, <4>3
        <5> QED
          BY <2>7, <5>1, <5>2, Zenon DEF OneTooMany
      <4>4. CASE Top.opener = "object"
        <5>1. Cardinality(f.names) = top.separators + 1
          BY <2>3, <2>8, <3>2, <4>1, <4>4
        <5>2. Cardinality(f.names) >= MaxMembers
          BY <4>2, <4>4, <5>1, BoundsAssumption DEF holds, Maximum, BoundsAssumption
        <5>3. f.opener = "object" /\ f.expect = "key"
          BY <2>3, <4>4
        <5> QED
          BY <2>7, <5>2, <5>3, Zenon DEF OneTooMany
      <4> QED
        BY <2>1, <4>3, <4>4
    <3>3. scan.passing /\ ~scan'.passing =>
             ~Walk' \/ OneTooMany' \/ decoded'.length > MaxDigits + 8
      BY <3>2, Zenon
    <3> QED
      BY <1>1, <2>6, <3>1, <3>3, StopsStay
  <2>11. RejectionsAreDue'
    BY <1>1 DEF RejectionsAreDue
  <2>12. DocumentType'
    BY <1>1, <1>8, <2>6 DEF DocumentType
  <2> QED
    BY <1>8, <2>6, <2>7, <2>9, <2>10, <2>11, <2>12, Zenon DEF DocumentInv
<1> QED
  BY <1>9, <1>10

-----------------------------------------------------------------------------
\* The frame of a name, whose object has one more member if the name is new.
LEMMA NamedFrame ==
    ASSUME DocumentType, FramesInv, NEW name \in Names, NEW f,
           f = [Top EXCEPT !.expect = "value", !.names = @ \cup {name}]
    PROVE  /\ f \in Frame /\ f.opener = Top.opener /\ f.expect = "value"
           /\ f.count = Top.count /\ f.names = Top.names \cup {name}
           /\ Cardinality(Top.names) \in Nat
           /\ Cardinality(f.names) =
                 IF name \in Top.names THEN Cardinality(Top.names)
                 ELSE Cardinality(Top.names) + 1
<1> DEFINE names == Top.names \cup {name}
<1>1. Top \in Frame
  BY TopOfFrames
<1>2. Top.names \subseteq Names /\ IsFiniteSet(Top.names)
  BY <1>1, FrameFields, Zenon
<1>3. /\ IsFiniteSet(names)
      /\ Cardinality(names) =
            IF name \in Top.names THEN Cardinality(Top.names)
            ELSE Cardinality(Top.names) + 1
  BY <1>2, FS_AddElement
<1>4. names \in {s \in SUBSET Names : IsFiniteSet(s)}
  BY <1>2, <1>3
<1>5. Cardinality(Top.names) \in Nat
  BY <1>2, FS_CardinalityType
<1>6. f = [Top EXCEPT !.expect = "value", !.names = names]
  OBVIOUS
<1> HIDE DEF names
<1>7. f \in Frame /\ f.opener = Top.opener /\ f.expect = "value"
      /\ f.count = Top.count /\ f.names = names
  BY <1>1, <1>4, <1>6 DEF Frame
<1> QED
  BY <1>3, <1>5, <1>7 DEF names

LEMMA KeyPreservesInv ==
    ASSUME DocumentInv, plain, NEW name \in Names, NEW size \in Strings, ReadKey(name, size)
    PROVE  DocumentInv'
<1>1. DocumentType /\ decoded.wellFormed /\ outcome = "reading" /\ UNCHANGED outcome
      /\ scan \in Scanner /\ decoded \in Decoder /\ FramesInv /\ StoppedInv
      /\ (scan.passing => StacksAgree) /\ (scan.passing => scan.nodes <= MaxNodes)
  BY Zenon DEF DocumentInv, DocumentType, ReadKey, Read
<1>2. size.chars \in Nat /\ size.bytes \in Nat /\ MaxKeyChars \in Nat
      /\ MaxKeyChars * SourceBytes \in Nat /\ MaxMembers \in Nat
  BY BoundsAssumption DEF BoundsAssumption
<1> DEFINE holds == size.bytes <= MaxKeyChars * SourceBytes
<1>3. holds \in BOOLEAN /\ scan' = Checked(scan, holds)
  <2>1. holds \in BOOLEAN
    BY <1>2
  <2>2. scan' = Checked(scan, holds)
    BY Zenon DEF ReadKey, Read, ScanKey
  <2> QED
    BY <2>1, <2>2
<1> HIDE DEF holds
<1>4. /\ scan' \in Scanner
      /\ ~scan.passing => scan' = scan
      /\ scan.passing =>
            /\ scan'.passing <=> holds /\ scan.nodes <= MaxNodes
            /\ scan'.nodes = scan.nodes /\ scan'.containers = scan.containers
  BY <1>1, <1>3, CheckedScan
<1>5. scan'.passing => scan.passing /\ scan'.nodes <= MaxNodes
  BY <1>1, <1>4
<1>6. CASE ~KeyFits
  <2>1. decoded' = [decoded EXCEPT !.wellFormed = FALSE]
    BY <1>6, Zenon DEF ReadKey, Read
  <2> QED
    BY <1>1, <1>4, <1>5, <2>1, MisfitPreservesInv
<1>7. CASE KeyFits
  <2>1. Top.opener = "object" /\ Top.expect \in {"first", "key"}
    BY <1>7, Zenon DEF KeyFits
  <2>2. PICK f : f = [Top EXCEPT !.expect = "value", !.names = @ \cup {name}]
    OBVIOUS
  <2>3. /\ f \in Frame /\ f.opener = Top.opener /\ f.expect = "value"
        /\ f.count = Top.count /\ Cardinality(Top.names) \in Nat
        /\ Cardinality(f.names) =
              IF name \in Top.names THEN Cardinality(Top.names)
              ELSE Cardinality(Top.names) + 1
    BY <1>1, <2>2, NamedFrame
  <2>4. Cardinality(f.names) \in Nat
    BY <2>3
  <2>5. /\ decoded.nodes \in Nat /\ decoded.depth \in Nat /\ decoded.items \in Nat
        /\ decoded.members \in Nat /\ decoded.chars \in Nat /\ decoded.keyChars \in Nat
        /\ decoded.digits \in Nat /\ decoded.length \in Nat
        /\ decoded.exponent \in Nat
    BY <1>1, DecoderFields, Zenon
  <2> DEFINE frames == WithTop(f)
             proper == decoded.proper /\ name \notin Top.names /\ name \notin Unprintable
             members == Max({decoded.members, Cardinality(f.names)})
             keyChars == Max({decoded.keyChars, size.chars})
  <2>6. decoded' = [decoded EXCEPT !.frames = frames, !.proper = proper,
                                   !.members = members, !.keyChars = keyChars]
    BY <1>7, <2>2 DEF ReadKey, Read, WithName
  <2>7. /\ members \in {decoded.members, Cardinality(f.names)}
        /\ members >= decoded.members /\ members >= Cardinality(f.names)
    BY <2>4, <2>5, Larger, Zenon
  <2>8. /\ keyChars \in {decoded.keyChars, size.chars}
        /\ keyChars >= decoded.keyChars /\ keyChars >= size.chars
    BY <1>2, <2>5, Larger, Zenon
  <2>9. frames \in Seq(Frame)
    BY <1>1, <2>3, AnotherTop
  <2>10. proper \in BOOLEAN /\ (proper => decoded.proper) /\ (proper => name \notin Top.names)
    <3>1. decoded.proper \in BOOLEAN
      BY <1>1 DEF Decoder
    <3> QED
      BY <3>1, Zenon
  <2> HIDE DEF frames, proper, members, keyChars
  <2>11. members \in Nat /\ keyChars \in Nat
    BY <1>2, <2>4, <2>5, <2>7, <2>8
  <2>12. /\ decoded' \in Decoder /\ decoded'.wellFormed = decoded.wellFormed
         /\ decoded'.proper = proper /\ decoded'.frames = frames
         /\ decoded'.nodes = decoded.nodes /\ decoded'.depth = decoded.depth
         /\ decoded'.items = decoded.items /\ decoded'.members = members
         /\ decoded'.chars = decoded.chars /\ decoded'.keyChars = keyChars
         /\ decoded'.digits = decoded.digits /\ decoded'.length = decoded.length
         /\ decoded'.exponent = decoded.exponent
    BY <1>1, <2>6, <2>9, <2>10, <2>11 DEF Decoder
  <2>13. Grows
    <3>1. decoded'.proper => decoded.proper
      BY <2>10, <2>12, Zenon
    <3>2. /\ decoded'.nodes >= decoded.nodes /\ decoded'.depth >= decoded.depth
          /\ decoded'.items >= decoded.items /\ decoded'.members >= decoded.members
          /\ decoded'.chars >= decoded.chars /\ decoded'.keyChars >= decoded.keyChars
          /\ decoded'.digits >= decoded.digits /\ decoded'.length >= decoded.length
          /\ decoded'.exponent >= decoded.exponent
      BY <2>5, <2>7, <2>8, <2>12
    <3> QED
      BY <3>1, <3>2, Zenon DEF Grows
  <2>14. FramesInv' /\ Top' = f
    <3>1. Top.count = 0
      <4>1. Len(decoded.frames) \in DOMAIN decoded.frames
            /\ Top = decoded.frames[Len(decoded.frames)] /\ Top.opener # "array"
        BY <1>1, <2>1, TopOfFrames
      <4> QED
        BY <1>1, <4>1, Zenon DEF FramesInv
    <3>2. f.opener # "root" /\ f.opener # "array" /\ f.count = 0
      BY <2>1, <2>3, <3>1
    <3>3. decoded'.frames = WithTop(f)
      BY <2>12 DEF frames
    <3> QED
      BY <1>1, <2>3, <3>2, <3>3, FramesFollow
  <2>15. ASSUME scan.passing
         PROVE  /\ scan.containers # <<>>
                /\ Separated(f, Last(scan.containers))'
                /\ Cardinality(f.names) <= MaxMembers
    <3> DEFINE c == Last(scan.containers)
    <3>1. StacksAgree /\ scan.containers # <<>> /\ c \in Container /\ Separated(Top, c)
      BY <1>1, <2>1, <2>15, TopSeparated
    <3>2. c.opener = "object" /\ c.separators \in Nat /\ Last(scan.containers)' = c
      BY <1>4, <2>1, <2>15, <3>1 DEF Container, Separated, Last
    <3> HIDE DEF c
    <3>3. /\ c.separators < MaxMembers
          /\ Cardinality(Top.names) <= c.separators + 0
          /\ decoded.proper => Cardinality(Top.names) = c.separators + 0
      BY <2>1, <3>1, <3>2 DEF Separated, Maximum
    <3>4. Cardinality(f.names) <= c.separators + 1
      BY <2>3, <3>2, <3>3
    <3>5. decoded'.proper => Cardinality(f.names) = c.separators + 1
      <4>1. ASSUME decoded'.proper PROVE Cardinality(f.names) = c.separators + 1
        <5>1. decoded.proper /\ name \notin Top.names
          BY <2>10, <2>12, <4>1, Zenon
        <5>2. Cardinality(f.names) = Cardinality(Top.names) + 1
          BY <2>3, <5>1
        <5>3. Cardinality(Top.names) = c.separators + 0
          BY <3>3, <5>1
        <5> QED
          BY <3>2, <5>2, <5>3
      <4> QED
        BY <4>1
    <3>6. Cardinality(f.names) <= MaxMembers
      BY <1>2, <2>4, <3>2, <3>3, <3>4
    <3>7. Separated(f, Last(scan.containers))'
      BY <2>1, <2>3, <3>2, <3>3, <3>4, <3>5 DEF Separated, Maximum
    <3> QED
      BY <3>1, <3>6, <3>7
  <2>16. ASSUME scan.passing PROVE StacksAgree'
    <3>1. StacksAgree /\ scan'.nodes = decoded'.nodes /\ scan'.containers = scan.containers
      BY <1>1, <1>4, <2>12, <2>16 DEF StacksAgree
    <3>2. decoded'.proper => decoded.proper
      BY <2>10, <2>12, Zenon
    <3>3. decoded'.frames = WithTop(f)
      BY <2>12 DEF frames
    <3>4. scan.containers # <<>> => Separated(f, Last(scan.containers))'
      BY <2>15, <2>16
    <3> QED
      BY <1>1, <1>4, <2>3, <3>1, <3>2, <3>3, <3>4, StacksFollow
  <2>17. StoppedInv'
    <3>1. ASSUME OneTooMany PROVE ~Walk'
      <4>1. Cardinality(Top.names) >= MaxMembers
        BY <2>1, <3>1 DEF OneTooMany
      <4>2. CASE name \in Top.names
        <5>1. ~decoded'.proper
          BY <2>10, <2>12, <4>2, Zenon
        <5> QED
          BY <5>1, Zenon DEF Walk, NamesFit
      <4>3. CASE name \notin Top.names
        <5>1. decoded'.members > MaxMembers
          BY <1>2, <2>3, <2>7, <2>11, <2>12, <4>1, <4>3
        <5> QED
          BY <2>12, <5>1, WalkFails
      <4> QED
        BY <4>2, <4>3
    <3>2. ASSUME scan.passing, ~scan'.passing PROVE ~Walk'
      <4>1. ~holds
        BY <1>1, <1>4, <3>2
      <4>2. size.chars > MaxKeyChars
        BY <1>2, <4>1, BytesBoundChars DEF holds
      <4>3. decoded'.keyChars > MaxKeyChars
        BY <1>2, <2>8, <2>11, <2>12, <4>2
      <4> QED
        BY <2>12, <4>3, WalkFails
    <3> QED
      BY <1>1, <2>12, <2>13, <3>1, <3>2, StopsStay
  <2>18. DecoderIsBounded'
    <3>1. ASSUME scan'.passing PROVE DecoderIsBounded /\ decoded'.members <= MaxMembers
      <4>1. scan.passing /\ DecoderIsBounded
        BY <1>5, <3>1, Zenon DEF DocumentInv
      <4> QED
        BY <2>7, <2>12, <2>15, <4>1 DEF DecoderIsBounded
    <3> QED
      BY <1>5, <2>12, <3>1 DEF DecoderIsBounded
  <2>19. RejectionsAreDue'
    BY <1>1 DEF RejectionsAreDue
  <2>20. DocumentType'
    BY <1>1, <1>4, <2>12 DEF DocumentType
  <2> QED
    BY <1>5, <2>14, <2>16, <2>17, <2>18, <2>19, <2>20, Zenon DEF DocumentInv
<1> QED
  BY <1>6, <1>7

-----------------------------------------------------------------------------
LEMMA ColonPreservesInv ==
    ASSUME DocumentInv, plain, ReadColon
    PROVE  DocumentInv'
<1>1. /\ outcome = "reading" /\ UNCHANGED outcome /\ scan' = scan
      /\ decoded' = [decoded EXCEPT !.wellFormed = FALSE]
  BY Zenon DEF ReadColon, Read
<1>2. scan \in Scanner /\ (scan.passing => scan.nodes <= MaxNodes)
  BY Zenon DEF DocumentInv, DocumentType
<1> QED
  BY <1>1, <1>2, MisfitPreservesInv

\* A rejected document was complete only if the scan stopped, and the top of a complete
\* one expects no value and no key.
LEMMA DocumentEndPreservesInv ==
    ASSUME DocumentInv, plain, EndDocument
    PROVE  DocumentInv'
<1>1. /\ UNCHANGED <<plain, scan, decoded>>
      /\ outcome' \in {"parsed", "rejected", "raised"}
  BY DEF EndDocument
<1>2. ASSUME outcome' = "rejected", Complete, Walk PROVE decoded.length > MaxDigits + 8
  <2>1. decoded.wellFormed /\ Len(decoded.frames) = 1 /\ Top.expect = "next"
    BY <1>2, Zenon DEF Complete
  <2>2. DocumentType /\ StoppedInv /\ (scan.passing => StacksAgree)
    BY <2>1, Zenon DEF DocumentInv
  <2>3. ~(scan.passing /\ scan.containers = <<>>)
    BY <1>2, Zenon DEF EndDocument, Passed, Walk
  <2>4. scan.passing => scan.containers = <<>>
    BY <2>1, <2>2, ScannerFields DEF StacksAgree, DocumentType
  <2>5. ~OneTooMany
    BY <2>1, Zenon DEF OneTooMany
  <2> QED
    BY <1>2, <2>2, <2>3, <2>4, <2>5, Zenon DEF StoppedInv
<1>3. Complete' = Complete /\ Walk' = Walk /\ decoded' = decoded
  BY <1>1 DEF Complete, Walk, NamesFit, Top
<1>4. RejectionsAreDue'
  BY <1>2, <1>3, Zenon DEF RejectionsAreDue
<1>5. /\ FramesInv' = FramesInv /\ StoppedInv' = StoppedInv /\ StacksAgree' = StacksAgree
      /\ DecoderIsBounded' = DecoderIsBounded
  BY <1>1, <1>3
  DEF FramesInv, StoppedInv, OneTooMany, Top, StacksAgree, Separated, DecoderIsBounded
<1>6. DocumentType'
  BY <1>1 DEF DocumentInv, DocumentType
<1> QED
  BY <1>1, <1>4, <1>5, <1>6 DEF DocumentInv

LEMMA DocumentInitially ==
    ASSUME DocumentInit
    PROVE  DocumentInv
<1> USE BoundsAssumption DEF BoundsAssumption
<1> DEFINE none == {}
<1>1. Root = [opener |-> "root", expect |-> "value", count |-> 0, names |-> none]
  BY DEF Root
<1>2. none \in {names \in SUBSET Names : IsFiniteSet(names)}
  BY FS_EmptySet
<1> HIDE DEF none
<1>3. Root \in Frame
  BY <1>1, <1>2 DEF Frame
<1>4. <<Root>> \in Seq(Frame)
  BY <1>3
<1>5. decoded \in Decoder /\ decoded.frames = <<Root>>
  BY <1>4 DEF DocumentInit, Decoder
<1>6. scan \in Scanner /\ scan.passing /\ scan.containers = <<>> /\ scan.nodes = 0
  BY DEF DocumentInit, Scanner
<1>7. DocumentType
  BY <1>5, <1>6 DEF DocumentInit, DocumentType
<1>8. FramesInv
  BY <1>1, <1>5 DEF FramesInv
<1>9. /\ decoded.nodes = 0 /\ decoded.depth = 0 /\ decoded.items = 0
      /\ decoded.members = 0 /\ decoded.chars = 0 /\ outcome = "reading"
  BY DEF DocumentInit
<1>10. StacksAgree
  BY <1>5, <1>6, <1>9 DEF StacksAgree
<1>11. DecoderIsBounded
  BY <1>9 DEF DecoderIsBounded
<1> QED
  BY <1>6, <1>7, <1>8, <1>9, <1>10, <1>11
  DEF DocumentInv, StoppedInv, RejectionsAreDue

LEMMA DocumentNextPreservesInv ==
    ASSUME DocumentInv, plain, [DocumentNext]_document
    PROVE  DocumentInv'
<1>1. ASSUME NEW name \in Names, NEW size \in Strings, ReadKey(name, size)
      PROVE  DocumentInv'
  BY <1>1, KeyPreservesInv
<1>2. ASSUME NEW size \in Strings, ReadString(size) PROVE DocumentInv'
  BY <1>2, StringPreservesInv
<1>3. ASSUME NEW size \in Numbers, ReadNumber(size) PROVE DocumentInv'
  BY <1>3, NumberPreservesInv
<1>4. ASSUME NEW kind \in {"array", "object"}, ReadOpen(kind) \/ ReadClose(kind)
      PROVE  DocumentInv'
  BY <1>4, OpenPreservesInv, ClosePreservesInv
<1>5. CASE ReadComma
  BY <1>5, CommaPreservesInv
<1>6. CASE ReadColon
  BY <1>6, ColonPreservesInv
<1>7. CASE EndDocument
  BY <1>7, DocumentEndPreservesInv
<1>8. CASE UNCHANGED document
  BY <1>8
  DEF document, DocumentInv, DocumentType, FramesInv, StoppedInv, OneTooMany, Top, Walk,
      NamesFit, StacksAgree, Separated, DecoderIsBounded, RejectionsAreDue, Complete
<1> QED
  BY <1>1, <1>2, <1>3, <1>4, <1>5, <1>6, <1>7, <1>8 DEF DocumentNext

\* The encoding of a document does not change while it is read.
LEMMA StaysPlain ==
    ASSUME [DocumentNext]_document
    PROVE  plain' = plain
BY Zenon
DEF DocumentNext, document, ReadKey, ReadString, ReadNumber, ReadOpen, ReadClose, ReadComma,
    ReadColon, Read, EndDocument

\* The inductive invariant of documents in plain UTF-8.
THEOREM DocumentInvIsInvariant == DocumentSpec => [](plain => DocumentInv)
<1>1. DocumentInit => (plain => DocumentInv)
  BY DocumentInitially
<1>2. (plain => DocumentInv) /\ [DocumentNext]_document => (plain => DocumentInv)'
  BY StaysPlain, DocumentNextPreservesInv
<1> QED
  BY <1>1, <1>2, PTL DEF DocumentSpec

\* While _preflight_json_bounds lets a document in plain UTF-8 pass, the decoder that will
\* read it builds at most the permitted nodes, items and members, one level more than the
\* permitted depth, and strings that fit the permitted bytes.
THEOREM DecoderStaysBounded == DocumentSpec => []DecoderIsBounded
<1>1. (plain => DocumentInv) => DecoderIsBounded
  BY DEF DocumentInv, DecoderIsBounded
<1> QED
  BY <1>1, DocumentInvIsInvariant, PTL

\* A complete document in plain UTF-8 that _unique_object and _validate_json_bounds would
\* accept is rejected only for a number that is written with more than eight characters
\* beside its digits.
THEOREM RejectionsAreExplained == DocumentSpec => []RejectionsAreDue
<1>1. (plain => DocumentInv) => RejectionsAreDue
  BY DEF DocumentInv, RejectionsAreDue
<1> QED
  BY <1>1, DocumentInvIsInvariant, PTL

\* In plain UTF-8 the scan and the decoder agree on the open containers: as long as both go
\* on, the stack of bytes is the stack of frames without the document, opener by opener, and
\* the commas of every container tell the items or the members that it has.
THEOREM StacksStayTogether ==
    DocumentSpec => [](plain /\ decoded.wellFormed /\ scan.passing => StacksAgree)
<1>1. (plain => DocumentInv) => (plain /\ decoded.wellFormed /\ scan.passing => StacksAgree)
  BY DEF DocumentInv
<1> QED
  BY <1>1, DocumentInvIsInvariant, PTL
=============================================================================
