------------------------ MODULE OntologyClient_proofs ------------------------
(***************************************************************************)
(* Proofs about the Ontology client, for every set of cursors, questions   *)
(* and statuses and every maximum_pages: an iterator sends no request      *)
(* twice and ends as its pages say; all its pages ask with one mapping; and *)
(* the result of a call tells what the service did.                        *)
(*                                                                         *)
(* The first part is about the table of operations: a request that is no   *)
(* GET can be meant for one operation only.                                *)
(***************************************************************************)
EXTENDS OntologyClient, TLAPS

-----------------------------------------------------------------------------
\* The segment that tells the operations of one method and length apart: the
\* third, or the last of a shorter path.
MarkAt(o) == IF Len(o.path) < 3 THEN Len(o.path) ELSE 3
Mark(o)   == o.path[MarkAt(o)]

SameShape(o, p) ==
    /\ o.method = p.method
    /\ Len(o.path) = Len(p.path)
    /\ Mark(o) = Mark(p)

\* What _workspace_path makes of up to three segments.
LEMMA WorkspacePaths ==
    /\ LET path == InWorkspace(<<>>)
       IN  DOMAIN path = 1 .. 2 /\ Len(path) = 2 /\ path[2] = Argument
    /\ \A w : LET path == InWorkspace(<<w>>)
              IN  DOMAIN path = 1 .. 3 /\ Len(path) = 3 /\ path[3] = w
    /\ \A w, x : LET path == InWorkspace(<<w, x>>)
                 IN  DOMAIN path = 1 .. 4 /\ Len(path) = 4 /\ path[3] = w
    /\ \A w, x, y : LET path == InWorkspace(<<w, x, y>>)
                    IN  DOMAIN path = 1 .. 5 /\ Len(path) = 5 /\ path[3] = w
BY DEF InWorkspace

\* No two operations share method, length and mark, unless both are GETs.
LEMMA ShapeDecides ==
    ASSUME NEW o \in Operations, NEW p \in Operations, p.method # "GET", SameShape(o, p)
    PROVE  o = p
BY WorkspacePaths, SMTT(60)
    DEF Operations, ServiceOperations, WorkspaceOperations, ObjectOperations,
        LinkOperations, BagOperations, FileOperations, ViewOperations, QueryOperations,
        Operation, Get, Post, Patch, Delete, SameShape, Mark, MarkAt, Argument

\* A path has its mark, unless it is that of the service itself.
LEMMA HasMark ==
    ASSUME NEW o \in Operations, o.method # "GET"
    PROVE  MarkAt(o) \in DOMAIN o.path
BY WorkspacePaths, SMTT(60)
    DEF Operations, ServiceOperations, WorkspaceOperations, ObjectOperations,
        LinkOperations, BagOperations, FileOperations, ViewOperations, QueryOperations,
        Operation, Get, Post, Patch, Delete, MarkAt, Argument

\* The mark is a word, but for the changes of a whole workspace.
LEMMA MarkIsWord ==
    ASSUME NEW o \in Operations, o.method # "GET"
    PROVE  Mark(o) = Argument
             <=> o.method \in {"PATCH", "DELETE"} /\ Len(o.path) = 2
BY WorkspacePaths, SMTT(60)
    DEF Operations, ServiceOperations, WorkspaceOperations, ObjectOperations,
        LinkOperations, BagOperations, FileOperations, ViewOperations, QueryOperations,
        Operation, Get, Post, Patch, Delete, Mark, MarkAt, Argument

\* Only operations that read have a page iterator.
LEMMA PagedOnlyReads ==
    ASSUME NEW o \in Operations, o.name \in Paged
    PROVE  ~Writes(o)
BY SMTT(60)
    DEF Operations, ServiceOperations, WorkspaceOperations, ObjectOperations,
        LinkOperations, BagOperations, FileOperations, ViewOperations, QueryOperations,
        Operation, Get, Post, Patch, Delete, Writes, Paged, Asking

RequestOf(o) == [method |-> o.method, path |-> o.path]

\* A request that is no GET is meant for the operation that built it, whatever
\* its arguments: no value of an argument turns it into another operation.
LEMMA MeantForOne ==
    ASSUME operation \in Operations, request = RequestOf(operation),
           NEW o \in Meant, o.method # "GET"
    PROVE  o = operation
<1> DEFINE p == operation
<1>1. /\ o \in Operations /\ o.method = p.method /\ Len(o.path) = Len(p.path)
      /\ \A i \in DOMAIN p.path : \/ o.path[i] = p.path[i]
                                  \/ Argument \in {o.path[i], p.path[i]}
    BY DEF Meant, RequestOf
<1>2. MarkAt(o) = MarkAt(p) /\ MarkAt(p) \in DOMAIN p.path
    BY <1>1, HasMark DEF MarkAt
<1>3. Mark(o) = Mark(p) \/ Argument \in {Mark(o), Mark(p)}
    BY <1>1, <1>2 DEF Mark
<1>4. Mark(o) = Argument <=> Mark(p) = Argument
    BY <1>1, MarkIsWord
<1>5. SameShape(o, p)
    BY <1>1, <1>3, <1>4 DEF SameShape
<1>6. QED  BY <1>1, <1>5, ShapeDecides

\* So the service applies what was called, or nothing.
LEMMA MeantWrites ==
    ASSUME operation \in Operations, request = RequestOf(operation), NEW o \in Meant
    PROVE  /\ Writes(o) <=> Writes(operation)
           /\ Writes(o) => o = operation
<1>1. o.method = operation.method
    BY DEF Meant, RequestOf
<1>2. CASE o.method = "GET"
    BY <1>1, <1>2 DEF Writes
<1>3. CASE o.method # "GET"
    BY <1>3, MeantForOne
<1>4. QED  BY <1>2, <1>3

-----------------------------------------------------------------------------
\* The pages.  The requests so far are the cursors used so far, except that of a
\* request still to come; and the page in hand is the one the last request got.
PagesType ==
    /\ pc \in {"pulled", "loaded", "suspended", "done"}
    /\ cursor \in MaybeCursor
    /\ following \in MaybeCursor
    /\ seen \in SUBSET Cursors
    /\ requests \in Seq(MaybeCursor)
    /\ delivered \in Seq(MaybeCursor)
    /\ pc # "done" => outcome = "none"

Used(c) == \E i \in DOMAIN requests : requests[i] = c

SeenInv ==
    /\ \A i \in DOMAIN requests : IF requests[i] = NoCursor THEN i = 1 ELSE requests[i] \in seen
    /\ pc # "done" => cursor \in seen \cup {NoCursor}
    /\ pc \in {"loaded", "suspended"} => \A c \in seen : Used(c)
    /\ pc = "pulled" => ~Used(cursor) /\ \A c \in seen \ {cursor} : Used(c)

PageInHand ==
    /\ pc = "pulled" =>
          /\ Len(delivered) = Len(requests)
          /\ requests # <<>> => delivered[Len(delivered)] = cursor /\ cursor # NoCursor
    /\ pc = "loaded" => Len(requests) = Len(delivered) + 1
    /\ pc = "suspended" =>
          /\ Len(delivered) = Len(requests) /\ delivered # <<>>
          /\ delivered[Len(delivered)] = following
          /\ following \notin seen

PagesInv == PagesType /\ SeenInv /\ PageInHand /\ NoRequestRepeats /\ OutcomeIsExact

-----------------------------------------------------------------------------
\* The call.  The service holds the request of the operation that was called, and
\* what it applied is told by where the request got.
CallType ==
    /\ operation \in Operations
    /\ paging \in BOOLEAN
    /\ paging => operation.name \in Paged
    /\ ~paging => pc = "done"
    /\ stage # "over" => result = "waiting"

RequestInv == service # "none" => request = RequestOf(operation)

ServiceInv ==
    /\ service = "applied" => Writes(operation) /\ applied = <<operation>>
    /\ service # "applied" => applied = <<>>
    /\ service = "read" => ~Writes(operation)

StageInv ==
    /\ stage = "ready" => service # "waiting" /\ (~paging => service = "none")
    /\ stage = "answered" =>
          /\ response.status \in Statuses
          /\ IsSuccess(response.status) => service \in {"read", "applied"}
          /\ ~IsSuccess(response.status) /\ response.status < 500 => service = "refused"

Values == {"object", "none", "bytes"}

NothingDone ==
    {"authentication", "authorization", "not found", "conflict", "validation", "http"}

ResultInv ==
    /\ result \in Values => service \in {"read", "applied"}
    /\ result \in NothingDone => applied = <<>> /\ service # "waiting"

CallInv == CallType /\ RequestInv /\ ServiceInv /\ StageInv /\ ResultInv

\* What the pages so far have asked, the next one asks too, if nothing was changed.
QuestionInv ==
    paging /\ operation.name \in Copying =>
        /\ \A q \in questions : q.fields = original
        /\ ~changed => \A q \in questions : q = Question

Inv == PagesInv /\ CallInv /\ QuestionInv

\* The errors of the client tell the status that the service refused with.
LEMMA ErrorOfRefusal ==
    ASSUME NEW status \in Statuses, ErrorOf(status) \in NothingDone
    PROVE  status < 500
BY ClientAssumption DEF ErrorOf, NothingDone

LEMMA ErrorIsNoValue ==
    ASSUME NEW status
    PROVE  ErrorOf(status) \notin Values
BY DEF ErrorOf, Values

\* What a response is worth: a value comes with a success, and an error that
\* excludes an effect with a status that only the service itself sends.
LEMMA ResultOfResponse ==
    ASSUME StageInv, stage = "answered", NEW answer, NEW value, value = ResultOf(answer)
    PROVE  /\ value \in Values => service \in {"read", "applied"}
           /\ value \in NothingDone => service = "refused"
<1>1. CASE ~IsSuccess(response.status) /\ response.body = "error"
  <2>1. value = ErrorOf(response.status)
      BY <1>1 DEF ResultOf, ErrorResult
  <2>2. "protocol" \notin Values \cup NothingDone
      BY DEF Values, NothingDone
  <2>3. value \notin Values
      BY <2>1, <2>2, ErrorIsNoValue
  <2>4. value \in NothingDone => response.status < 500
      BY <2>1, <2>2, ErrorOfRefusal DEF StageInv
  <2>5. QED  BY <1>1, <2>3, <2>4 DEF StageInv
<1>2. CASE ~IsSuccess(response.status) /\ response.body # "error"
  <2>1. value \in {"protocol", "ValueError", "RecursionError"}
      BY <1>2 DEF ResultOf, ErrorResult
  <2>2. QED  BY <2>1 DEF Values, NothingDone
<1>3. CASE IsSuccess(response.status)
  <2>1. value \in {"protocol", "response limit", "none", "bytes", "object", "ValueError"}
      BY <1>3 DEF ResultOf
  <2>2. QED  BY <1>3, <2>1 DEF StageInv, Values, NothingDone
<1>4. QED  BY <1>1, <1>2, <1>3

-----------------------------------------------------------------------------
\* The steps of the generator preserve what is known of the pages.
LEMMA InitialPages ==
    ASSUME ClientInit
    PROVE  PagesInv
<1>1. CASE paging
  <2>1. Init
      BY <1>1 DEF ClientInit
  <2>2. PagesType
      BY <2>1, PagesAssumption DEF Init, PagesType, MaybeCursor
  <2>3. QED
      BY <2>1, <2>2 DEF Init, PagesInv, SeenInv, Used, PageInHand, NoRequestRepeats, OutcomeIsExact
<1>2. CASE ~paging
  <2>1. /\ pc = "done" /\ cursor = NoCursor /\ following = NoCursor /\ seen = {}
        /\ requests = <<>> /\ delivered = <<>> /\ outcome = "none"
      BY <1>2 DEF ClientInit
  <2>2. QED
      BY <2>1 DEF PagesInv, PagesType, MaybeCursor, SeenInv, Used, PageInHand,
                  NoRequestRepeats, OutcomeIsExact
<1>3. QED  BY <1>1, <1>2 DEF ClientInit

\* The next request has not been sent, and it is without cursor only if it is the first.
LEMMA NextRequest ==
    ASSUME PagesInv, pc = "pulled", requests' = Append(requests, cursor),
           seen' = seen
    PROVE  /\ requests' \in Seq(MaybeCursor)
           /\ Len(requests') = Len(requests) + 1
           /\ NoRequestRepeats'
           /\ \A i \in DOMAIN requests' :
                 IF requests'[i] = NoCursor THEN i = 1 ELSE requests'[i] \in seen
           /\ \A c \in seen : Used(c)'
<1>1. /\ requests \in Seq(MaybeCursor) /\ cursor \in MaybeCursor
      /\ cursor \in seen \cup {NoCursor}
      /\ \A i \in DOMAIN requests : IF requests[i] = NoCursor THEN i = 1 ELSE requests[i] \in seen
      /\ \A i \in DOMAIN requests : requests[i] # cursor
      /\ \A c \in seen \ {cursor} : \E i \in DOMAIN requests : requests[i] = c
      /\ requests # <<>> => cursor # NoCursor
      /\ \A i, j \in DOMAIN requests : requests[i] = requests[j] => i = j
    BY DEF PagesInv, PagesType, SeenInv, PageInHand, Used, NoRequestRepeats
<1>2. /\ requests' \in Seq(MaybeCursor)
      /\ Len(requests') = Len(requests) + 1
      /\ DOMAIN requests' = DOMAIN requests \cup {Len(requests) + 1}
      /\ Len(requests) + 1 \notin DOMAIN requests
      /\ requests'[Len(requests) + 1] = cursor
      /\ \A i \in DOMAIN requests : requests'[i] = requests[i]
    BY <1>1
<1>3. NoRequestRepeats'
    BY <1>1, <1>2 DEF NoRequestRepeats
<1>4. ASSUME NEW i \in DOMAIN requests'
      PROVE  IF requests'[i] = NoCursor THEN i = 1 ELSE requests'[i] \in seen
  <2>1. CASE i \in DOMAIN requests
      BY <1>1, <1>2, <2>1
  <2>2. CASE i = Len(requests) + 1 /\ cursor # NoCursor
      BY <1>1, <1>2, <2>2
  <2>3. CASE i = Len(requests) + 1 /\ cursor = NoCursor
      BY <1>1, <1>2, <2>3
  <2>4. QED  BY <1>2, <2>1, <2>2, <2>3
<1>5. ASSUME NEW c \in seen
      PROVE  Used(c)'
    BY <1>1, <1>2 DEF Used
<1>6. QED  BY <1>2, <1>3, <1>4, <1>5

LEMMA LoadPageKeepsPages ==
    ASSUME PagesInv, NEW next \in MaybeCursor, LoadPage(next)
    PROVE  PagesInv'
<1>1. /\ pc = "pulled" /\ pc' = "loaded" /\ requests' = Append(requests, cursor)
      /\ following' = next
      /\ UNCHANGED <<cursor, seen, delivered, outcome>>
    BY DEF LoadPage
<1>2. /\ requests' \in Seq(MaybeCursor)
      /\ Len(requests') = Len(requests) + 1
      /\ NoRequestRepeats'
      /\ \A i \in DOMAIN requests' :
            IF requests'[i] = NoCursor THEN i = 1 ELSE requests'[i] \in seen
      /\ \A c \in seen : Used(c)'
    BY <1>1, NextRequest
<1>3. PagesType'
    BY <1>1, <1>2 DEF PagesInv, PagesType
<1>4. SeenInv'
    BY <1>1, <1>2 DEF PagesInv, SeenInv
<1>5. PageInHand'
    BY <1>1, <1>2 DEF PagesInv, PageInHand
<1>6. OutcomeIsExact'
    BY <1>1 DEF PagesInv, PagesType, OutcomeIsExact
<1>7. QED  BY <1>2, <1>3, <1>4, <1>5, <1>6 DEF PagesInv

LEMMA LoadFailsKeepsPages ==
    ASSUME PagesInv, LoadFails
    PROVE  PagesInv'
<1>1. /\ pc = "pulled" /\ pc' = "done" /\ requests' = Append(requests, cursor)
      /\ outcome' = "load error"
      /\ UNCHANGED <<cursor, following, seen, delivered>>
    BY DEF LoadFails, End
<1>2. /\ requests' \in Seq(MaybeCursor)
      /\ NoRequestRepeats'
      /\ \A i \in DOMAIN requests' :
            IF requests'[i] = NoCursor THEN i = 1 ELSE requests'[i] \in seen
    BY <1>1, NextRequest
<1>3. PagesType'
    BY <1>1, <1>2 DEF PagesInv, PagesType
<1>4. SeenInv'
    BY <1>1, <1>2 DEF PagesInv, SeenInv
<1>5. PageInHand' /\ OutcomeIsExact'
    BY <1>1 DEF PageInHand, OutcomeIsExact
<1>6. QED  BY <1>2, <1>3, <1>4, <1>5 DEF PagesInv

\* An end without a request: what remains is that its outcome is exact.
LEMMA EndKeepsPages ==
    ASSUME PagesInv, pc' = "done", OutcomeIsExact',
           UNCHANGED <<cursor, following, seen, requests, delivered>>
    PROVE  PagesInv'
<1>1. PagesType' /\ SeenInv' /\ PageInHand' /\ NoRequestRepeats'
    BY DEF PagesInv, PagesType, SeenInv, PageInHand, NoRequestRepeats
<1>2. QED  BY <1>1 DEF PagesInv

LEMMA DetectCycleKeepsPages ==
    ASSUME PagesInv, DetectCycle
    PROVE  PagesInv'
<1>1. /\ pc = "loaded" /\ pc' = "done" /\ outcome' = "cycle" /\ following \in seen
      /\ UNCHANGED <<cursor, following, seen, requests, delivered>>
    BY DEF DetectCycle, End
<1>2. following # NoCursor /\ Used(following)
    BY <1>1, PagesAssumption DEF PagesInv, PagesType, SeenInv
<1>3. OutcomeIsExact'
    BY <1>1, <1>2 DEF OutcomeIsExact, Used
<1>4. QED  BY <1>1, <1>3, EndKeepsPages

LEMMA YieldPageKeepsPages ==
    ASSUME PagesInv, YieldPage
    PROVE  PagesInv'
<1>1. /\ pc = "loaded" /\ pc' = "suspended" /\ following \notin seen
      /\ delivered' = Append(delivered, following)
      /\ UNCHANGED <<cursor, following, seen, requests, outcome>>
    BY DEF YieldPage
<1>2. /\ delivered' \in Seq(MaybeCursor) /\ delivered' # <<>>
      /\ Len(delivered') = Len(delivered) + 1
      /\ delivered'[Len(delivered')] = following
    BY <1>1 DEF PagesInv, PagesType
<1>3. PagesType'
    BY <1>1, <1>2 DEF PagesInv, PagesType
<1>4. SeenInv' /\ NoRequestRepeats'
    BY <1>1 DEF PagesInv, SeenInv, Used, NoRequestRepeats
<1>5. PageInHand'
    BY <1>1, <1>2 DEF PagesInv, PageInHand
<1>6. OutcomeIsExact'
    BY <1>1 DEF PagesInv, PagesType, OutcomeIsExact
<1>7. QED  BY <1>3, <1>4, <1>5, <1>6 DEF PagesInv

LEMMA ResumeKeepsPages ==
    ASSUME PagesInv, Resume
    PROVE  PagesInv'
<1>1. pc = "suspended" /\ UNCHANGED <<following, requests, delivered>>
    BY DEF Resume
<1>2. /\ Len(delivered) = Len(requests) /\ delivered # <<>>
      /\ delivered[Len(delivered)] = following /\ following \notin seen
    BY <1>1 DEF PagesInv, PageInHand
<1>3. CASE following = NoCursor
  <2>1. pc' = "done" /\ outcome' = "exhausted" /\ UNCHANGED <<cursor, seen>>
      BY <1>3 DEF Resume, End
  <2>2. OutcomeIsExact'
      BY <1>1, <1>2, <1>3, <2>1 DEF OutcomeIsExact
  <2>3. QED  BY <1>1, <2>1, <2>2, EndKeepsPages
<1>4. CASE following # NoCursor
  <2>1. /\ pc' = "pulled" /\ cursor' = following /\ seen' = seen \cup {following}
        /\ outcome' = outcome
      BY <1>4 DEF Resume
  <2>2. following \in Cursors
      BY <1>4 DEF PagesInv, PagesType, MaybeCursor
  <2>3. PagesType'
      BY <1>1, <2>1, <2>2 DEF PagesInv, PagesType, MaybeCursor
  <2>4. ~Used(following)
      BY <1>2, <1>4 DEF PagesInv, SeenInv, Used
  <2>5. SeenInv'
      BY <1>1, <2>1, <2>4 DEF PagesInv, SeenInv, Used
  <2>6. PageInHand'
      BY <1>1, <1>2, <1>4, <2>1 DEF PageInHand
  <2>7. NoRequestRepeats' /\ OutcomeIsExact'
      BY <1>1, <2>1 DEF PagesInv, PagesType, NoRequestRepeats, OutcomeIsExact
  <2>8. QED  BY <2>3, <2>5, <2>6, <2>7 DEF PagesInv
<1>5. QED  BY <1>3, <1>4

LEMMA ExceedLimitKeepsPages ==
    ASSUME PagesInv, ExceedLimit
    PROVE  PagesInv'
<1>1. /\ pc = "pulled" /\ pc' = "done" /\ outcome' = "limit" /\ Len(requests) = MaxPages
      /\ UNCHANGED <<cursor, following, seen, requests, delivered>>
    BY DEF ExceedLimit, End
<1>2. Len(delivered) = MaxPages /\ delivered[Len(delivered)] # NoCursor
    BY <1>1, PagesAssumption DEF PagesInv, PageInHand
<1>3. OutcomeIsExact'
    BY <1>1, <1>2 DEF OutcomeIsExact
<1>4. QED  BY <1>1, <1>3, EndKeepsPages

LEMMA CloseKeepsPages ==
    ASSUME PagesInv, Close
    PROVE  PagesInv'
<1>1. /\ pc' = "done" /\ outcome' = "closed"
      /\ UNCHANGED <<cursor, following, seen, requests, delivered>>
    BY DEF Close, End
<1>2. OutcomeIsExact'
    BY <1>1 DEF OutcomeIsExact
<1>3. QED  BY <1>1, <1>2, EndKeepsPages

LEMMA SamePages ==
    ASSUME PagesInv, UNCHANGED pages
    PROVE  PagesInv'
BY DEF PagesInv, pages, PagesType, SeenInv, Used, PageInHand, NoRequestRepeats, OutcomeIsExact

-----------------------------------------------------------------------------
\* The steps of a call.
LEMMA InitialCall ==
    ASSUME ClientInit
    PROVE  CallInv /\ QuestionInv
<1>1. /\ operation \in Operations /\ paging \in BOOLEAN
      /\ paging => operation.name \in Paged
    BY DEF ClientInit
<1>2. /\ ~paging => pc = "done"
      /\ stage = "ready" /\ service = "none" /\ result = "waiting"
      /\ questions = {} /\ applied = <<>>
    BY DEF ClientInit
<1>3. QED
    BY <1>1, <1>2 DEF CallInv, CallType, RequestInv, ServiceInv, StageInv, ResultInv,
                      Values, NothingDone, QuestionInv

\* While the call is open, a step of the client that ends it has to say only what
\* its result tells of the service.
LEMMA EndKeepsCall ==
    ASSUME CallInv, UNCHANGED <<operation, paging, request, service, applied>>,
           ~paging => pc' = "done", stage' = "over",
           result' \in Values => service \in {"read", "applied"},
           result' \in NothingDone => applied = <<>> /\ service # "waiting"
    PROVE  CallInv'
<1>1. CallType' /\ RequestInv' /\ ServiceInv'
    BY DEF CallInv, CallType, RequestInv, ServiceInv, RequestOf, Writes
<1>2. StageInv' /\ ResultInv'
    BY DEF StageInv, ResultInv
<1>3. QED  BY <1>1, <1>2 DEF CallInv

LEMMA RejectKeepsCall ==
    ASSUME CallInv, RejectArguments
    PROVE  CallInv'
<1>1. /\ stage = "ready" /\ stage' = "over" /\ result' = "ValueError"
      /\ UNCHANGED <<operation, paging, request, service, applied>>
    BY DEF RejectArguments, Building, arguments, exchange
<1>2. ~paging => pc' = "done"
    BY DEF RejectArguments, CallInv, CallType
<1>3. service # "waiting" /\ applied = <<>>
    BY <1>1, PagedOnlyReads DEF CallInv, CallType, StageInv, ServiceInv
<1>4. QED  BY <1>1, <1>2, <1>3, EndKeepsCall DEF Values

\* An open call whose last request has not been applied has no effect yet.
LEMMA SendKeepsCall ==
    ASSUME CallInv, Send
    PROVE  CallInv'
<1>1. /\ stage = "ready" /\ stage' = "sent" /\ service' = "waiting"
      /\ request' = RequestOf(operation)
      /\ UNCHANGED <<pc, operation, paging, response, result, applied>>
    BY DEF Send, Building, RequestOf, arguments, pages
<1>2. applied = <<>>
    BY <1>1, PagedOnlyReads DEF CallInv, CallType, StageInv, ServiceInv
<1>3. CallType' /\ RequestInv'
    BY <1>1 DEF CallInv, CallType, RequestInv, RequestOf
<1>4. ServiceInv' /\ StageInv'
    BY <1>1, <1>2 DEF ServiceInv, StageInv
<1>5. ResultInv'
    BY <1>1 DEF CallInv, CallType, ResultInv, Values, NothingDone
<1>6. QED  BY <1>3, <1>4, <1>5 DEF CallInv

\* The service may take the request when the client is gone: what its result
\* said then, it said with the service not waiting any more.
LEMMA ServiceKeepsCall ==
    ASSUME CallInv, service = "waiting",
           UNCHANGED <<pc, operation, paging, stage, request, response, result>>,
           \/ service' = "refused" /\ applied' = applied
           \/ service' = "read" /\ applied' = applied /\ ~Writes(operation)
           \/ service' = "applied" /\ applied' = <<operation>> /\ Writes(operation)
    PROVE  CallInv'
<1>1. applied = <<>>
    BY DEF CallInv, ServiceInv
<1>2. CallType' /\ RequestInv'
    BY DEF CallInv, CallType, RequestInv, RequestOf
<1>3. ServiceInv'
    BY <1>1 DEF ServiceInv, Writes
<1>4. stage # "ready"
    BY DEF CallInv, StageInv
<1>5. stage = "answered" => ~IsSuccess(response.status) /\ ~(response.status < 500)
    BY DEF CallInv, StageInv
<1>6. StageInv'
    BY <1>4, <1>5 DEF CallInv, StageInv, IsSuccess
<1>7. ResultInv'
    BY DEF CallInv, ResultInv
<1>8. QED  BY <1>2, <1>3, <1>6, <1>7 DEF CallInv

LEMMA TakeKeepsCall ==
    ASSUME CallInv, NEW o \in Operations, Take(o)
    PROVE  CallInv'
<1>1. /\ service = "waiting" /\ o \in Meant
      /\ UNCHANGED <<pc, operation, paging, stage, request, response, result>>
    BY DEF Take, arguments, pages
<1>2. operation \in Operations /\ request = RequestOf(operation)
    BY <1>1 DEF CallInv, CallType, RequestInv
<1>3. (Writes(o) <=> Writes(operation)) /\ (Writes(o) => o = operation)
    BY <1>1, <1>2, MeantWrites
<1>4. CASE Writes(o)
  <2>1. service' = "applied" /\ applied' = <<operation>>
      BY <1>1, <1>3, <1>4 DEF Take, CallInv, ServiceInv
  <2>2. QED  BY <1>1, <1>3, <1>4, <2>1, ServiceKeepsCall
<1>5. CASE ~Writes(o)
  <2>1. service' = "read" /\ applied' = applied
      BY <1>5 DEF Take
  <2>2. QED  BY <1>1, <1>3, <1>5, <2>1, ServiceKeepsCall
<1>6. QED  BY <1>4, <1>5

LEMMA RefuseKeepsCall ==
    ASSUME CallInv, Refuse
    PROVE  CallInv'
<1>1. /\ service = "waiting" /\ service' = "refused" /\ applied' = applied
      /\ UNCHANGED <<pc, operation, paging, stage, request, response, result>>
    BY DEF Refuse, arguments, pages
<1>2. QED  BY <1>1, ServiceKeepsCall

LEMMA RespondKeepsCall ==
    ASSUME CallInv, NEW status \in Statuses, NEW body, Respond(status, body)
    PROVE  CallInv'
<1>1. /\ stage = "sent" /\ stage' = "answered" /\ response'.status = status
      /\ IsSuccess(status) => service \in {"read", "applied"}
      /\ ~IsSuccess(status) /\ status < 500 => service = "refused"
      /\ UNCHANGED <<pc, operation, paging, request, service, applied, result>>
    BY DEF Respond, arguments, pages
<1>2. CallType' /\ RequestInv' /\ ServiceInv'
    BY <1>1 DEF CallInv, CallType, RequestInv, ServiceInv, RequestOf, Writes
<1>3. StageInv'
    BY <1>1 DEF StageInv, IsSuccess
<1>4. ResultInv'
    BY <1>1 DEF CallInv, ResultInv
<1>5. QED  BY <1>2, <1>3, <1>4 DEF CallInv

\* A failure, when it is known what its kind tells.
LEMMA FailKeepsCall ==
    ASSUME CallInv, NEW kind, Fail(kind), UNCHANGED <<arguments, exchange>>,
           kind \in Values => service \in {"read", "applied"},
           kind \in NothingDone => applied = <<>> /\ service # "waiting"
    PROVE  CallInv'
<1>1. /\ stage' = "over" /\ result' = kind
      /\ UNCHANGED <<operation, paging, request, service, applied>>
    BY DEF Fail, arguments, exchange
<1>2. ~paging => pc' = "done"
    BY DEF Fail, pages, CallInv, CallType
<1>3. QED  BY <1>1, <1>2, EndKeepsCall

LEMMA TransportFailsKeepsCall ==
    ASSUME CallInv, NEW kind \in {"transport", "protocol", "response limit"},
           TransportFails(kind)
    PROVE  CallInv'
<1>1. Fail(kind) /\ UNCHANGED <<arguments, exchange>>
    BY DEF TransportFails
<1>2. QED  BY <1>1, FailKeepsCall DEF Values, NothingDone

LEMMA ReadResponseKeepsCall ==
    ASSUME CallInv, ReadResponse
    PROVE  CallInv'
<1> DEFINE value == ResultOf(operation.answer)
<1>1. stage = "answered" /\ UNCHANGED <<arguments, exchange>>
    BY DEF ReadResponse
<1>2. /\ value \in Values => service \in {"read", "applied"}
      /\ value \in NothingDone => applied = <<>> /\ service # "waiting"
    BY <1>1, ResultOfResponse DEF CallInv, ServiceInv
<1>3. CASE paging
  <2> DEFINE kind == IF value = "object" THEN "protocol" ELSE value
  <2>1. Fail(kind)
      BY <1>3 DEF ReadResponse
  <2>2. kind \in Values \cup NothingDone => kind = value
      BY DEF Values, NothingDone
  <2>3. QED  BY <1>1, <1>2, <2>1, <2>2, FailKeepsCall
<1>4. CASE ~paging
  <2>1. Fail(value)
      BY <1>4 DEF ReadResponse, Fail
  <2>2. QED  BY <1>1, <1>2, <2>1, FailKeepsCall
<1>5. QED  BY <1>3, <1>4 DEF CallInv, CallType

LEMMA ReadPageKeepsCall ==
    ASSUME CallInv, NEW next \in MaybeCursor, ReadPage(next)
    PROVE  CallInv'
<1>1. /\ stage = "answered" /\ stage' = "ready" /\ paging /\ IsSuccess(response.status)
      /\ UNCHANGED <<operation, paging, request, service, applied, result>>
    BY DEF ReadPage, arguments, exchange
<1>2. service \in {"read", "applied"}
    BY <1>1 DEF CallInv, StageInv
<1>3. CallType' /\ RequestInv' /\ ServiceInv'
    BY <1>1 DEF CallInv, CallType, RequestInv, ServiceInv, RequestOf, Writes
<1>4. StageInv'
    BY <1>1, <1>2 DEF StageInv
<1>5. ResultInv'
    BY <1>1 DEF CallInv, ResultInv
<1>6. QED  BY <1>3, <1>4, <1>5 DEF CallInv

LEMMA GenerateKeepsCall ==
    ASSUME CallInv, Generate
    PROVE  CallInv'
<1>1. /\ stage = "ready" /\ paging /\ stage' = IF pc' = "done" THEN "over" ELSE "ready"
      /\ result' \in {result, "protocol", "page limit"}
      /\ UNCHANGED <<operation, paging, request, service, applied>>
    BY DEF Generate, arguments, exchange
<1>2. result = "waiting"
    BY <1>1 DEF CallInv, CallType
<1>3. result' \notin Values \cup NothingDone
    BY <1>1, <1>2 DEF Values, NothingDone
<1>4. CASE pc' = "done"
    BY <1>1, <1>3, <1>4, EndKeepsCall
<1>5. CASE pc' # "done"
  <2>1. result' = result /\ stage' = stage
      BY <1>1, <1>5 DEF Generate, DetectCycle, ExceedLimit, End
  <2>2. CallType' /\ RequestInv' /\ ServiceInv'
      BY <1>1, <2>1 DEF CallInv, CallType, RequestInv, ServiceInv, RequestOf, Writes
  <2>3. StageInv'
      BY <1>1, <2>1 DEF CallInv, StageInv
  <2>4. ResultInv'
      BY <1>3 DEF ResultInv
  <2>5. QED  BY <2>2, <2>3, <2>4 DEF CallInv
<1>6. QED  BY <1>4, <1>5

LEMMA SameCall ==
    ASSUME CallInv,
           UNCHANGED <<pc, operation, paging, stage, request, service, response, result,
                       applied>>
    PROVE  CallInv'
<1>1. CallType' /\ RequestInv' /\ ServiceInv'
    BY DEF CallInv, CallType, RequestInv, ServiceInv, RequestOf, Writes
<1>2. StageInv' /\ ResultInv'
    BY DEF CallInv, StageInv, IsSuccess, ResultInv
<1>3. QED  BY <1>1, <1>2 DEF CallInv

-----------------------------------------------------------------------------
\* Each step of the client preserves all three parts.
LEMMA NextKeepsPages ==
    ASSUME PagesInv, ClientNext
    PROVE  PagesInv'
<1>1. CASE RejectArguments
  <2>1. UNCHANGED <<cursor, following, seen, requests, delivered>>
      BY <1>1 DEF RejectArguments
  <2>2. CASE paging
    <3>1. pc' = "done" /\ outcome' = "rejected"
        BY <1>1, <2>2 DEF RejectArguments, End
    <3>2. OutcomeIsExact'
        BY <3>1 DEF OutcomeIsExact
    <3>3. QED  BY <2>1, <3>1, <3>2, EndKeepsPages
  <2>3. CASE ~paging
    <3>1. UNCHANGED pages
        BY <1>1, <2>1, <2>3 DEF RejectArguments, pages
    <3>2. QED  BY <3>1, SamePages
  <2>4. QED  BY <2>2, <2>3
<1>2. ASSUME NEW next \in MaybeCursor, ReadPage(next)
      PROVE  PagesInv'
    BY <1>2, LoadPageKeepsPages DEF ReadPage
<1>3. ASSUME NEW kind, Fail(kind)
      PROVE  PagesInv'
    BY <1>3, LoadFailsKeepsPages, SamePages DEF Fail
<1>4. CASE ReadResponse
  <2>1. UNCHANGED pages \/ \E kind : Fail(kind)
      BY <1>4 DEF ReadResponse
  <2>2. QED  BY <1>3, <2>1, SamePages
<1>5. ASSUME NEW kind, TransportFails(kind)
      PROVE  PagesInv'
    BY <1>3, <1>5 DEF TransportFails
<1>6. CASE Generate
    BY <1>6, YieldPageKeepsPages, ResumeKeepsPages, CloseKeepsPages, DetectCycleKeepsPages,
       ExceedLimitKeepsPages DEF Generate
<1>7. ASSUME \/ Send \/ Refuse \/ \E o \in Operations : Take(o)
             \/ \E status \in Statuses, body \in Bodies : Respond(status, body)
             \/ Caller
      PROVE  PagesInv'
  <2>1. UNCHANGED pages
      BY <1>7 DEF Send, Refuse, Take, Respond, Caller, Rebind, ChangeNested
  <2>2. QED  BY <2>1, SamePages
<1>8. QED
    BY <1>1, <1>2, <1>4, <1>5, <1>6, <1>7 DEF ClientNext, Client, Transport, Service

LEMMA NextKeepsCall ==
    ASSUME CallInv, ClientNext
    PROVE  CallInv'
<1>1. CASE Client
    BY <1>1, RejectKeepsCall, SendKeepsCall, ReadResponseKeepsCall, GenerateKeepsCall,
       ReadPageKeepsCall DEF Client
<1>2. CASE Transport
    BY <1>2, RespondKeepsCall, TransportFailsKeepsCall DEF Transport
<1>3. CASE Service
    BY <1>3, RefuseKeepsCall, TakeKeepsCall DEF Service
<1>4. CASE Caller
  <2>1. UNCHANGED <<pc, operation, paging, stage, request, service, response, result,
                    applied>>
      BY <1>4 DEF Caller, Rebind, ChangeNested, pages, arguments, exchange
  <2>2. QED  BY <2>1, SameCall
<1>5. QED  BY <1>1, <1>2, <1>3, <1>4 DEF ClientNext

\* Only sending adds a question, and an iterator of Copying sends its own copy of the
\* fields, with what the values inside hold.
LEMMA NextKeepsQuestion ==
    ASSUME QuestionInv, ClientNext
    PROVE  QuestionInv'
<1>1. CASE Send
  <2>1. /\ UNCHANGED <<operation, paging, original, nested, changed>>
        /\ questions' = questions \cup {Question}
      BY <1>1 DEF Send, arguments, callers
  <2>2. Question.fields = original /\ Question' = Question
      BY <2>1 DEF Question
  <2>3. QED  BY <2>1, <2>2 DEF QuestionInv
<1>2. ASSUME NEW value, ChangeNested(value)
      PROVE  QuestionInv'
  <2>1. UNCHANGED <<operation, paging, original, questions>> /\ changed'
      BY <1>2 DEF ChangeNested, arguments, exchange
  <2>2. QED  BY <2>1 DEF QuestionInv
<1>3. CASE ~Send /\ ~\E n \in Nested : ChangeNested(n)
  <2>1. UNCHANGED <<operation, paging, original, nested, changed, questions>>
      BY <1>3 DEF ClientNext, Client, Transport, Service, Caller, RejectArguments,
                  ReadResponse, Generate, ReadPage, Respond, TransportFails, Refuse,
                  Take, Rebind, arguments, callers, exchange
  <2>2. QED  BY <2>1 DEF QuestionInv, Question
<1>4. QED  BY <1>1, <1>2, <1>3

LEMMA StutterKeeps ==
    ASSUME Inv, UNCHANGED clientVars
    PROVE  Inv'
<1>1. PagesInv'
    BY SamePages DEF Inv, clientVars
<1>2. CallInv'
    BY SameCall DEF Inv, clientVars, pages, arguments, exchange
<1>3. QuestionInv'
    BY DEF Inv, QuestionInv, Question, clientVars, arguments, callers, exchange
<1>4. QED  BY <1>1, <1>2, <1>3 DEF Inv

\* The inductive invariant: pages, call and questions.
THEOREM InvHolds == ClientSpec => []Inv
<1>1. ClientInit => Inv
    BY InitialPages, InitialCall DEF Inv
<1>2. Inv /\ [ClientNext]_clientVars => Inv'
    BY NextKeepsPages, NextKeepsCall, NextKeepsQuestion, StutterKeeps DEF Inv
<1>3. QED  BY <1>1, <1>2, PTL DEF ClientSpec

\* No page is requested twice, whatever cursors the service returns, however it
\* changes between two pages: the iteration of iterate_cursor_pages cannot loop.
THEOREM RequestsDoNotRepeat == ClientSpec => []NoRequestRepeats
<1>1. Inv => NoRequestRepeats
    BY DEF Inv, PagesInv
<1>2. QED  BY <1>1, InvHolds, PTL

\* An iterator that ends tells exactly how: with every page, at the page limit with
\* more to come, or at a cursor that it has already used.
THEOREM OutcomesAreExact == ClientSpec => []OutcomeIsExact
<1>1. Inv => OutcomeIsExact
    BY DEF Inv, PagesInv
<1>2. QED  BY <1>1, InvHolds, PTL

\* All pages of a query or graph iterator ask with the fields it was made with, and
\* the same, unless the caller changed a value inside its mapping in place.
THEOREM QuestionsAreKept == ClientSpec => []QuestionIsKept
<1>1. Inv => QuestionIsKept
    BY DEF Inv, QuestionInv, QuestionIsKept
<1>2. QED  BY <1>1, InvHolds, PTL

\* A value tells that the operation called, and no other that its request could be
\* meant for, was applied once (or only read); a client error of the service tells that
\* nothing was applied or will be.
THEOREM ResultsTellEffect == ClientSpec => []EndTellsEffect
<1>1. Inv => EndTellsEffect
  <2>1. SUFFICES ASSUME Inv
                 PROVE  EndTellsEffect
      OBVIOUS
  <2>2. ASSUME result \in Values
        PROVE  applied = IF Writes(operation) THEN <<operation>> ELSE <<>>
      BY <2>1, <2>2 DEF Inv, CallInv, ServiceInv, ResultInv
  <2>3. ASSUME result \in NothingDone
        PROVE  applied = <<>> /\ service # "waiting"
      BY <2>1, <2>3 DEF Inv, CallInv, ResultInv
  <2>4. QED  BY <2>2, <2>3 DEF EndTellsEffect, Values, NothingDone
<1>2. QED  BY <1>1, InvHolds, PTL
=============================================================================
