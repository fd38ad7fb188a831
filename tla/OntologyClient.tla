--------------------------- MODULE OntologyClient ---------------------------
(***************************************************************************)
(* The Ontology client: its operations as the requests they build, the one *)
(* pipeline that sends a request and reads its response, and the page      *)
(* iterators, which run the generator of CursorPages on that pipeline.     *)
(*                                                                         *)
(* A path is a sequence of segments in which an argument stands for any    *)
(* value: the arguments are quoted, so that no value reaches beyond its    *)
(* segment.  The Ontology Service takes a request, or refuses it, at any   *)
(* time, also when the client has given up.                                *)
(***************************************************************************)
EXTENDS CursorPages

CONSTANTS
    Questions,  \* the fields of the caller's request mapping
    Nested,     \* what the lists and mappings inside it may hold
    Statuses    \* HTTP statuses

ASSUME ClientAssumption == Statuses \subseteq 100 .. 599

VARIABLES
    operation,  \* the method that was called
    paging,     \* it was called by its page iterator
    original,   \* the arguments of the call, or the copied fields of its mapping
    asked,      \* the fields of the mapping the caller still holds
    nested,     \* what the values inside hold, which it shares with the caller
    changed,    \* history: the caller changed one of these in place
    stage,      \* "ready" to build a request, "sent", "answered" or "over"
    request,    \* the request on its way
    service,    \* what the service made of it: "none", "waiting", "read",
                \* "applied" or "refused"
    response,   \* its status and what its body is
    result,     \* what the caller got
    questions,  \* history: the questions sent
    applied     \* history: the operations that the service applied

arguments == <<operation, paging, original>>
callers   == <<asked, nested, changed>>
pages     == <<pc, cursor, following, seen, requests, delivered, outcome>>
exchange  == <<request, service, response, questions, applied>>
clientVars == <<pages, arguments, callers, stage, exchange, result>>

-----------------------------------------------------------------------------
\* The operations: their requests, by the type of their body and of their answer.
Operation(name, method, path, content, answer) ==
    [name |-> name, method |-> method, path |-> path, content |-> content, answer |-> answer]

Argument == "argument"

Get(name, path)    == Operation(name, "GET", path, "none", "object")
Post(name, path)   == Operation(name, "POST", path, "json", "object")
Patch(name, path)  == Operation(name, "PATCH", path, "json", "object")
Delete(name, path) == Operation(name, "DELETE", path, "none", "optional")

\* _workspace_path; the prefix of _service_path is common to all.
InWorkspace(parts) == <<"workspaces", Argument>> \o parts

ServiceOperations ==
    { Get("get_service", <<>>),
      Get("get_ontology", <<"ontology">>),
      Operation("apply_ontology", "PUT", <<"ontology">>, "document", "object"),
      Get("get_effective_ontology", <<"ontology", "effective">>),
      Operation("validate_ontology", "POST", <<"ontology", "validations">>,
                "document", "object"),
      Post("create_ontology_migration", <<"ontology", "migrations">>) }

WorkspaceOperations ==
    { Get("list_workspaces", <<"workspaces">>),
      Post("create_workspace", <<"workspaces">>),
      Get("get_workspace", InWorkspace(<<>>)),
      Patch("update_workspace", InWorkspace(<<>>)),
      Delete("delete_workspace", InWorkspace(<<>>)) }

ObjectOperations ==
    { Post("create_object", InWorkspace(<<"objects">>)),
      Get("get_object", InWorkspace(<<"objects", Argument>>)),
      Patch("update_object", InWorkspace(<<"objects", Argument>>)),
      Delete("delete_object", InWorkspace(<<"objects", Argument>>)) }

LinkOperations ==
    { Post("create_link", InWorkspace(<<"links">>)),
      Get("get_link", InWorkspace(<<"links", Argument>>)),
      Patch("update_link", InWorkspace(<<"links", Argument>>)),
      Delete("delete_link", InWorkspace(<<"links", Argument>>)) }

BagOperations ==
    { Get("list_metadata_bags", InWorkspace(<<"bags">>)),
      Post("create_metadata_bag", InWorkspace(<<"bags">>)),
      Get("get_metadata_bag", InWorkspace(<<"bags", Argument>>)),
      Patch("update_metadata_bag", InWorkspace(<<"bags", Argument>>)),
      Delete("delete_metadata_bag", InWorkspace(<<"bags", Argument>>)) }

FileOperations ==
    { Operation("upload_file", "POST", InWorkspace(<<"files">>), "binary", "object"),
      Get("get_file_metadata", InWorkspace(<<"files", Argument>>)),
      Delete("delete_file", InWorkspace(<<"files", Argument>>)),
      Operation("download_file", "GET", InWorkspace(<<"files", Argument, "content">>),
                "none", "bytes") }

ViewOperations ==
    { Get("list_saved_views", InWorkspace(<<"views">>)),
      Post("create_saved_view", InWorkspace(<<"views">>)),
      Get("get_saved_view", InWorkspace(<<"views", Argument>>)),
      Patch("update_saved_view", InWorkspace(<<"views", Argument>>)),
      Delete("delete_saved_view", InWorkspace(<<"views", Argument>>)),
      Get("open_saved_view_graph", InWorkspace(<<"views", Argument, "graph">>)) }

QueryOperations ==
    { Post("query_workspace", InWorkspace(<<"query">>)),
      Post("count_workspace", InWorkspace(<<"count">>)),
      Post("expand_graph", InWorkspace(<<"graph">>)),
      Get("read_changed_since", InWorkspace(<<"changes">>)),
      Post("apply_service_bulk_mutation", <<"bulk">>),
      Get("get_job", <<"jobs", Argument>>) }

Operations ==
    ServiceOperations \cup WorkspaceOperations \cup ObjectOperations \cup
    LinkOperations \cup BagOperations \cup FileOperations \cup ViewOperations \cup
    QueryOperations

\* The operations with a page iterator.
Paged ==
    {"list_workspaces", "list_metadata_bags", "list_saved_views",
     "open_saved_view_graph", "query_workspace", "expand_graph", "read_changed_since"}

\* Those whose iterator copies the request mapping, and may start at a cursor.
Copying == {"query_workspace", "expand_graph"}

\* Those whose iterator holds a list of the caller's.
Expanding == {"open_saved_view_graph", "read_changed_since"}

\* The posted requests that the service only reads.
Asking == {"validate_ontology", "query_workspace", "count_workspace", "expand_graph"}

Writes(o) == o.method # "GET" /\ o.name \notin Asking

-----------------------------------------------------------------------------
\* The response of the transport and what the client makes of it.

\* Fault: the first server error is taken for an error of the client.
ErrorOfLate(status) ==
    CASE status = 401                  -> "authentication"
      [] status = 403                  -> "authorization"
      [] status = 404                  -> "not found"
      [] status = 409                  -> "conflict"
      [] status \in {400, 413, 415, 422} -> "validation"
      [] status > 500                  -> "unavailable"
      [] OTHER                         -> "http"

ErrorOf(status) ==
    CASE status = 401                  -> "authentication"
      [] status = 403                  -> "authorization"
      [] status = 404                  -> "not found"
      [] status = 409                  -> "conflict"
      [] status \in {400, 413, 415, 422} -> "validation"
      [] status >= 500                 -> "unavailable"
      [] OTHER                         -> "http"

\* A body is an "error" object, another JSON "object", one that is a valid
\* "page", "binary", "empty" or "large"; a response whose headers or content type
\* are not what they must be is "invalid".  A body is "huge" if it has an integer of
\* too many digits for int(), and "deep" if it is an error object whose details are
\* nested deeper than the recursion limit.
Bodies ==
    {"error", "object", "page", "binary", "empty", "large", "invalid", "huge", "deep"}

IsSuccess(status) == status \in 200 .. 299

\* An error response: the decoder raises a plain ValueError at a huge integer, and
\* _redact_json a RecursionError at deep details.  Nothing turns them into errors of
\* the client.
ErrorResult ==
    CASE response.body = "error" -> ErrorOf(response.status)
      [] response.body = "huge"  -> "ValueError"
      [] response.body = "deep"  -> "RecursionError"
      [] OTHER                   -> "protocol"

ResultOf(answer) ==
    IF response.body = "invalid" THEN "protocol"
    ELSE IF ~IsSuccess(response.status) THEN ErrorResult
    ELSE CASE response.body = "large" -> "response limit"
           [] answer = "optional" /\ response.body = "empty" -> "none"
           [] answer = "bytes" /\ response.body = "binary" -> "bytes"
           [] answer # "bytes" /\ response.body \in {"error", "object", "page", "deep"}
                  -> "object"
           [] answer # "bytes" /\ response.body = "huge" -> "ValueError"
           [] OTHER -> "protocol"

-----------------------------------------------------------------------------
ClientInit ==
    /\ operation \in Operations
    /\ paging \in IF operation.name \in Paged THEN BOOLEAN ELSE {FALSE}
    /\ IF paging
       THEN Init /\ (operation.name \notin Copying => cursor = NoCursor)
       ELSE /\ pc = "done" /\ cursor = NoCursor /\ following = NoCursor /\ seen = {}
            /\ requests = <<>> /\ delivered = <<>> /\ outcome = "none"
    /\ asked \in Questions /\ original = asked
    /\ nested \in Nested /\ changed = FALSE
    /\ stage = "ready"
    /\ request = [method |-> "none", path |-> <<>>] /\ service = "none"
    /\ response = [status |-> 0, body |-> "none"] /\ result = "waiting"
    /\ questions = {} /\ applied = <<>>

\* A request has begun: of the one operation, or of the next page.
Building ==
    /\ stage = "ready"
    /\ paging => pc = "pulled" /\ Len(requests) < MaxPages

\* Fault: the iterator reads the caller's mapping for each page.
QuestionOfCaller == [fields |-> asked, nested |-> nested]

\* What a request asks.  dict(request) copies the fields, not the values inside.
Question == [fields |-> original, nested |-> nested]

\* A path value, header, document or page bound is invalid, or a later page asks what
\* the caller has made invalid.
RejectArguments ==
    /\ Building
    /\ IF paging
       THEN (requests = <<>> \/ Question \notin questions) /\ End("rejected")
       ELSE /\ \/ \E i \in DOMAIN operation.path : operation.path[i] = Argument
               \/ operation.content # "none"
            /\ UNCHANGED <<pc, outcome>>
    /\ stage' = "over" /\ result' = "ValueError"
    /\ UNCHANGED <<cursor, following, seen, requests, delivered>>
    /\ UNCHANGED <<arguments, callers, exchange>>

Send ==
    /\ Building
    /\ request' = [method |-> operation.method, path |-> operation.path]
    /\ service' = "waiting"
    /\ questions' = questions \cup {Question}
    /\ stage' = "sent"
    /\ UNCHANGED <<pages, arguments, callers, response, result, applied>>

\* The operations that a request can be meant for, for some values of arguments.
Meant ==
    { o \in Operations :
        /\ o.method = request.method
        /\ Len(o.path) = Len(request.path)
        /\ \A i \in DOMAIN request.path :
              LET mine == o.path[i]
              IN  mine = request.path[i] \/ Argument \in {mine, request.path[i]} }

Take(o) ==
    /\ service = "waiting"
    /\ o \in Meant
    /\ IF Writes(o)
       THEN service' = "applied" /\ applied' = Append(applied, o)
       ELSE service' = "read" /\ UNCHANGED applied
    /\ UNCHANGED <<pages, arguments, callers, stage, request, response, result, questions>>

Refuse ==
    /\ service = "waiting"
    /\ service' = "refused"
    /\ UNCHANGED <<pages, arguments, callers, stage, request, response, result, questions,
                   applied>>

\* A success comes from a service that took the request, a redirection or a client
\* error from one that refused it; a server error may come from a gateway.
Respond(status, body) ==
    /\ stage = "sent"
    /\ IsSuccess(status) => service \in {"read", "applied"}
    /\ ~IsSuccess(status) /\ status < 500 => service = "refused"
    /\ stage' = "answered"
    /\ response' = [status |-> status, body |-> body]
    /\ UNCHANGED <<pages, arguments, callers, request, service, questions, applied, result>>

\* The iterator's load fails with the error of its request.
Fail(kind) ==
    /\ stage' = "over" /\ result' = kind
    /\ IF paging THEN LoadFails ELSE UNCHANGED pages

\* No response, or one whose headers the transport rejects.
TransportFails(kind) ==
    /\ stage = "sent"
    /\ Fail(kind)
    /\ UNCHANGED <<arguments, callers, exchange>>

\* The response of a single operation, or one that gives no page.
ReadResponse ==
    /\ stage = "answered"
    /\ LET value == ResultOf(operation.answer)
       IN  IF paging
           THEN /\ ~(value = "object" /\ response.body = "page")
                /\ Fail(IF value = "object" THEN "protocol" ELSE value)
           ELSE /\ stage' = "over" /\ result' = value
                /\ UNCHANGED pages
    /\ UNCHANGED <<arguments, callers, exchange>>

ReadPage(next) ==
    /\ stage = "answered"
    /\ paging
    /\ IsSuccess(response.status) /\ response.body = "page"
    /\ LoadPage(next)
    /\ stage' = "ready"
    /\ UNCHANGED <<arguments, callers, exchange, result>>

\* The generator between its requests, with the errors of the client.
Generate ==
    /\ stage = "ready"
    /\ paging
    /\ \/ (YieldPage \/ Resume \/ Close) /\ UNCHANGED result
       \/ DetectCycle /\ result' = "protocol"
       \/ ExceedLimit /\ result' = "page limit"
    /\ stage' = IF pc' = "done" THEN "over" ELSE "ready"
    /\ UNCHANGED <<arguments, callers, exchange>>

\* The caller runs before the first page and between two pages.
CallerRuns == paging /\ stage = "ready" /\ (pc = "suspended" \/ requests = <<>>)

\* It binds a field of the mapping it passed to another value.
Rebind(question) ==
    /\ CallerRuns
    /\ operation.name \in Copying
    /\ question # asked
    /\ asked' = question
    /\ UNCHANGED <<pages, arguments, nested, changed, stage, exchange, result>>

\* It changes a list or mapping inside, or the list it passed, in place.
ChangeNested(value) ==
    /\ CallerRuns
    /\ operation.name \in Copying \cup Expanding
    /\ value # nested
    /\ nested' = value
    /\ changed' = TRUE
    /\ UNCHANGED <<pages, arguments, asked, stage, exchange, result>>

-----------------------------------------------------------------------------
Client ==
    \/ RejectArguments \/ Send \/ ReadResponse \/ Generate
    \/ \E next \in MaybeCursor : ReadPage(next)

Transport ==
    \/ \E status \in Statuses, body \in Bodies : Respond(status, body)
    \/ \E kind \in {"transport", "protocol", "response limit"} : TransportFails(kind)

Service == Refuse \/ \E o \in Operations : Take(o)

Caller == (\E q \in Questions : Rebind(q)) \/ (\E n \in Nested : ChangeNested(n))

ClientNext == Client \/ Transport \/ Service \/ Caller

ClientSpec == ClientInit /\ [][ClientNext]_clientVars

\* The transport returns or raises within its timeout.
ClientFairSpec ==
    ClientSpec /\ WF_clientVars(Client) /\ WF_clientVars(Transport)

-----------------------------------------------------------------------------
\* What the caller gets tells what happened to its request, although the service
\* may act after the client has left: a result means that exactly the operation
\* it called was applied, once, and no other one the request could be meant for;
\* and a client error of the service that nothing was or will be.  The transport,
\* protocol, limit and unavailable errors leave it open, and so do a ValueError,
\* which invalid arguments and a response that cannot be read share, and a
\* RecursionError.
EndTellsEffect ==
    /\ result \in {"object", "none", "bytes"} =>
          applied = IF Writes(operation) THEN <<operation>> ELSE <<>>
    /\ result \in {"authentication", "authorization", "not found", "conflict",
                   "validation", "http"} =>
          applied = <<>> /\ service # "waiting"

\* All pages of a query or graph iterator ask with the fields it was made with,
\* whatever the caller does to its request mapping; and they all ask the same, unless
\* the caller changed a value inside that mapping in place.
QuestionIsKept ==
    paging /\ operation.name \in Copying =>
        /\ \A q \in questions : q.fields = original
        /\ ~changed => \A q, r \in questions : q = r
=============================================================================
