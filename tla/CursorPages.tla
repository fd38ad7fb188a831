----------------------------- MODULE CursorPages -----------------------------
(***************************************************************************)
(* iterate_cursor_pages, the generator behind every page iterator of       *)
(* RouterClient and OntologyClient: it loads one page for each pull of its *)
(* consumer, follows the cursor of the page, and gives up at a repeated    *)
(* cursor or after maximum_pages pages.                                    *)
(*                                                                         *)
(* The service may answer each request with any next cursor: pages can     *)
(* change between two requests.                                            *)
(***************************************************************************)
EXTENDS Integers, Sequences, FiniteSets

CONSTANTS
    Cursors,    \* the cursors of the service and of the caller
    NoCursor,   \* None: the first page, or the end of the sequence
    MaxPages    \* maximum_pages

ASSUME PagesAssumption ==
    /\ NoCursor \notin Cursors
    /\ MaxPages \in Nat \ {0}

VARIABLES
    pc,         \* "pulled", "loaded" or "suspended" at the yield; or "done"
    cursor,     \* the cursor of the next request
    following,  \* the next cursor of the page in hand
    seen,       \* the cursors used so far
    requests,   \* history: the cursors sent to the service
    delivered,  \* history: the next cursors of the pages the consumer got
    outcome     \* how the iteration ended

MaybeCursor == Cursors \cup {NoCursor}

\* Fault: the caller's first cursor does not count as used.
InitWithNothingSeen ==
    /\ pc = "pulled"
    /\ cursor \in MaybeCursor
    /\ following = NoCursor
    /\ seen = {}
    /\ requests = <<>>
    /\ delivered = <<>>
    /\ outcome = "none"

Init ==
    /\ pc = "pulled"
    /\ cursor \in MaybeCursor
    /\ following = NoCursor
    /\ seen = {cursor} \ {NoCursor}
    /\ requests = <<>>
    /\ delivered = <<>>
    /\ outcome = "none"

End(result) == pc' = "done" /\ outcome' = result

-----------------------------------------------------------------------------
\* load(cursor) returns a page, and next_cursor(page) its next cursor.
LoadPage(next) ==
    /\ pc = "pulled"
    /\ Len(requests) < MaxPages
    /\ requests' = Append(requests, cursor)
    /\ following' = next
    /\ pc' = "loaded"
    /\ UNCHANGED <<cursor, seen, delivered, outcome>>

\* The request fails, or its response is no valid page.
LoadFails ==
    /\ pc = "pulled"
    /\ Len(requests) < MaxPages
    /\ requests' = Append(requests, cursor)
    /\ End("load error")
    /\ UNCHANGED <<cursor, following, seen, delivered>>

\* The page leads back: it is withheld.
DetectCycle ==
    /\ pc = "loaded"
    /\ following \in seen
    /\ End("cycle")
    /\ UNCHANGED <<cursor, following, seen, requests, delivered>>

YieldPage ==
    /\ pc = "loaded"
    /\ following \notin seen
    /\ delivered' = Append(delivered, following)
    /\ pc' = "suspended"
    /\ UNCHANGED <<cursor, following, seen, requests, outcome>>

\* The consumer pulls again.
Resume ==
    /\ pc = "suspended"
    /\ \/ /\ following = NoCursor
          /\ End("exhausted")
          /\ UNCHANGED <<cursor, seen>>
       \/ /\ following # NoCursor
          /\ pc' = "pulled"
          /\ cursor' = following
          /\ seen' = seen \cup {following}
          /\ UNCHANGED outcome
    /\ UNCHANGED <<following, requests, delivered>>

\* Fault: the limit is raised before the page is known to be the last.
ExceedLimitEarly ==
    /\ pc \in {"pulled", "suspended"}
    /\ Len(requests) = MaxPages
    /\ End("limit")
    /\ UNCHANGED <<cursor, following, seen, requests, delivered>>

\* Fault: the limit is one page later than the loop.
ExceedLimitLate ==
    /\ pc = "pulled"
    /\ Len(requests) > MaxPages
    /\ End("limit")
    /\ UNCHANGED <<cursor, following, seen, requests, delivered>>

\* The loop is over and the sequence is not.
ExceedLimit ==
    /\ pc = "pulled"
    /\ Len(requests) = MaxPages
    /\ End("limit")
    /\ UNCHANGED <<cursor, following, seen, requests, delivered>>

\* The consumer drops the iterator, which closes the generator at its yield.
Close ==
    /\ pc = "suspended"
    /\ End("closed")
    /\ UNCHANGED <<cursor, following, seen, requests, delivered>>

-----------------------------------------------------------------------------
\* No request is sent twice, whatever cursors the service returns: only a first
\* request may be without cursor, and no later cursor repeats an earlier one.
NoRequestRepeats ==
    \A i, j \in DOMAIN requests : requests[i] = requests[j] => i = j

\* How an iteration ends tells the consumer whether it has every page: only
\* "exhausted" does, and it withholds none; "limit" is never raised at the end of
\* a sequence, and "cycle" never at a cursor that is new.
OutcomeIsExact ==
    /\ outcome = "exhausted" =>
          /\ Len(delivered) = Len(requests)
          /\ delivered[Len(delivered)] = NoCursor
    /\ outcome = "limit" =>
          /\ Len(delivered) = MaxPages
          /\ delivered[Len(delivered)] # NoCursor
    /\ outcome = "cycle" =>
          \E i \in DOMAIN requests : requests[i] = following /\ following # NoCursor

\* A consumer that goes on gets to an end, even from a service with endless pages.
IterationEnds == <>(pc = "done")
=============================================================================
