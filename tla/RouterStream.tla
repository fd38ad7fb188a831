---------------------------- MODULE RouterStream ----------------------------
(***************************************************************************)
(* RouterClient.stream_model: one streamed model call, from its response   *)
(* headers to the end of its two generators, _stream_events (which parses  *)
(* framed events and keeps the stream protocol) inside                     *)
(* _validated_stream_events (which checks routes).                         *)
(*                                                                         *)
(* The Router may send any events in any order and the transport may break *)
(* anywhere; module SseFraming says how bytes become the events here.  A   *)
(* text delta and a tool call are one kind of event, output, with a size.  *)
(***************************************************************************)
EXTENDS Integers, Sequences, FiniteSets, SequencesExt

CONSTANTS
    Routes, NoRoute,  \* exact provider-models, and none
    Sizes,            \* sizes of one output event
    MaxEvents,        \* _MAXIMUM_STREAM_EVENTS
    MaxOutput         \* _MAXIMUM_STREAM_OUTPUT_BYTES

VARIABLES
    call,       \* the call's exact selector or none, and its excluded routes
    pc,         \* "request", "read", "suspended" at the yield, or the end
    started,    \* _stream_events: a start event was parsed
    visible,    \* both generators: an output event was parsed
    terminal,   \* _stream_events: a completed event was parsed
    count,      \* event_count
    output,     \* output_bytes
    route,      \* _validated_stream_events: the route of the start event
    delivered,  \* the events the consumer has received
    phase,      \* the phase of the error the consumer got
    error       \* its type

vars == <<call, pc, started, visible, terminal, count, output, route, delivered,
          phase, error>>
parser == <<call, started, visible, terminal, count, output, route>>

Start(r)     == [kind |-> "start", route |-> r, size |-> 0]
Output(n)    == [kind |-> "output", route |-> NoRoute, size |-> n]
Completed(r) == [kind |-> "completed", route |-> r, size |-> 0]

\* Only an assignment call excludes routes.
Calls == [selector : Routes, excluded : {{}}]
         \cup [selector : {NoRoute}, excluded : SUBSET Routes]

Init ==
    /\ call \in Calls
    /\ pc = "request"
    /\ started = FALSE
    /\ visible = FALSE
    /\ terminal = FALSE
    /\ count = 0
    /\ output = 0
    /\ route = NoRoute
    /\ delivered = <<>>
    /\ phase = "none"
    /\ error = "none"

Raise(type, p) ==
    /\ pc' = "failed"
    /\ error' = type
    /\ phase' = p
    /\ UNCHANGED delivered

\* An error inside a stream: what the consumer may already have used decides.
SafePhase == IF visible' THEN "after" ELSE "uncertain"

-----------------------------------------------------------------------------
\* stream_model before its generators.

Respond ==
    /\ pc = "request"
    /\ pc' = "read"
    /\ UNCHANGED <<parser, delivered, phase, error>>

\* The transport fails, or the body of an error status cannot be read: the error
\* says that the result is uncertain and has no phase of its own.
RequestFails ==
    /\ pc = "request"
    /\ Raise("transport", "none")
    /\ UNCHANGED parser

\* An error status with a valid error envelope.
RequestRejected ==
    /\ pc = "request"
    /\ Raise("api", "before")
    /\ UNCHANGED parser

\* Invalid headers, status, media type or error envelope.
ResponseInvalid ==
    /\ pc = "request"
    /\ Raise("protocol", "uncertain")
    /\ UNCHANGED parser

-----------------------------------------------------------------------------
\* _stream_events reads one framed event.

Reading == pc = "read" /\ ~terminal

Counted == Reading /\ count < MaxEvents /\ count' = count + 1

Deliver(event) ==
    /\ pc' = "suspended"
    /\ delivered' = Append(delivered, event)
    /\ UNCHANGED <<phase, error>>

\* _validate_result_route.
RouteAccepted(r) ==
    /\ call.selector # NoRoute => r = call.selector
    /\ r \notin call.excluded

ReadStart(r) ==
    /\ Counted
    /\ ~started
    /\ started' = TRUE
    /\ route' = r
    /\ UNCHANGED <<call, visible, terminal, output>>
    /\ \/ RouteAccepted(r) /\ Deliver(Start(r))
       \/ ~RouteAccepted(r) /\ Raise("protocol", SafePhase)

ReadOutput(size) ==
    /\ Counted
    /\ started
    /\ visible' = TRUE
    /\ output' = output + size
    /\ UNCHANGED <<call, started, terminal, route>>
    /\ \/ output + size <= MaxOutput /\ Deliver(Output(size))
       \/ output + size > MaxOutput /\ Raise("limit", SafePhase)

\* Fault: the route of the completed event is not compared.
ReadCompletedAnywhere(r) ==
    /\ Counted
    /\ started
    /\ terminal' = TRUE
    /\ UNCHANGED <<call, started, visible, output, route>>
    /\ Deliver(Completed(r))

ReadCompleted(r) ==
    /\ Counted
    /\ started
    /\ terminal' = TRUE
    /\ UNCHANGED <<call, started, visible, output, route>>
    /\ \/ r = route /\ Deliver(Completed(r))
       \/ r # route /\ Raise("protocol", SafePhase)

\* Fault: a native error always permits a replacement call.
ReadErrorBefore ==
    /\ Counted
    /\ started
    /\ UNCHANGED <<call, started, visible, terminal, output, route>>
    /\ Raise("api", "before")

\* A typed native error event ends a started stream.
ReadError ==
    /\ Counted
    /\ started
    /\ UNCHANGED <<call, started, visible, terminal, output, route>>
    /\ Raise("api", IF visible THEN "after" ELSE "before")

\* An event of no valid form, another event before the start, or a second start.
ReadInvalid ==
    /\ Counted
    /\ UNCHANGED <<call, started, visible, terminal, output, route>>
    /\ Raise("protocol", SafePhase)

TooManyEvents ==
    /\ Reading
    /\ count = MaxEvents
    /\ UNCHANGED parser
    /\ Raise("limit", SafePhase)

\* Non-blank bytes after the completed event, in its chunk or in a later one.
DataAfterTerminal ==
    /\ pc = "read" /\ terminal
    /\ UNCHANGED parser
    /\ Raise("protocol", SafePhase)

\* A framing error or a wire limit, before or after the completed event.
FramingFails ==
    /\ pc = "read"
    /\ UNCHANGED parser
    /\ \E type \in {"protocol", "limit"} : Raise(type, SafePhase)

\* The chunk iterator raises, before or after the completed event.
TransportBreaks ==
    /\ pc = "read"
    /\ UNCHANGED parser
    /\ Raise("stream", SafePhase)

\* Fault: a stream may end without its completed event.
EndOfStreamAnywhere ==
    /\ pc = "read"
    /\ pc' = "returned"
    /\ UNCHANGED <<parser, delivered, phase, error>>

\* The bytes are all used, and blank from the last event on.
EndOfStream ==
    /\ pc = "read"
    /\ UNCHANGED parser
    /\ \/ /\ terminal
          /\ pc' = "returned"
          /\ UNCHANGED <<delivered, phase, error>>
       \/ /\ ~terminal
          /\ Raise("stream", SafePhase)

-----------------------------------------------------------------------------
\* The consumer.

Pull ==
    /\ pc = "suspended"
    /\ pc' = "read"
    /\ UNCHANGED <<parser, delivered, phase, error>>

\* It drops the iterator, which closes the generators at their yield.
Close ==
    /\ pc = "suspended"
    /\ pc' = "closed"
    /\ UNCHANGED <<parser, delivered, phase, error>>

-----------------------------------------------------------------------------
Request == Respond \/ RequestFails \/ RequestRejected \/ ResponseInvalid

\* One framed event.
ReadEvent ==
    \/ \E r \in Routes : ReadStart(r) \/ ReadCompleted(r)
    \/ \E size \in Sizes : ReadOutput(size)
    \/ ReadError \/ ReadInvalid \/ TooManyEvents \/ DataAfterTerminal

-----------------------------------------------------------------------------
HasOutput == \E i \in DOMAIN delivered : delivered[i].kind = "output"

\* The phase of a failure tells the truth about the consumer: "after" if and only
\* if it has received output, so a caller that makes a replacement call on
\* "before" alone can never repeat output that was already shown.
PhaseTellsOutput ==
    pc = "failed" /\ phase # "none" => (phase = "after" <=> HasOutput)

\* What the consumer receives is the beginning of one valid stream, whatever the
\* Router sends: one start, on a route the call allows, then output, then at most
\* one completed event, last and on the same route.
DeliveredIsStream ==
    \A i \in DOMAIN delivered :
        /\ delivered[i].kind = "start" <=> i = 1
        /\ delivered[i].kind = "start" => RouteAccepted(delivered[i].route)
        /\ delivered[i].kind = "completed" =>
              i = Len(delivered) /\ delivered[i].route = delivered[1].route

OutputSize == FoldLeft(LAMBDA total, event : total + event.size, 0, delivered)
=============================================================================
