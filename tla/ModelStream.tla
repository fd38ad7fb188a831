----------------------------- MODULE ModelStream -----------------------------
(***************************************************************************)
(* RouterClient.stream_model as a whole: the bytes of a response, cut into *)
(* blocks by SseFraming, and the stream protocol of RouterStream, which    *)
(* parses each block where the framing finds it.                           *)
(*                                                                         *)
(* The two are one generator in the code: while the consumer holds an      *)
(* event, no byte is read, and any error of either ends both.              *)
(***************************************************************************)
EXTENDS SseFraming

CONSTANTS
    Routes, NoRoute,  \* exact provider-models, and none
    Sizes,            \* sizes of one output event
    MaxEvents,        \* _MAXIMUM_STREAM_EVENTS
    MaxOutput         \* _MAXIMUM_STREAM_OUTPUT_BYTES

\* The framing limit of one event is less than the output limit of a stream, so
\* no single event exceeds the latter.
ASSUME StreamAssumption ==
    /\ NoRoute \notin Routes
    /\ MaxEvents \in Nat \ {0}
    /\ MaxOutput \in Nat
    /\ Sizes \subseteq 0 .. MaxOutput

VARIABLES
    stage,      \* RouterStream's pc
    call, started, visible, terminal, count, output, route, delivered, phase, error

Protocol == INSTANCE RouterStream WITH pc <- stage

parser   == <<call, started, visible, terminal, count, output, route>>
protocol == <<parser, stage, delivered, phase, error>>

StreamInit == FramingInit /\ Protocol!Init

-----------------------------------------------------------------------------
\* stream_model before its generators.
Request == Protocol!Request /\ UNCHANGED framing

\* _stream_events runs while the consumer waits.
Running == stage = "read"

RaiseOf(type) == Protocol!FramingFails /\ error' = type

ReceiveChunk(size) ==
    /\ Running
    /\ Receive(size)
    /\ IF step' = "wire limit" THEN RaiseOf("limit") ELSE UNCHANGED protocol

TransportBreaks ==
    /\ step = "receive"
    /\ Protocol!TransportBreaks
    /\ UNCHANGED framing

UseChunk == Running /\ (Fill \/ ChunkIsUsed) /\ UNCHANGED protocol

\* One block: too large, empty, or an event to parse.
ParseBlock ==
    /\ Running
    /\ Frame
    /\ CASE step' = "too large"     -> RaiseOf("limit")
         [] events' = events /\ step' = step -> UNCHANGED protocol
         [] OTHER                 -> Protocol!ReadEvent

EndBlocks ==
    /\ Running
    /\ EndFrames
    /\ IF step' = "too large" THEN RaiseOf("limit") ELSE UNCHANGED protocol

EndBytes ==
    /\ Running
    /\ EndOfStream
    /\ IF step' = "complete" THEN Protocol!EndOfStream ELSE RaiseOf("protocol")

\* The consumer pulls again; behind a completed event the buffer must be blank.
Resume ==
    /\ stage = "suspended"
    /\ IF terminal /\ ~IsBlank(buffer)
       THEN UNCHANGED parser /\ Protocol!Raise("protocol", Protocol!SafePhase)
       ELSE Protocol!Pull
    /\ UNCHANGED framing

Close == Protocol!Close /\ UNCHANGED framing

-----------------------------------------------------------------------------
StreamNext ==
    \/ Request \/ TransportBreaks \/ UseChunk \/ ParseBlock \/ EndBlocks \/ EndBytes
    \/ \E size \in 1 .. Len(stream) : ReceiveChunk(size)
    \/ Resume \/ Close

StreamSpec == StreamInit /\ [][StreamNext]_<<framing, protocol>>

-----------------------------------------------------------------------------
\* The phase of a failure tells the truth about the consumer, whatever bytes and
\* events the Router sends: "after" if and only if output was delivered.
PhaseTellsOutput == Protocol!PhaseTellsOutput

\* What the consumer receives is the beginning of one valid stream: one start on
\* a route the call allows, output, then at most one completed event, last and on
\* the same route.
DeliveredIsStream == Protocol!DeliveredIsStream

\* The iterator ends without an error only when the bytes of the whole response,
\* however they were split, are the blocks of the events the consumer received,
\* the last of them a completed event, with nothing but white space behind it;
\* and a failure after a completed event never permits a replacement call.
ReturnIsWholeStream ==
    /\ stage = "returned" =>
          /\ Len(delivered) = Len(ReferenceEvents)
          /\ delivered # <<>> /\ Last(delivered).kind = "completed"
          /\ IsBlank(Remainder) /\ ~Oversized
    /\ delivered # <<>> /\ Last(delivered).kind = "completed" => phase # "before"
    /\ Protocol!OutputSize <= MaxOutput
=============================================================================
