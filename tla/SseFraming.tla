----------------------------- MODULE SseFraming -----------------------------
(***************************************************************************)
(* How _stream_events cuts the bytes of a model stream into events: a      *)
(* bounded buffer is filled from transport chunks of any size, and every   *)
(* block before a blank line, LF LF or CR LF CR LF, is one event.          *)
(*                                                                         *)
(* The transport may split the same bytes into chunks in any way.  The     *)
(* reference definitions cut the whole stream at once, without a buffer    *)
(* and without chunks; the properties compare the two.                     *)
(***************************************************************************)
EXTENDS Integers, Sequences, FiniteSets, SequencesExt

CONSTANTS
    CR, LF,      \* the bytes that framing looks at
    Spaces,      \* the other bytes that bytes.strip drops: space, tab, VT and FF
    Streams,     \* the byte sequences a stream can consist of
    MaxEvent,    \* _MAXIMUM_EVENT_BYTES
    MaxWire      \* _MAXIMUM_STREAM_RESPONSE_BYTES

ASSUME FramingAssumption ==
    /\ CR # LF
    /\ {CR, LF} \cap Spaces = {}
    /\ MaxEvent \in Nat \ {0}
    /\ MaxWire \in Nat \ {0}
    /\ Streams \subseteq Seq(UNION {Range(s) : s \in Streams})

VARIABLES
    stream,    \* the bytes of the response, never changed
    received,  \* response_bytes: how many of them the transport has returned
    taken,     \* how many of those have gone through the buffer
    buffer,    \* the bytes of no complete event yet
    events,    \* the blocks found so far
    step       \* "receive", "fill", "frame", or how the framing ended

framing == <<stream, received, taken, buffer, events, step>>

FramingInit ==
    /\ stream \in Streams
    /\ received = 0
    /\ taken = 0
    /\ buffer = <<>>
    /\ events = <<>>
    /\ step = "receive"

-----------------------------------------------------------------------------
\* Separators.

Separators == { <<LF, LF>>, <<CR, LF, CR, LF>> }

SeparatorAt(bytes, i, separator) ==
    SubSeq(bytes, i, i + Len(separator) - 1) = separator

\* The positions of bytes where a separator starts, with the separator.
SeparatorsOf(bytes) ==
    {found \in (DOMAIN bytes) \X Separators :
        /\ found[1] + Len(found[2]) - 1 <= Len(bytes)
        /\ SeparatorAt(bytes, found[1], found[2])}

\* bytes.find of each separator, and the smaller position of the two.
FirstSeparator(bytes) ==
    CHOOSE found \in SeparatorsOf(bytes) :
        \A other \in SeparatorsOf(bytes) : found[1] <= other[1]

\* _possible_sse_suffix: a separator may go on from these bytes.
PossibleSuffix(bytes) == \E s \in Separators : IsPrefix(bytes, s)

\* bytes.strip leaves nothing of them.
IsBlank(bytes) == \A i \in DOMAIN bytes : bytes[i] \in {CR, LF} \cup Spaces

-----------------------------------------------------------------------------
\* The transport returns its next chunk.
Receive(size) ==
    /\ step = "receive"
    /\ received + size <= Len(stream)
    /\ received' = received + size
    /\ step' = IF received + size > MaxWire THEN "wire limit" ELSE "fill"
    /\ UNCHANGED <<stream, taken, buffer, events>>

\* The buffer takes what it has room for: an event and its separator.
Capacity == MaxEvent + 4 - Len(buffer)

Fill ==
    /\ step = "fill"
    /\ taken < received
    /\ LET left == received - taken
           take == IF left < Capacity THEN left ELSE Capacity
       IN  /\ buffer' = buffer \o SubSeq(stream, taken + 1, taken + take)
           /\ taken' = taken + take
    /\ step' = "frame"
    /\ UNCHANGED <<stream, received, events>>

ChunkIsUsed ==
    /\ step = "fill"
    /\ taken = received
    /\ step' = "receive"
    /\ UNCHANGED <<stream, received, taken, buffer, events>>

\* Fault: every separator has the length of LF LF.
FrameShort ==
    /\ step = "frame"
    /\ SeparatorsOf(buffer) # {}
    /\ LET found == FirstSeparator(buffer)
           block == SubSeq(buffer, 1, found[1] - 1)
       IN  /\ buffer' = SubSeq(buffer, found[1] + 2, Len(buffer))
           /\ events' = IF block = <<>> THEN events ELSE Append(events, block)
    /\ UNCHANGED <<stream, received, taken, step>>

\* One complete block leaves the buffer.
Frame ==
    /\ step = "frame"
    /\ SeparatorsOf(buffer) # {}
    /\ LET found == FirstSeparator(buffer)
           block == SubSeq(buffer, 1, found[1] - 1)
       IN  /\ buffer' = SubSeq(buffer, found[1] + Len(found[2]), Len(buffer))
           /\ IF Len(block) > MaxEvent
              THEN step' = "too large" /\ UNCHANGED events
              ELSE /\ events' = IF block = <<>> THEN events ELSE Append(events, block)
                   /\ UNCHANGED step
    /\ UNCHANGED <<stream, received, taken>>

\* What stays in the buffer beyond the size of an event must be the start of a
\* separator.
BufferOverflows ==
    Len(buffer) > MaxEvent /\ ~PossibleSuffix(SubSeq(buffer, MaxEvent + 1, Len(buffer)))

EndFrames ==
    /\ step = "frame"
    /\ SeparatorsOf(buffer) = {}
    /\ step' = IF BufferOverflows THEN "too large" ELSE "fill"
    /\ UNCHANGED <<stream, received, taken, buffer, events>>

EndOfStream ==
    /\ step = "receive"
    /\ received = Len(stream)
    /\ step' = IF IsBlank(buffer) THEN "complete" ELSE "inside event"
    /\ UNCHANGED <<stream, received, taken, buffer, events>>

-----------------------------------------------------------------------------
FramingNext ==
    \/ \E size \in 1 .. Len(stream) : Receive(size)
    \/ Fill \/ ChunkIsUsed \/ Frame \/ EndFrames \/ EndOfStream

FramingSpec == FramingInit /\ [][FramingNext]_framing

-----------------------------------------------------------------------------
\* The reference: the blocks of the whole stream that are not empty, cut at the
\* first separator of what is left; the bytes after the last separator remain.
Cut(bytes) ==
    LET end == Len(bytes) + 1
        cut[i \in 1 .. end] ==
            LET rest == SubSeq(bytes, i, Len(bytes))
            IN  IF SeparatorsOf(rest) = {} THEN [events |-> <<>>, remainder |-> rest]
                ELSE LET found == FirstSeparator(rest)
                         block == SubSeq(rest, 1, found[1] - 1)
                         tail  == cut[i + found[1] - 1 + Len(found[2])]
                     IN  IF block = <<>> THEN tail
                         ELSE [tail EXCEPT !.events = <<block>> \o @]
    IN  cut[1]

ReferenceEvents == Cut(stream).events
Remainder       == Cut(stream).remainder

\* bytes can be an event of at most size bytes and the start of its separator.
MayBecomeEvent(bytes, size) ==
    \E n \in 0 .. Len(bytes) :
        n <= size /\ PossibleSuffix(SubSeq(bytes, n + 1, Len(bytes)))

Oversized ==
    \/ \E i \in DOMAIN ReferenceEvents : Len(ReferenceEvents[i]) > MaxEvent
    \/ ~MayBecomeEvent(Remainder, MaxEvent)

-----------------------------------------------------------------------------
\* Chunk boundaries, in a separator or anywhere else, neither make nor move an
\* event: the events found are always the first ones of the whole stream.
EventsIgnoreChunks == IsPrefix(events, ReferenceEvents)

\* The documented limit: one event accepts MaxEvent bytes, and the framing
\* accepts a CR LF that crosses chunks.  A stream of such events is not too large.
LegalEventsAreAccepted == step = "too large" => Oversized
=============================================================================
