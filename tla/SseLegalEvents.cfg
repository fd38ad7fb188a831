SPECIFICATION FramingSpec
CONSTANTS
    x = x
    CR = CR
    LF = LF
    Spaces = {}
    Streams <- MCStreams
    MaxEvent = 2
    MaxWire = 7
INVARIANTS
    LegalEventsAreAccepted
CHECK_DEADLOCK FALSE
