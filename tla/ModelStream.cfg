SPECIFICATION StreamSpec
CONSTANTS
    x = x
    CR = CR
    LF = LF
    SP = SP
    Spaces = {SP}
    r1 = r1
    r2 = r2
    NoRoute = NoRoute
    Routes <- MCRoutes
    Sizes = {1, 2}
    Streams <- MCStreams
    MaxEvent = 2
    MaxWire = 14
    MaxEvents = 3
    MaxOutput = 2
SYMMETRY RouteSymmetry
INVARIANTS
    EventsIgnoreChunks
    PhaseTellsOutput
    DeliveredIsStream
    ReturnIsWholeStream
CHECK_DEADLOCK FALSE
