SPECIFICATION FairSpec
CONSTANTS
    Interval = 2
    Timeouts <- MCTimeouts
    MaxTime = 8
    Ids = {a, b}
    NoId = NoId
INVARIANTS
    SubmittedOnce
    
PROPERTIES
    Polls
    CallEnds
CHECK_DEADLOCK FALSE
