SPECIFICATION FairSpec
CONSTANTS
    Interval = 2
    Timeouts <- MCTimeouts
    MaxTime = 5
    MaxJobs = 2
INVARIANTS
    UnnamedJobsAreAnnounced
PROPERTIES
    FinishedInTime
    Polls
    CallsEnd
CHECK_DEADLOCK FALSE
