SPECIFICATION Spec
CONSTANTS
    pub1 = pub1
    pub2 = pub2
    private = private
    Addresses <- MCAddresses
    Public <- MCPublic
    Resolutions <- MCResolutions
    Backends <- MCBackends
    Deadlines <- MCTimes
    Timeouts <- MCTimeouts
    Interval = 2
    Least = 1
    MaxTime = 6
    MaxOvertime = 3
    MaxLate = 4
    Never = 100
INVARIANTS
    ConnectsToValidated
    EndTellsAttempts
    EndsInTime
CHECK_DEADLOCK FALSE
