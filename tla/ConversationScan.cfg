SPECIFICATION ScanSpec
CONSTANTS
    a = a
    b = b
    short = short
    long = long
    CallIds <- MCCallIds
    Bodies <- MCBodies
    BodyBytes <- MCBodyBytes
    Inputs <- MCInputs
    LimitsSet <- MCLimitsSet
INVARIANTS
    ScanDecides
    PruneDecides
    PruneIsMaximal
CHECK_DEADLOCK FALSE
