SPECIFICATION FairSpec
CONSTANTS
    t1 = t1
    t2 = t2
    t3 = t3
    Turns <- MCTurns
    Sticky <- MCSticky
    Workers = 2
INVARIANTS
    ExecutedOnce
    EndTellsExecution
PROPERTIES
    TurnsEnd
CHECK_DEADLOCK FALSE
