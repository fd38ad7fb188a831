SPECIFICATION ClientFairSpec
CONSTANTS
    c1 = c1
    c2 = c2
    c3 = c3
    q1 = q1
    q2 = q2
    n1 = n1
    n2 = n2
    NoCursor = NoCursor
    Cursors <- MCCursors
    Questions <- MCQuestions
    Nested <- MCNested
    Statuses <- MCStatuses
    MaxPages = 3
INVARIANTS
    EndTellsEffect
    QuestionIsKept
    NoRequestRepeats
    OutcomeIsExact
PROPERTIES
    IterationEnds
CHECK_DEADLOCK FALSE
