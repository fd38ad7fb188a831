SPECIFICATION Spec
CONSTANTS
    t1 = t1
    t2 = t2
    t3 = t3
    k1 = k1
    k2 = k2
    NoState = NoState
    Tasks <- MCTasks
    Keys <- MCKeys
    KeyOf <- MCKeyOf
    Sizes <- MCSizes
    SizeLimit = 2
    MaxConversations = 1
INVARIANTS
    StoredIsLineage
    LostOnlyToOverlap
    FullOnlyAfterDelete
