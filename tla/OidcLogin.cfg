SPECIFICATION Spec
CONSTANTS
    l1 = l1
    l2 = l2
    A = A
    B = B
    k1 = k1
    k2 = k2
    None = None
    Logins <- MCLogins
    Clients <- MCClients
    Kids <- MCKids
    Policies <- MCPolicies
    Leeway = 1
    Lifetime = 1
    MaxRotations = 1
    MaxTime = 1
SYMMETRY Symmetry
INVARIANTS
    LoginsAreGenuine
PROPERTIES
    FailuresAreExplained
CHECK_DEADLOCK FALSE
