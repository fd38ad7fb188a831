SPECIFICATION EitherSpec
CONSTANTS
    a = a
    b = b
    short = short
    long = long
    r1 = r1
    r2 = r2
    NoRoute = NoRoute
    CallIds <- MCCallIds
    Bodies <- MCBodies
    BodyBytes <- MCBodyBytes
    Routes <- MCRoutes
    FirstStates <- MCFirstStates
    Questions <- MCQuestions
    Answers <- MCAnswers
    Compactions <- MCCompactions
    ExecutorResults <- MCExecutorResults
    ResultBodies <- MCBodies
    Limits <- MCLimits
    Policies <- MCCustom
    Executor = "custom"
    MaxModelTurns = 2
    MaxMessages = 5
    MaxCallBytes = 24
    CallBytes = 3
    ExclusionBytes = 2
INVARIANTS
    SentContextIsPaired
    NewestExchangeIsSent
PROPERTIES
    PrefixIsKept
    EffectsAreRecorded
    ReuseIsFoundAtEnd
    KeepsRouteContract
    RunEnds
