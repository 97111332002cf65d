SPECIFICATION Spec
CONSTANTS
    Threads = {"a", "b", "c"}
    Scopes <- MCScopes
    ClientIds = {"1"}
    DestructiveVerbs <- MCDestructive
    EnvOf <- MCEnvOf
    Structured <- MCStructured
    Leavers = {"b"}
    Batches <- MCBatches
    Targets <- MCTargets
    targetOrder <- MCOrder
    UnsafePath = {".."}
    MaxListPages = 2
    MaxCachedTokens = 1
CHECK_DEADLOCK FALSE
INVARIANTS
    AnswerIsOwn
    CancelReachesOwn
    NoStrayProcess
    JudgedAsRead
    ProductionKept
    CredentialsOwn
PROPERTIES
    TrackedWhileInFlight
    EveryRequestEnds
