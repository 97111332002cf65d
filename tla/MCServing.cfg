SPECIFICATION ServingSpec
CONSTANTS
    Models = {"m1", "m2"}
    Configs <- MCConfigs
    Environments <- MCEnvironments
    Requests = {q1, q2}
    Loads <- MCLoads
    Scans = {s1, s2, s3, s4}
    PoolSize = 2
    Faults = {"init", "trap"}
    MaxChunks = 2
    Tasks = {t1, t2, t3}
    Owners = {o1, o2}
    Clients = {c1}
    MaxTasks = 2
    MaxPerOwner = 2
    TTL = 0
    PruneInterval = 1
    MaxClock = 2
CHECK_DEADLOCK FALSE
INVARIANTS
    DerivedIsCurrent
    ClosedLeavesNone
    CompleteMeansWhole
PROPERTIES
    ReloadTakesEffect
    EveryScanEnds
    NoGoroutineLeft
    EvictedAreStopped
    TerminalIsFinal
