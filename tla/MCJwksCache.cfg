SPECIFICATION JwksSpec
CONSTANTS
    Callers = {c1, c2}
    Kids = {k1, k2}
    CacheTTL = 1
    StaleIfError = 1
    MinForcedRefreshInterval = 2
    MaxBackoff = 2
    FetchTimeout = 1
    MaxClock = 4
    MaxRotations = 1
SYMMETRY CallerSymmetry
INVARIANTS
    RotationHonoured
PROPERTIES
    RemovedKeyEnds
