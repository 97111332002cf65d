SPECIFICATION Spec
CONSTANTS
    Requests = {r1, r2}
    LifetimeLimit = 2
    MonthlyLimit = 0
    Estimates = {1}
    Costs = {1}
    FailOpen = TRUE
    MaxMonth = 0
    MaxAges = 1
SYMMETRY RequestSymmetry
INVARIANTS
    NeverMissed
