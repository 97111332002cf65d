SPECIFICATION Spec
CONSTANTS
    Requests = {r1, r2}
    LifetimeLimit = 3
    MonthlyLimit = 2
    Estimates = {1, 2}
    Costs = {2}
    FailOpen = FALSE
    MaxMonth = 1
    MaxAges = 2
INVARIANTS
    NeverMissed
    BudgetsRespected
PROPERTIES
    AdmissionEnds
