SPECIFICATION Spec
CONSTANTS
    p1 = p1
    p2 = p2
    Threshold = 1
    Cooldown = 1
    Providers = {p1, p2}
    StreamProviders = {p1}
    MediaProviders = {p1}
    Requests = {r1, r2}
    Kinds = {"stream", "media"}
    Chains <- MCChains
    MaxRetries = 1
    RetryCodes = {}
    Failures <- MCFailures
    MaxBreakers = 2
    MaxClock = 1
SYMMETRY RequestSymmetry
INVARIANTS
    OneCallAfterCancel
PROPERTIES
    RefinesBreakers
    BlamesOnlyProviderFaults
    EveryStepMovesOn
