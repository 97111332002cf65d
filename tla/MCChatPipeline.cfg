CONSTANTS
    Requests = {"r1", "r2"}
    Keys = {"k1", "k2", "k3", "k4"}
    Workspace <- MCWorkspace
    Organization <- MCOrganization
    Asks <- MCAsks
    Answers <- MCAnswers
    Escaped = {"sql"}
    Model = "m1"
    Shadow = "p2"
    Providers = {"p1", "p2"}
    Engines <- MCEngines
    Settings <- MCSettings
    ShadowSlots = 1
    MaxReloads = 1
    Fallible <- MCFallible
SPECIFICATION Spec
INVARIANTS
    NoViolatingOutput
    InputJudged
    BilledIsCharged
    CacheWithinScope
CHECK_DEADLOCK FALSE
