SPECIFICATION Spec
CONSTANTS
    Threshold = 2
    Cooldown = 2
    Providers = {p1}
    Calls = {c1, c2, c3}
    MaxClock = 5
    MaxProbes = 3
    MaxFailures = 3
SYMMETRY CallSymmetry
INVARIANTS
    OneLiveProbe
    NeverWedged
PROPERTIES
    ProbeDecides
    NoAdmissionInCooldown
