SPECIFICATION CacheSpec
CONSTANTS
    Ids = {i1, i2}
    Names = {n1, n2}
    Callers = {c1, c2}
    Changes = {"put", "rename", "conflict", "patch"}
    Capacity = 3
    NegCapacity = 1
    MaxWrites = 2
    MaxLookups = 2
SYMMETRY CallerSymmetry
CHECK_DEADLOCK FALSE
INVARIANTS
    LookupIsCurrent
    CacheIsCurrent
