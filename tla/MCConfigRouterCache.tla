------------------------ MODULE MCConfigRouterCache ------------------------
(* ConfigRouterCache for TLC: requests are interchangeable.                *)
EXTENDS TLC

CONSTANTS Ids, Names, Callers, Changes, Capacity, NegCapacity, MaxWrites, MaxLookups

VARIABLES
    db, hist, admin, completed, changed, positive, negative, inflight, epoch,
    expired, caller, lookups, uses

Cache == INSTANCE ConfigRouterCache

ASSUME CacheConstants == Cache!CacheAssumption

CacheSpec == Cache!Spec

\* What a lookup returns is not older than the last invalidation of its own
\* reference that had ended when it began (ConfigRouterCache).
LookupIsCurrent == Cache!LookupIsCurrent

\* Between changes no resolved config is cached from before the last change to
\* its row (ConfigRouterCache).
CacheIsCurrent == Cache!CacheIsCurrent

CallerSymmetry == Permutations(Callers)
=============================================================================
