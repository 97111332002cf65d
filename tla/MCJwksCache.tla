---------------------------- MODULE MCJwksCache ----------------------------
(* JwksCache for TLC: requests are interchangeable.                        *)
EXTENDS TLC

CONSTANTS
    Callers, Kids, CacheTTL, StaleIfError, MinForcedRefreshInterval, MaxBackoff,
    FetchTimeout, MaxClock, MaxRotations

VARIABLES now, idp, rotations, lastSeen, cache, fetch, caller

Jwks == INSTANCE JwksCache

ASSUME JwksConstants == Jwks!JwksAssumption

JwksSpec == Jwks!Spec

\* A request whose own forced fetch succeeded is not rejected for a kid that the
\* provider had since the request began (JwksCache).
RotationHonoured == Jwks!RotationHonoured

\* A key that the provider removed is accepted for a bounded time (JwksCache).
RemovedKeyEnds == Jwks!RemovedKeyEnds

CallerSymmetry == Permutations(Callers)
=============================================================================
