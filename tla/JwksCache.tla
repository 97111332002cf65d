----------------------------- MODULE JwksCache -----------------------------
(***************************************************************************)
(* The OIDC signing keys (JWTAuthenticator in internal/gateway/jwt.go and  *)
(* jwks_cache.go): requests verify tokens against a cached key set that    *)
(* shared fetches replace, in the background once it is older than         *)
(* CacheTTL, forced by a token with an unknown kid, with a backoff after   *)
(* failures and a grace in which old keys stay usable.                     *)
(*                                                                         *)
(* A key set is a set of kids.  The identity provider rotates its keys and *)
(* answers, or does not, at any time.  Closing call.done and the return of *)
(* those who wait for it are one step.                                     *)
(***************************************************************************)
EXTENDS Integers, FiniteSets

CONSTANTS
    Callers,        \* requests with a token
    Kids,           \* key ids
    CacheTTL,
    StaleIfError,
    MinForcedRefreshInterval,
    MaxBackoff,     \* jwksMaxBackoff; jwksInitialBackoff is 1
    FetchTimeout,   \* the HTTP client's timeout
    MaxClock,       \* bound: the clock
    MaxRotations    \* bound: changes of the provider's keys

JwksAssumption ==
    /\ CacheTTL \in Nat \ {0} /\ StaleIfError \in Nat
    /\ MinForcedRefreshInterval \in Nat /\ MaxBackoff \in Nat \ {0}
    /\ FetchTimeout \in Nat \ {0}
    /\ MaxClock \in Nat /\ MaxRotations \in Nat

VARIABLES
    now,
    idp,        \* the provider's key set
    rotations,
    lastSeen,   \* history: kid -> when the provider last dropped it
    cache,      \* the authenticator's keys, fetchedAt, lastForcedRefresh,
                \* failures and retryAt
    fetch,      \* authenticator.inflight and the goroutine behind it
    caller      \* request -> its token's kid and the locals of Authenticate

vars == <<now, idp, rotations, lastSeen, cache, fetch, caller>>
providerVars == <<idp, rotations, lastSeen>>

NoFetch == [pc |-> "none", keys |-> {}, startedAt |-> 0]

\* A waiting request has the keys it held when it began to wait.  own: its
\* forced call started the fetch; failed: that fetch failed; since (history):
\* the provider had the kid ever since the request began.
NewCall(kid) ==
    [pc |-> "call", kid |-> kid, forced |-> FALSE, held |-> {}, own |-> FALSE,
     failed |-> FALSE, since |-> kid \in idp]

\* NewJWTAuthenticator.  The zero lastForcedRefresh is long ago.
Init ==
    /\ now = 0
    /\ idp \in {{k} : k \in Kids}
    /\ rotations = 0
    /\ lastSeen = [k \in Kids |-> 0]
    /\ cache = [keys |-> {}, fetchedAt |-> 0, failures |-> 0, retryAt |-> 0,
                lastForced |-> 0 - MinForcedRefreshInterval]
    /\ fetch = NoFetch
    /\ caller = [c \in Callers |-> [NewCall(CHOOSE k \in Kids : TRUE)
                                        EXCEPT !.pc = "idle", !.since = FALSE]]

TypeOK ==
    /\ now \in 0..MaxClock
    /\ idp \in (SUBSET Kids) \ {{}}
    /\ cache \in [keys : SUBSET Kids, fetchedAt : 0..MaxClock,
                  failures : 0..MaxBackoff, retryAt : 0..(MaxClock + MaxBackoff),
                  lastForced : (0 - MinForcedRefreshInterval)..MaxClock]
    /\ fetch.pc \in {"none", "request", "answered"}
    /\ caller \in [Callers ->
          [pc : {"idle", "call", "wait", "accepted", "rejected"}, kid : Kids,
           forced : BOOLEAN, held : SUBSET Kids, own : BOOLEAN,
           failed : BOOLEAN, since : BOOLEAN]]

-----------------------------------------------------------------------------
(* currentKeys                                                             *)

Age == now - cache.fetchedAt

\* Mutant: keys are kept however old they are.
UsableForever == cache.keys

\* dropExpiredKeysLocked.
Usable == IF Age < CacheTTL + StaleIfError THEN cache.keys ELSE {}

Fresh == Age < CacheTTL
BackingOff == now < cache.retryAt

startFetchLocked ==
    fetch' = IF fetch.pc # "none" THEN fetch
             ELSE [NoFetch EXCEPT !.pc = "request", !.startedAt = now]

ForcedAllowed(c) ==
    /\ caller[c].forced
    /\ ~BackingOff
    /\ now - cache.lastForced >= MinForcedRefreshInterval

\* Authenticate: a kid that the keys do not have is looked for once more, in
\* a forced call.
Resolve(call, keys) ==
    IF call.kid \in keys THEN [call EXCEPT !.pc = "accepted"]
    ELSE IF ~call.forced THEN [call EXCEPT !.pc = "call", !.forced = TRUE, !.held = {}]
    ELSE [call EXCEPT !.pc = "rejected"]

\* Usable keys are returned at once; expired ones start a refresh.
UseKeys(c) ==
    /\ caller[c].pc = "call"
    /\ Usable # {} /\ ~ForcedAllowed(c)
    /\ IF ~Fresh /\ ~BackingOff THEN startFetchLocked ELSE UNCHANGED fetch
    /\ caller' = [caller EXCEPT ![c] = Resolve(@, Usable)]
    /\ UNCHANGED <<now, providerVars, cache>>

Wait(c) ==
    /\ startFetchLocked
    /\ cache' = [cache EXCEPT !.keys = Usable,
                              !.lastForced = IF caller[c].forced THEN now ELSE @]
    /\ caller' = [caller EXCEPT ![c].pc = "wait", ![c].held = Usable,
                                ![c].own = caller[c].forced /\ fetch.pc = "none"]
    /\ UNCHANGED <<now, providerVars>>

\* An unknown kid waits for a fetch, with the keys at hand as a fallback.
ForceRefresh(c) ==
    /\ caller[c].pc = "call"
    /\ Usable # {} /\ ForcedAllowed(c)
    /\ Wait(c)

\* Nothing usable: wait for a fetch.
ColdFetch(c) ==
    /\ caller[c].pc = "call"
    /\ Usable = {} /\ ~BackingOff
    /\ Wait(c)

\* Nothing usable and the last fetch failed a moment ago: its error.
FailFast(c) ==
    /\ caller[c].pc = "call"
    /\ Usable = {} /\ BackingOff
    /\ cache' = [cache EXCEPT !.keys = {}]
    /\ caller' = [caller EXCEPT ![c].pc = "rejected", ![c].failed = TRUE]
    /\ UNCHANGED <<now, providerVars, fetch>>

\* ctx.Done() while it waits.
Canceled(c) ==
    /\ caller[c].pc = "wait"
    /\ caller' = [caller EXCEPT ![c].pc = "rejected", ![c].failed = TRUE]
    /\ UNCHANGED <<now, providerVars, cache, fetch>>

-----------------------------------------------------------------------------
(* runFetch                                                                *)

\* The provider answers with the keys it has at that moment.
Answer ==
    /\ fetch.pc = "request"
    /\ fetch' = [fetch EXCEPT !.pc = "answered", !.keys = idp]
    /\ UNCHANGED <<now, providerVars, cache, caller>>

\* Mutant: those who forced the fetch go on with the keys they held.
ReturnHeld(call) ==
    IF call.pc # "wait" THEN call
    ELSE Resolve(call, IF call.held = {} THEN fetch.keys ELSE call.held)

\* call.keys, for everyone who waits.
ReturnFetched(call) ==
    IF call.pc # "wait" THEN call ELSE Resolve(call, fetch.keys)

\* The answer replaces the key set.
FetchSucceeds ==
    /\ fetch.pc = "answered"
    /\ cache' = [cache EXCEPT !.keys = fetch.keys, !.fetchedAt = now,
                              !.failures = 0, !.retryAt = 0]
    /\ fetch' = NoFetch
    /\ caller' = [c \in Callers |-> ReturnFetched(caller[c])]
    /\ UNCHANGED <<now, providerVars>>

jwksBackoff(failures) == IF 2^(failures - 1) < MaxBackoff THEN 2^(failures - 1) ELSE MaxBackoff

\* A failed fetch leaves a forced call the keys it held, others its error.
ReturnFailed(call) ==
    IF call.pc # "wait" THEN call
    ELSE IF call.held # {} THEN Resolve([call EXCEPT !.failed = TRUE], call.held)
    ELSE [call EXCEPT !.pc = "rejected", !.failed = TRUE]

\* No answer within the timeout, an error status or an unusable document.
\* Failures are counted up to where the backoff no longer grows.
FetchFails ==
    /\ fetch.pc # "none"
    /\ LET failures == IF cache.failures < MaxBackoff THEN cache.failures + 1
                       ELSE MaxBackoff
       IN  cache' = [cache EXCEPT !.failures = failures,
                                  !.retryAt = now + jwksBackoff(failures)]
    /\ fetch' = NoFetch
    /\ caller' = [c \in Callers |-> ReturnFailed(caller[c])]
    /\ UNCHANGED <<now, providerVars>>

-----------------------------------------------------------------------------
(* The requests, the provider and the clock.                               *)

Authenticate(c, kid) ==
    /\ caller[c].pc \in {"idle", "accepted", "rejected"}
    /\ caller' = [caller EXCEPT ![c] = NewCall(kid)]
    /\ UNCHANGED <<now, providerVars, cache, fetch>>

Rotate(keys) ==
    /\ rotations < MaxRotations
    /\ keys # idp
    /\ idp' = keys
    /\ rotations' = rotations + 1
    /\ lastSeen' = [k \in Kids |-> IF k \in idp THEN now ELSE lastSeen[k]]
    /\ caller' = [c \in Callers |->
                     [caller[c] EXCEPT !.since = @ /\ caller[c].kid \in keys]]
    /\ UNCHANGED <<now, cache, fetch>>

\* The HTTP client's timeout ends a fetch.
Tick ==
    /\ now < MaxClock
    /\ fetch.pc # "none" => now < fetch.startedAt + FetchTimeout
    /\ now' = now + 1
    /\ UNCHANGED <<providerVars, cache, fetch, caller>>

currentKeys(c) == UseKeys(c) \/ ForceRefresh(c) \/ ColdFetch(c) \/ FailFast(c)

runFetch == Answer \/ FetchSucceeds \/ FetchFails

Next ==
    \/ \E c \in Callers, kid \in Kids : Authenticate(c, kid)
    \/ \E c \in Callers : currentKeys(c) \/ Canceled(c)
    \/ runFetch
    \/ \E keys \in (SUBSET Kids) \ {{}} : Rotate(keys)
    \/ Tick

Spec == Init /\ [][Next]_vars

-----------------------------------------------------------------------------
(* Properties.                                                             *)

\* A key that the provider removed is accepted for at most the cache's
\* lifetime and grace, counted from its fetch; the answer may have been on its
\* way for one fetch, and a forced call falls back to the keys it held after
\* another one.
RemovedKeyEnds ==
    [][\A c \in Callers :
          caller'[c].pc = "accepted" /\ caller[c].pc # "accepted" =>
              \/ caller[c].kid \in idp
              \/ now - lastSeen[caller[c].kid] <
                     CacheTTL + StaleIfError + 2 * FetchTimeout]_vars

\* "after a failed fetch no new fetch starts for jwksInitialBackoff, doubling
\* per consecutive failure": whoever asks for keys, and why, between two
\* fetches of which the first failed lies its backoff.
NoFetchInBackoff ==
    [][fetch.pc = "none" /\ fetch'.pc # "none" => now >= cache.retryAt]_vars

\* "refreshes them when a token names a kid that is not cached (an IdP key
\* rotation)": a request whose own forced fetch succeeded is not rejected for
\* a kid that the provider had since the request began.
RotationHonoured ==
    \A c \in Callers :
        caller[c].pc = "rejected" /\ caller[c].own /\ ~caller[c].failed =>
            ~caller[c].since

\* Nobody waits for ever: a request waits for a fetch, its own or a shared one,
\* only while that fetch runs and will close call.done, also after the fetch
\* failed or the request that started it has gone.
WaitsForRunningFetch ==
    \A c \in Callers : caller[c].pc = "wait" => fetch.pc # "none"
=============================================================================
