# A TLA+ verification of OmniSwitch

OmniSwitch is an AI gateway written in Go: an HTTP server that takes
OpenAI-compatible, Anthropic, A2A and MCP requests, authenticates them, applies
guardrails and budgets, routes them to one of several providers with retries
and fallbacks, streams the answers back and records what they cost.  Beside it
run a control plane for several tenants (keys, workspaces, members, prompts) and
an MCP gateway that judges tool calls by policy and bridges to servers that run
as child processes.

This directory models these parts, checks them with TLC on small instances and
proves with TLAPS, for every value of their constants, every safety property that
the passing runs check.  Paths are relative to the repository (`src/` in `PROJECT.json`).
`PROJECT.json` lists every run, the source lines each definition stands for, the
hazards, the findings and the theorems.

## The system

| Component | State it keeps | Operations | What is hard |
|---|---|---|---|
| Circuit breaker (`internal/router/circuitbreaker.go`) | per provider: state, failure count, open-until, the half-open probe's id and expiry | Acquire, Success / Failure / Release of an admission, RecordSuccess, RecordFailure, Available | reports come late, twice or never; probes expire while they run |
| Router (`internal/router/router.go`, `errors.go`) | routes with a generation, the breaker in use; per request: position in the chain, attempt, admission | Execute, ExecuteStream, media calls, SetCircuitBreaker, ReplaceRoutes, CloneWithRoutes | cancellation between attempts; who is blamed; reload under running requests |
| Streaming (`provider/sse.go`, `stream_native.go`, `router.startStream`, `relayStream`, `gateway.consumeStream`) | two unbuffered channels, four goroutines, two timers, three contexts | connect, read, relay, consume, drain | timers against data, disconnect at any point, leaks, telling a cut stream from a whole one |
| Chat pipeline (`gateway/gateway.go`, `embeddings.go`, `rerank.go`, `moderations.go`, `compat*.go`) | per request only; shadow slots; the response cache and the log rows | the request handlers | order of checks, engines swapped between stages, guardrail retries, accounting on every path |
| Guardrail engine (`internal/guardrail`) | checks with stage and action | evaluate a text or a tool call | precedence, outages of external checks |
| Budget ledger (`gateway/budget_ledger.go`, `budget.go`) | per key: snapshot, generation, reservations, pending / done / lost charges, running load, LRU | admit, release, beginCharge, finish, load, evict | charges and loads overlap; one of two store writes fails; the month changes |
| Stored-config cache (`gateway/config_routers.go`, `/api/configs`) | positive and negative LRU, reads in flight, epoch, derived routers | lookup, invalidate, routerFor, create / update / enable / disable a config | a read overtaken by a change; one config under several keys |
| JWKS cache (`gateway/jwks_cache.go`, `jwt.go`) | keys, their age, last forced refresh, failures, retry time, fetch in flight | Authenticate, currentKeys, fetch | key rotation, provider failure, shared fetches |
| WASM scanner pool (`internal/accel/accel.go`) | idle channel, count, closed flag | acquire, release, Scan, Close | creation outside the lock, traps, Close beside scans |
| Hot reload (`cmd/gateway/settings.go`) | settings of the start, file time, file-owned routes | poll, apply | files read half written; parts are swapped one by one |
| A2A tasks (`gateway/a2a_tasks.go`, `a2a.go`) | tasks by id and by owner | put, complete, fail, cancel, evict, prune | answer against cancel against eviction |
| Identity and authorization (`gateway/middleware.go`, `authorization.go`, `tenant.go`) | nothing | authenticate, authorize, scope | a lookup that fails; roles, scopes and model lists that must agree everywhere |
| Control plane (`internal/admin`, `org`, `prompt`, `feedback`, `dashboard`, on `internal/store`) | SQL tables | handlers that check, then write | rows that change between check and write; tenant filters in every statement |
| MCP gateway (`internal/proxy`, `internal/adapter/mcp`, `internal/policy`) | targets, exchanged tokens | tool calls, lists, passthrough, cancellation | two readers of one JSON document; shared caches |
| stdio MCP bridge (`proxy/stdio.go`) | child process, pending calls, ids in flight | call, notify, start, cancel, close | late answers, blocked writes, restart |
| Rate limiters, alerts, replica health, adapters, vault, evaluation, audit, CLI, SDKs | counters, data translation, single statements, output | | little control |

How they interact: a request passes authentication (JWKS cache), authorization,
the rate limiter, the guardrails (scanner pool), the budget admission, the
stored-config lookup and the router; the router asks the breaker before every
attempt and reports to it after; a streamed answer runs through the relay;
the output guardrails judge the answer; `logRequest` writes the log row and the
key's spend and settles the ledger.  A reload goroutine swaps routes,
guardrails, settings and breakers under all of this, and the dashboard changes
stored configs and invalidates the cache.

## The modules

*Serving.*

**CircuitEntry** - the transitions of one `circuitEntry` as operators.
**CircuitBreaker** - the breaker under concurrent calls.  Every method holds the
mutex for its whole body, so a method is an action.  A call slot keeps its
`Admission` until it reports; it may report at any later time or never, which
covers slow, hung and lost calls.  `openedAt` is a history variable.  This is also
the abstract specification that RouterExecute is shown to implement.

**RouterExecute** - the provider loops.  The state of a request is the locals of
its loop (chain, position, attempt, admission, last error) and a program counter
at the points where the code can be overtaken: before a provider is asked, during
the call, after a failure, in the wait.  Errors carry what `errors.go` looks at.
Breakers are numbered; an admission remembers which one granted it.
`FirstBreaker` and `LastBreaker` instantiate CircuitBreaker for the first and
the last breaker with `INSTANCE ... WITH`.

**Guardrails**, **ChatPipeline** - the engine as operators (what it keeps of its
configuration, which checks fire, what a stage makes of the results), and the
request handlers over it.  A text is the set of marks that checks look for; of
embeddings and rerank the text that the handler makes of the input (`embeddingText`,
`rerankGuardrailText`) is told apart from what is sent.  A request takes a step wherever it reads or writes what requests share: it reads
the engine once per stage, takes its settings once, looks the cache up, stores
into it, and writes its log row and charge, two writes of which either may fail
(`failed` remembers which did).  A reload may fall between any two.

**BudgetLedger** - the ledger entry of one key, its loads, and the two writes of
`logRequest`.  Amounts are the sets of requests they add up, so that "this charge
is counted twice / not at all" can be said.  Only the age class of a snapshot
matters.  Lifetime spend and monthly usage are read by two statements, at two
moments.

**StreamRelay** - one streamed attempt: producer, starter, relay, consumer and the
drain goroutines.  A send and its receive are one step.  The upstream is a script
chosen at the start (does it connect, how many chunks, how does it end).

**ConfigRouterCache** - lookups, invalidation and the table behind them.  A config
body is a version number, entries have identities because the code compares
pointers.  An LRU is the set of its items, each with the number of its last use: the
back of the list is the item with the least.  `hist` keeps the past tables, so that freshness can be stated.

**JwksCache** - the key set with its three ways to fetch (cold, background,
forced), backoff and grace.

**ScannerPool** - the pool; instances have no identity, so the channel is a number.

**HotReload** - how the config file and the environment make the settings, the
watcher of the file and `applyHotConfig`, one step for everything it replaces,
beside writers that leave the file half written for a while and requests that
derive a router from the base router.  One setting stands for each way a reload
treats one, and a route has a part that `mergeRoute` takes over and one that it does not.

**A2ATasks** - the task registry under SendMessage and CancelTask.  `put` holds the
store's mutex but tasks have their own, so an eviction looks at one task per step.
An owner's list is the set of its tasks, each with the number of its insertion
(`place`), which is the order the eviction scans in.

*Control plane.*

**Identity** - roles, tenant scope, required roles, authorization rules, as
operators.  **TenantStore** - the tables and one operator per statement, with its
tenant condition.  **ControlPlane** - a request is authenticated, authorized, and
runs its handler; handlers that check in one statement and write in another take
two steps.  `effect` says what the last step showed or changed, and for whom.

*MCP.*

**ToolPolicy** - what the gateway reads in a message (an object is the sequence of
its members, a name has a folded form and a spelling), what it tells the policy,
and what the policy says.  **StdioBridge** - the child process, its restart, ids,
cancellation, timeouts, the waits without one (`Blocked`), clients that leave (`gone`) and Close.  **McpGateway** - the composition: tool calls,
lists, passthrough and cancellation over both kinds of target, the relay of a body after
its headers, and the exchange of tokens with its cache.

*Proofs.*  **CircuitBreakerProofs**, **RouterExecuteProofs**,
**ChatPipelineProofs**, **BudgetLedgerProofs**, **ControlPlaneProofs** (which also
has JwksCache, the keys of the tokens that its callers present) and
**McpGatewayProofs** extend the module they are named after with its inductive
invariant, lemmas and theorems.  **ServingProofs** does so for the four parts of
MCServing, one section each, and for ConfigRouterCache.  **SumTheorems** has the
facts about sums over finite sets that the ledger and the pipeline need.

`MC*` modules hold symmetry sets and the constants that a `.cfg` cannot write.
**MCServing** puts four modules that share no state side by side: a behaviour
exercises one of them.

## The runs

| Run | What it asks | Instance and why it is enough |
|---|---|---|
| MCCircuitBreaker | one live probe, never wedged, only the probe decides, no admission in the cooldown | 3 calls (probe, replaced probe, late call), cooldown 2, clock to 5: two full open / half-open rounds. One provider: entries do not interact |
| MCRouterExecute | refines CircuitBreaker for the breaker in use first and for the one that replaces it, blame, at most one call after a cancellation, every step moves towards the end | 2 streaming or media requests, 2 providers of which the second cannot serve them natively, 2 breakers, one error of each class that `errors.go` tells apart |
| MCChatPipeline | no violating answer is delivered, no provider sees what the input checks stop in the text they read, everything billed is logged and charged once, each but for its own failed write, the cache stays within its scope | 2 requests of 4 keys (two share a workspace, three an organization), 3 engines that redact, deny, retry, reroute and ask a webhook that may be down, one check that a JSON encoding escapes and one with a respelled action, 2 settings, 1 reload at any point, 1 shadow slot; the log and the spend write of one request may fail, each alone or both |
| MCBudgetLedger | no charge missed, spend bounded (lifetime and month), every admission check ends | 2 requests, lifetime limit 3, monthly limit 2, estimates 1 and 2 against a cost of 2; one change of the month; 2 agings reach "stale" |
| MCBudgetFailOpen | *violated*: no charge missed, with fail-open | 2 requests, no monthly limit |
| MCConfigRouterCache | a lookup returns nothing older than the last invalidation of its own reference that had ended when it began (of changes made under the other key, see finding 6); no resolved config is cached that is older than its row's last change | 2 callers (reader and joiner), 2 ids, 2 names, 2 changes; capacity 3 is one eviction away from splitting an entry |
| MCJwksCache | rotation honoured, removed keys end | 2 callers, 2 keys, 1 rotation, clock to 4: a key's lifetime, grace and two fetches |
| MCServing | HotReload: a version left alone is in force in the end, derived routers are current. ScannerPool: nothing left open, every scan ends while nothing breaks. StreamRelay: complete means whole, no goroutine left. A2ATasks: evicted tasks are stopped, terminal states are final | 4 file contents (one malformed) and 2 environments, two writes, or one beside 2 requests; 4 scans over 2 instances, the set of faults chosen at the start; all scripts of up to 2 chunks; 3 tasks of 2 owners with both caps at 2, 1 cancelling client |
| MCRouteReturns | *violated*: a reload adds no route that the file and the environment do not have | same, without requests |
| MCControlPlane | tenants are isolated, keys stay within their creator, prompts are consistent, model lists are respected, memberships stay within the caller's role | 2 requests at a time, of 2 keys, 3 tokens or nobody; 2 organizations with a workspace each and rows of everybody and of nobody; a third workspace, key and prompt to create; one key that expires |
| MCMembershipRace | *violated*: a membership above the caller's role is not changed | same |
| McpGateway | answers and cancellations reach their own call, a call in flight stays tracked, no process is left over, what was judged is what a server reads, production is recognised, credentials are the caller's own, every request ends that is not held up where the code has no deadline | 3 requests with one request id, of one caller or two, against a stdio server that dies, hangs, stops reading and is closed at any time, one client leaving; tool calls with respelled, doubled, decoy, list and null members; 2 callers with tokens, one target that exchanges them, with one place in the cache, and one that gets the caller's own; lists of 2 pages |

Each property of a passing run has a mutant in `PROJECT.json`: a definition
changed as a plausible slip would change it, on which TLC refutes the property.

Runs with `CHECK_DEADLOCK FALSE` are of systems that may stop: all requests
answered, a finished stream, all scans ended or waiting, nobody writing the file.

The modules state more than the runs check: most a `TypeOK`, facts that are proved
(`SlotHasHolder`, `ClosedBelowThreshold`, `AvailableMatchesAcquire`,
`ReservationPinsEntry`, `WaitsForRunningFetch`, `NoFetchInBackoff`, `LoggedOnce`,
`CachedTogether`, `WaitsForRunningRead`, `PoolBounded`, `FailureHasCause`,
`ExhaustedMeansAllTried`), `CloseEndsAll`, which is liveness, and the properties under
Findings that do not hold.  The others hold in the instances above; adding one to a
`.cfg` checks it.

### Bounds

`MaxClock`, `MaxProbes`, `MaxFailures`, `MaxAges`, `MaxMonth`, `MaxWrites`,
`MaxLookups`, `MaxRotations`, `MaxBreakers`, `MaxChunks`, `MaxReloads` and `Loads`
cap what the code does not bound; each is a guard of one action.  `Fallible` and
`Leavers` name the requests whose writes may fail and whose clients may leave.  Where clients
could send anything (`Asks`, `Calls`, `Batches`) the MC module lists the messages
that the code treats differently.  Time in CircuitBreaker, JwksCache and A2ATasks is
a number because deadlines are compared; elsewhere a timer may fire at any moment,
which is more than real clocks do.

### Fairness and termination

All fairness is weak, per goroutine, and rests on a bound in the code:

- budget (AdmissionEnds): a load runs under `budgetLoadTimeout`; nobody has to
  give up waiting;
- scanner (EveryScanEnds): a WASM call ends; a waiting scan is *not* assumed to get
  an instance, and nothing makes Close happen;
- stream (NoGoroutineLeft): goroutines run, an armed timer fires, and a write to
  the client ends (the server's write deadline).  The client need not leave, the
  upstream need not answer: only the disconnect or the timeout the property is
  about is assumed;
- reload (ReloadTakesEffect): the ticker of the watcher and the retirement timers
  fire; nobody has to write;
- MCP (EveryRequestEnds): a request takes its steps, its timeout among them, where the
  code gives it one; the server need not answer, read or live, the client need not
  leave.  Three waits end only with the request's context, and no fairness is assumed
  of them (`HeldUp`): for a live server to take a line that is not a call (a
  notification, a cancellation, `initialized`: `stdio.go:133`, `:176`, `:373`; only
  `roundTrip` sets `callTimeout`), for the start lock while its holder is at such a
  line (`:283`), and for the end of a body whose headers came (`handler.go:732`,
  `:830`).  EveryRequestEnds says that a request ends or stays at one of them for
  ever.  A pipe's buffer takes a short line even when nobody reads; the model does
  not count on it.

The router, the pipeline and the two caches have no fairness.  `EveryStepMovesOn`:
no step of a request takes it back in the order (providers passed, attempts made,
point of the loop), which is well-founded, and TLC's deadlock check shows that one
that has not ended can step.

## What is proved

Each theorem holds for every value of the constants that satisfies the named
assumptions of the module; TLC evaluates the assumptions on every run.  Each
inductive invariant was checked by TLC on the run's instance before it was proved.

**CircuitBreakerProofs** (any providers, calls, threshold and cooldown;
`SettingsAssumption`: both are positive, `BoundsAssumption`,
`ProvidersAssumption`): TypeOK, OneLiveProbe, SlotHasHolder, ClosedBelowThreshold,
NeverWedged and AvailableMatchesAcquire as invariants, ProbeDecides and NoAdmissionInCooldown as action
properties.  The inductive invariant `IInv` is `GoodEntries` (how state, failures,
deadlines and the probe of an entry hang together), `ProbeIDs` (no two calls hold
one id), `SlotHasHolder`, `OneLiveProbe` and `ProbePlaced`: a probe younger than
the cooldown either owns the slot or its circuit has left the half-open state since
and will not be half-open again before the probe has aged.  OneLiveProbe alone is
not inductive: a late success can close the circuit and failures reopen it while
the first probe still runs.

**RouterExecuteProofs** (any finite sets of requests and providers, any chains, errors,
retries and breakers; `RouterAssumption`):
OneCallAfterCancel, EveryStepMovesOn, BlamesOnlyProviderFaults, ExhaustedMeansAllTried,
and the refinement RefinesBreakers.  `IInv` says of each request where its loop stands (`Positioned`:
an admission is held exactly during a call, the index stays in the chain) and what
the departure of its caller still allows (`Late`: after a late call only that call,
its failure or the end).  `StepFacts` describes each action once by the record it
leaves; the properties follow from that.  ExhaustedMeansAllTried needs `Passed` in
addition: the providers the loop has passed are among those tried, and it gives up only
at the end of the chain or when its caller is gone.  The refinement maps each router step to a
breaker step or a stutter for the first and for the last breaker.  It is proved under
`[]WithinProbeBound`: CircuitBreaker caps probe ids by `MaxProbes`, a bound of the
model and not of the code, and a chain may name a provider more than once, so no
constant bounds the probes of a behaviour.

**ChatPipelineProofs** (any requests, keys, engines, settings, answers and number of
reloads): NoViolatingOutput, InputJudged, CacheWithinScope, LoggedOnce and BilledIsCharged.
`RequestOK` carries, from step to step, what the properties say of the last one: from
the input stage on, `InputClean` for the engine that judged (the engine in force may
be another by the time something is sent); from the lookup on, that the cache
key has the scope of the request's own settings (they are a snapshot); until the log
row, that the running cost is what was billed.  BilledIsCharged needs in addition that
no request is logged twice and that a key's spend grows by exactly the request that
ends, unless that write fails (`Charged`, with a sum over the requests that are done and
whose charge was written).  InputJudged is about the text that the handlers read; that
the rest of an input is not judged is finding 9.  `CacheOK` says that every entry fits
its scope (`ScopeFits`), so that a hit is `Shares`d whatever the settings were when
it was stored.  The lemmas on the engine (`FiringIsFound`, `AllowedIsClean`,
`RedactedIsClean`) rest on `EnginesAssumption`: no check fires on the text that
replaces a redacted one.  A rule that matches the replacement itself would make
redaction futile in the code as well.

**BudgetLedgerProofs** (any requests, limits, estimates, costs, months and loads):
TypeOK and ReservationPinsEntry in both modes, NeverMissed and BudgetsRespected unless
budgets fail open (with fail-open NeverMissed is refuted, finding 2).
`RequestsAssumption`: the requests that ever reach the replica are finitely many,
without which there is nothing to add up.  `Covered` is the heart: a finished
charge is in the store or among the lost ones, in what a running load has read or
among the charges kept for its generation, and in the snapshot or beside it.  It needs
`EntryOK` (a load's generation is older than the entry's), `ReservationPinsEntry` (an
entry with work outstanding is not evicted) and `HoldsReservation` (who runs has a
reservation, which is what fail-open gives up).  BudgetsRespected sums: at every
admission the estimates reserved and the charges known fit the limits, and from then on
a request turns its estimate into a cost, for which `Overrun` allows the excess, or into
nothing.  That the admission may trust the ledger is `Covered` again: what it adds up
is never less than what finished.  `StepFits` compares, for each kind of step, the sums
before and after it, by the lemmas of SumTheorems.

**ControlPlaneProofs** (any tables, keys, tokens, calls and requests at once;
`TablesAssumption`: the first rows are well formed, `CallsAssumption`: arguments have
their types, a key that may expire is a key, a token's subject is not a key id):
TenantIsolation, KeysWithinCreator, ModelsRespected and PromptsConsistent as
invariants, MembershipWithinRole as an action property.  `Inv` keeps for a request
between its steps that its identity is that of a stored key with the same models
(`KeyKnown`; a row that is revoked stays) and, between check and write, that what was
checked still holds (`MayWrite`; a workspace never changes its organization).
`KeysOK` confines a key to the tenant of its maker, `LogsOK` ties a logged model to
the key.  For prompts, `PromptsInv` says that a prompt's versions are 1..n;
the version a new row gets is one above the greatest, whose existence is proved from
the well-foundedness of the naturals.

**JwksCache**, in ControlPlaneProofs (any callers, keys, lifetime, grace and fetch
timeout; `JwksAssumption`):
RotationHonoured and WaitsForRunningFetch as invariants, RemovedKeyEnds and
NoFetchInBackoff as action properties.  `TokenInv` dates the keys that the last step of a request uses: those of the
cache (`KeysSeen`), of an answer on its way (`AnswerSeen`, `OwnAnswer`) and those a
waiting request falls back to (`HeldSeen`).  NoFetchInBackoff needs only that the
backoff is a time (`BackoffKnown`); how the backoff grows with the failures is the
definition of `jwksBackoff`, of which nothing is proved.

**McpGatewayProofs** (any threads, targets, rules and messages that
`MessagesAssumption` and `EnvAssumption` describe): AnswerIsOwn, CancelReachesOwn,
NoStrayProcess, JudgedAsRead, CredentialsOwn and ProductionKept as invariants,
TrackedWhileInFlight as an action property.  `BridgeInv`: what a call holds at each
point (`CallOK`), ids are unique, a waiter on a process's list is a call that waits
there (`PendingOK`), a handshake holds the start lock (`LockOK`), and whatever
relates an id of the bridge to an id of a caller (a line received, a call,
`inflight`, a cancellation) names the same caller for ever (`OneOwner`, over
`Claim`); without the last, a cancellation sent after a restart could meet another's
call.  `GatewayInv`: a message past the parser has one method however it is read,
and if it is a tool call it was judged as read (`Passed`), and a cached
token is that of its key (`TokensOwn`).  ProductionIsKept covers the verb that the
gateway takes, which is the tool's own or the first of `action` and `operation` that is a
scalar; what an argument hides from it is finding 12.

**ServingProofs**, each part for its own specification and the first three together
for the composition (`ServingIsSafe`: a step of one part leaves the others alone):

- HotReload (any files, environments and requests): DerivedIsCurrent.  The router that
  an entry keeps is not older than the generation it is kept under, because
  `routerFor` reads the generation before it clones.
- ScannerPool (any scans, size and faults; `PoolAssumption`): ClosedLeavesNone and
  PoolBounded.  `PoolInv` counts: every open instance is idle or in the hands of one
  scan, every counted one exists or is being created, a closed pool has none idle.
- StreamRelay (any script and number of chunks; `ChunksAssumption`): CompleteMeansWhole
  and FailureHasCause.
  `StreamInv`: who may have ended which context (`StreamControl`); while none has ended
  (`Live`), every event of the script is with the consumer, with one goroutine on its
  way there or not yet taken from the producer (`InOrder`); and when the relay has
  closed its channel without a cancellation, the consumer holds the whole stream.
  `Causes`: an error on its way is the upstream's until the relay makes one, which
  silence or an ended context makes it do.
- A2ATasks (any tasks, owners, clients, caps and clock; `TasksAssumption`):
  TerminalIsFinal and EvictedAreStopped as action properties.  `RegistryInv`: a list
  holds tasks of its owner that were put (`Listed`); only the holder of the lock evicts;
  a task that the scan has passed was not finished when the eviction began, so those
  that were are still ahead (`ScanOK`) and the victim is finished unless none was
  (`VictimOK`); a task that works has a `cancel` to call (`TaskOK`).
- ConfigRouterCache (any references, callers, capacities, changes; `CacheAssumption`:
  ids and names differ from each other): LookupIsCurrent, CacheIsCurrent,
  CachedTogether and WaitsForRunningRead.  `CacheInv`: a cached entry says
  what the table held for its key at some moment since that key's last invalidation
  (`ItemsOK`), and is as new as its row unless an invalidation that will find it is due
  (`Fresh`); a result whose epoch is not past is newer than every invalidation
  (`MayStore`); who waits or joins has a reader that reads late enough (`Reads`); and an
  entry is under all of its keys (`WholeEntries`), which invalidation by one of them
  relies on and eviction keeps.

**SumTheorems**: what one more term, a subset, a union or greater terms make of a sum
over a finite set.  Induction over a set is not available as a theorem to cite (it has
an operator as parameter); `SubsetInduction` states it over a *set* of good subsets
instead and proves it from the least element of a set of cardinalities.

Only model-checked, and why:

- all liveness (AdmissionEnds, EveryScanEnds, NoGoroutineLeft, ReloadTakesEffect,
  EveryRequestEnds): fairness is beyond the prover.

Liveness apart, every property that a passing run checks is proved.

## Findings

Shown by a run:

1. **A route that the file dropped comes back** (MCRouteReturns).
   `applyHotConfig` starts from the routes of the start, which hold the file's, and
   deletes only those of the file's previous version.
2. **With budget fail-open a charge can be missed** (MCBudgetFailOpen).
   `beginCharge` records nothing for a key without an entry, and a load between
   it and the spend update does not see the charge.
3. **A scoped administrator can lower a membership above its own role**
   (MCMembershipRace), when it is raised between the check and the write.

Properties that the modules state and that do not hold; adding one to its
module's `.cfg` (for ScannerPool and StreamRelay through MCServing) gives the trace:

4. `OpenForOneCooldown` (CircuitBreaker): `recordFailure` moves `openUntil` for
   failures reported while the circuit is open (`circuitbreaker.go:197`); comment
   (`:16`) and `docs/CONFIGURATION.md:182` say it stays open for the cooldown.
5. `EndsMarked` (StreamRelay): the relay's terminal chunk is dropped when the
   context ends while it waits to be taken (`router.go:853` against `:746`).  The
   consumer still does not take such a stream for a whole one (CompleteMeansWhole).
6. `TakesEffectAtOnce` (ConfigRouterCache): PATCH and DELETE of a config invalidate
   the key they were called with; "not found" remembered under the other outlives
   the change (`dashboard.go:275` against `config_routers.go:23`).
7. `WaitsForSomething` (ScannerPool): a broken instance leaves the pool without
   waking those who wait for it (`accel.go:265` against `:220`).
8. `RedactIsEnforced` (ChatPipeline): embeddings and rerank look for `deny` only and
   send what a `redact` check fires on (`embeddings.go:47` against
   `docs/CONFIGURATION.md:650`).
9. `WholeInputJudged` (ChatPipeline): of a document that is an object, rerank judges the
   `text` or else the `content` (`rerank.go:100`), and the providers are sent the whole
   (`cohere.go:131`, `custom.go:211`); embeddings judge a JSON encoding, whose escapes
   can break up what a check looks for (`embeddings.go:42`).  `docs/API.md:162`: "Query
   and document text are inspected by input guardrails".
10. `ActionsAct` (ChatPipeline): the action of a rule or of a built-in check is validated
   in any case (`guardrail.go:717`, and for the file `gatewayconfig/config.go:634`) and kept as
   it is spelled (`guardrail.go:168`, `:184`), but looked for in lower case: a rule with
   `Deny` fires and stops nothing.
11. `WholeRouteTakesEffect` (HotReload, through MCServing): of a route that the
   environment, or the file at the start, has for the model too, `mergeRoute` takes six
   parts of the file's new version and never its timeout, strategy, backoff, retry codes,
   shadow provider or parameters (`settings.go:480`, `:621`); `docs/API.md:385` says that
   a reload applies `routes`, and those are parts of one (`docs/CONFIGURATION.md:147-149`).
12. `DecoysHideNothing` (McpGateway): a harmless `action` hides a destructive
   `operation` (`adapter.go:387` takes the first), and a list, an object or null hides
   what it contains (`adapter.go:625`), although "arguments can only make a request look
   more sensitive [...] never less" (`adapter.go:375-379`).

Met while modelling:

- Guardrails: the file's validation accepts deny, redact, warn and log only
  (`gatewayconfig/config.go:633`), so checks with the actions retry, reroute and fallback
  come to an engine only through `guardrail.Config`; a webhook's transport errors are not retried although the comment of
  `Evaluate` says so, and a 4xx answer with a JSON body counts as "not triggered";
  an external check that is out, fails closed and has the action `reroute` or
  `fallback` does not stop the request (`docs/CONFIGURATION.md:683`); tool rules
  with the stage `input` never fire; `redact` of an answer leaves its tool calls;
  a match that spans two messages of a prompt is found and not redacted.
- Hot reload: a change of the file between `loadRuntimeSettings` and the watcher's
  first look is never applied (hence `written` in ReloadTakesEffect); on a reload the
  file overrides what the environment set (`docs/CONFIGURATION.md:13` ranks them the
  other way); an A/B route for a model that the start's file also had is lost
  when the file drops the model; the comment of `SetGuardrails` says requests keep
  their engine, but the output stage loads it again.
- A2A: pruning drops tasks that still work without cancelling them, as eviction does.
- MCP: nothing bounds the three waits named under Fairness, and a request that waits for the
  start lock waits for another's; of two calls in flight with one client id the older cannot be cancelled once
  the newer has ended; a `resource` argument can lower the inferred environment.
- A key with a model list is refused by `POST /v1/mcp/tools/call`, which has no model.
- Replica health records the short latency of a failed call, which makes a replica
  that fails fast look better (`provider/inference.go:93`).

## Abstractions

- A nil breaker (breaker disabled), nil store and nil authenticator paths do
  nothing and are left out.
- BudgetLedger: one key, one replica; token budgets have the shape of the
  monthly cost; the zero charge of a request that was denied is left out, and
  the instance has no free requests (a charge of zero changes no total).
- ChatPipeline: an answer has one choice (`gateway.go:1185` judges each of several); an
  answer's `reasoning_content` and `refusal`, which no check of the code reads, are not in
  the model; a JSON encoding is modelled by the marks that its escapes break up, and
  adds none; the router's whole chain is one call that answers or fails; the
  budget admits or rejects; similarity of prompts is equality of their marks.
- StreamRelay: a connection that is cut after the finish reason and before the usage chunk
  counts as complete in the code (`sse.go:223`) and is not among the scripted ends;
  `StreamFromResponse`, used for providers that cannot stream, is
  not relayed; a guardrail retry of a buffered stream is another attempt.
- ConfigRouterCache: ids and names are disjoint, references are short enough to
  be remembered as unknown, DELETE disables the row as PATCH can.
- JwksCache: closing `done` and the wake-up of those who wait are one step, so
  the bound of RemovedKeyEnds (TTL + grace + two fetches) is free of scheduling.
- HotReload: every write gives the file a new modification time.
- ControlPlane: a statement or transaction is one step; handlers that read and
  then write take one step for each part another request can come between.
- McpGateway: the audit log is left out, because nothing depends on it: a row that cannot
  be written is reported in the process log and the call goes on (`handler.go:466-485`);
  one stdio server (bridges share nothing); a CEL expression is what
  it answers; a server may read a member by any spelling, the first or the last.

## Not modelled

- Rate limiting: each decision is one atomic step (a mutex, a Redis script); local
  sliding and Redis fixed windows differ in the arithmetic of time.  A script
  that reaches Redis after its window expired recreates that window's counter.
- The choice of variants and strategies in the router (random weights, latency
  order, CEL conditions): any chain it may choose is a chain of RouterExecute.
- Migrations: they run before the server starts, in one transaction under a lock,
  apart from indexes built in the background.
- Adapters' translation of requests and prices, validation of configuration
  fields, the vault's cryptography, evaluation, audit and telemetry output, budget
  alerts, replica scores, the CLI, SDKs, benchmarks and the Rust scanners: data
  without shared state, or output only.

`PROJECT.json` lists each with its files.

## What is left

Every module outside the MC modules is written without RECURSIVE operators, so any of
them can be proved about.  Every safety property that the modules state and that holds is
proved (of some `TypeOK` only the parts that the invariants need); what is left is to
model: token budgets and several replicas in BudgetLedger,
and a fixed-window limiter with a clock fine enough to show the edge of a window.
