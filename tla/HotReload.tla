----------------------------- MODULE HotReload -----------------------------
(***************************************************************************)
(* The gateway's settings: read at start from the config file and the      *)
(* environment (loadRuntimeSettings, cmd/gateway/settings.go), and         *)
(* reloaded by a watcher that looks at the file every two seconds          *)
(* (startConfigReloader, applyHotConfig), while POST /api/config/raw and   *)
(* editors write it and requests use what a reload replaces: the route     *)
(* table and the routers derived from it, the guardrail engine, the        *)
(* handler's settings and the circuit breakers.                            *)
(*                                                                         *)
(* One setting stands for each way of treating one: `scope' for those the  *)
(* file only changes when it names them (the cache's, payload logging, the *)
(* stream buffer, the body limit) and `shadow' for those that fall back to *)
(* the values of the start (the shadow provider, alerts, the budget's).    *)
(* Engines and breakers are numbered as they are made.                     *)
(***************************************************************************)
EXTENDS Naturals, FiniteSets

CONSTANTS
    Models,         \* logical models a route may be configured for
    Configs,        \* contents of the file, as LoadFile decodes them
    Environments,   \* what the process environment sets
    Requests,       \* requests that use one stored config
    Loads           \* bounds: how often the file is written, beside which requests

Unset == "unset"        \* a field or variable that is not given
Malformed == [ok |-> FALSE]

\* A route: provider and variants stand for the parts mergeRoute takes over (with
\* the fallbacks, the retries and the messages to add), timeout for those it does
\* not (with the strategy, backoff, retry codes, shadow provider and parameters).
NoRoute == [provider |-> Unset, variants |-> Unset, timeout |-> Unset]

\* A router derived from the base router: its routes are those of generation
\* from, with the stored ones over them.
NoRouter == [built |-> FALSE, from |-> 0]

\* What the defaults of loadRuntimeSettings stand for.
Default == [scope |-> "api_key", shadow |-> "nobody", breaker |-> "default"]

ASSUME ReloadAssumption ==
    /\ \A c \in Configs \ {Malformed} :
          /\ DOMAIN c = {"ok", "routes", "rails", "scope", "shadow", "breaker"}
          /\ c.ok /\ DOMAIN c.routes = Models
    /\ \A e \in Environments :
          DOMAIN e = {"ab", "scope", "shadow", "breaker"} /\ DOMAIN e.ab = Models
    /\ Loads \subseteq [writes : Nat, requests : SUBSET Requests]

VARIABLES
    load,           \* the bounds of this behaviour
    file,           \* the file: contents, modification time, completely written?
    written,        \* history: a write began after the watcher's first look
    environment,    \* what the process environment sets
    base,           \* runtimeSettings of the start
    watcher,        \* the goroutine of startConfigReloader and its locals
    routes,         \* r.routes of the base router
    generation,     \* r.generation
    rails,          \* h.guardrails: the engine's number and its rules
    retiring,       \* replaced engines that are not closed yet
    settings,       \* h.settings
    breaker,        \* r.breakers: the breaker's number and its settings
    shadowBreaker,  \* h.shadowBreaker
    entry,          \* the cached entry of the stored config, with e.mu
    request         \* request -> its locals

fileVars == <<load, file, written>>
routerVars == <<routes, generation>>
handlerVars == <<rails, retiring, settings>>
breakerVars == <<breaker, shadowBreaker>>
vars == <<fileVars, environment, base, watcher, routerVars, handlerVars,
          breakerVars, entry, request>>

Has(r) == r # NoRoute
ModelsOf(table) == {m \in Models : Has(table[m])}
Given(value, otherwise) == IF value # Unset THEN value ELSE otherwise

\* mergeRoute: some of the override's fields, where it has them.
mergeRoute(r, override) ==
    [r EXCEPT !.provider = Given(override.provider, @), !.variants = Given(override.variants, @)]

-----------------------------------------------------------------------------
(* The start.                                                              *)

\* The settings the file names, over the defaults.
applyGatewayConfig(c) ==
    [routes  |-> c.routes,
     rails   |-> c.rails,
     scope   |-> Given(c.scope, Default.scope),
     shadow  |-> Given(c.shadow, Default.shadow),
     breaker |-> Given(c.breaker, Default.breaker)]

\* The file, then the environment over it, then the A/B routes merged in.
loadRuntimeSettings(c, e) ==
    LET s == applyGatewayConfig(c)
    IN  [routes  |-> [m \in Models |-> mergeRoute(s.routes[m], e.ab[m])],
         rails   |-> s.rails,
         scope   |-> Given(e.scope, s.scope),
         shadow  |-> Given(e.shadow, s.shadow),
         breaker |-> Given(e.breaker, s.breaker)]

\* runServe up to the start of the watcher: the gateway with its settings.
Init ==
    /\ \E c \in Configs \ {Malformed}, e \in Environments :
          /\ file = [cfg |-> c, mtime |-> 0, whole |-> TRUE]
          /\ environment = e
          /\ base = loadRuntimeSettings(c, e)
    /\ load \in Loads
    /\ written = FALSE
    /\ watcher = [pc |-> "look", lastMod |-> 0, cfg |-> Malformed, prev |-> {}]
    /\ routes = base.routes
    /\ generation = 0
    /\ rails = [id |-> 0, rules |-> base.rails]
    /\ retiring = {}
    /\ settings = [scope |-> base.scope, shadow |-> base.shadow]
    /\ breaker = [id |-> 0, settings |-> base.breaker]
    /\ shadowBreaker = [id |-> 0, settings |-> base.breaker]
    /\ entry = [lock |-> FALSE, gen |-> 0, router |-> NoRouter]
    /\ request = [q \in Requests |->
                     [pc |-> "start", gen |-> 0, router |-> NoRouter]]

WatcherPCs == {"look", "lookLoad", "wait", "load", "routes", "rails", "scope",
               "shadow", "breaker", "shadowBreaker"}

-----------------------------------------------------------------------------
(* Writers of the file: os.WriteFile of rawConfig, and editors.  A write   *)
(* truncates the file first, and an empty file does not decode.  Every     *)
(* step gives the file a later modification time.                          *)

BeginWrite ==
    /\ file.whole
    /\ file.mtime < 2 * load.writes
    /\ \E c \in Configs :
          file' = [cfg |-> c, mtime |-> file.mtime + 1, whole |-> FALSE]
    /\ written' = (watcher.pc # "look")
    /\ UNCHANGED <<load, environment, base, watcher, routerVars, handlerVars,
                   breakerVars, entry, request>>

EndWrite ==
    /\ ~file.whole
    /\ file' = [file EXCEPT !.mtime = @ + 1, !.whole = TRUE]
    /\ UNCHANGED <<load, written, environment, base, watcher, routerVars, handlerVars,
                   breakerVars, entry, request>>

LoadFile == IF file.whole THEN file.cfg ELSE Malformed

-----------------------------------------------------------------------------
(* startConfigReloader.                                                    *)

Watching == UNCHANGED <<fileVars, environment, base, routerVars, handlerVars,
                        breakerVars, entry, request>>

\* Before the first tick: the time of the file, ...
FirstStat ==
    /\ watcher.pc = "look"
    /\ watcher' = [watcher EXCEPT !.pc = "lookLoad", !.lastMod = file.mtime]
    /\ Watching

\* ... and the models the file has routes for.
FirstLoad ==
    /\ watcher.pc = "lookLoad"
    /\ watcher' = [watcher EXCEPT !.pc = "wait",
                      !.prev = IF LoadFile.ok THEN ModelsOf(LoadFile.routes) ELSE {}]
    /\ Watching

Stat ==
    /\ watcher.pc = "wait"
    /\ file.mtime # watcher.lastMod
    /\ watcher' = [watcher EXCEPT !.pc = "load", !.lastMod = file.mtime]
    /\ Watching

\* A file that is not valid is skipped.
Load ==
    /\ watcher.pc = "load"
    /\ watcher' = [watcher EXCEPT !.pc = IF LoadFile.ok THEN "routes" ELSE "wait",
                                  !.cfg = LoadFile]
    /\ Watching

-----------------------------------------------------------------------------
(* applyHotConfig, one step for each thing it replaces.                    *)

Effective(c) ==
    [m \in Models |->
        IF ~Has(c.routes[m])
        THEN IF m \in watcher.prev THEN NoRoute ELSE base.routes[m]
        ELSE IF m \in watcher.prev \/ ~Has(base.routes[m]) THEN c.routes[m]
        ELSE mergeRoute(base.routes[m], c.routes[m])]

Then(label) == watcher' = [watcher EXCEPT !.pc = label]

ReplaceRoutes ==
    /\ watcher.pc = "routes"
    /\ routes' = Effective(watcher.cfg)
    /\ generation' = generation + 1
    /\ Then("rails")
    /\ UNCHANGED <<fileVars, environment, base, handlerVars, breakerVars, entry,
                   request>>

\* The new engine knows the rules of this file alone.
SwapGuardrails ==
    /\ watcher.pc = "rails"
    /\ rails' = [id |-> rails.id + 1, rules |-> watcher.cfg.rails]
    /\ retiring' = retiring \cup {rails.id}
    /\ Then("scope")
    /\ UNCHANGED <<fileVars, environment, base, routerVars, settings, breakerVars,
                   entry, request>>

\* Setters the file only reaches when it names the setting.
SetNamed ==
    /\ watcher.pc = "scope"
    /\ settings' = [settings EXCEPT !.scope = Given(watcher.cfg.scope, @)]
    /\ Then("shadow")
    /\ UNCHANGED <<fileVars, environment, base, routerVars, rails, retiring,
                   breakerVars, entry, request>>

\* Setters that fall back to the value of the start.
SetOrReset ==
    /\ watcher.pc = "shadow"
    /\ settings' = [settings EXCEPT !.shadow = Given(watcher.cfg.shadow, base.shadow)]
    /\ Then("breaker")
    /\ UNCHANGED <<fileVars, environment, base, routerVars, rails, retiring,
                   breakerVars, entry, request>>

BreakerSettings == Given(watcher.cfg.breaker, base.breaker)

\* A breaker with other settings replaces b; one with the same is kept.
Renewed(b) ==
    IF b.settings = BreakerSettings THEN b
    ELSE [id |-> b.id + 1, settings |-> BreakerSettings]

SetCircuitBreaker ==
    /\ watcher.pc = "breaker"
    /\ breaker' = Renewed(breaker)
    /\ generation' = IF breaker' = breaker THEN generation ELSE generation + 1
    /\ Then("shadowBreaker")
    /\ UNCHANGED <<fileVars, environment, base, routes, handlerVars, shadowBreaker,
                   entry, request>>

\* Mutant: the time of the file is noted once it was applied.
NoteTimeLast ==
    /\ watcher.pc = "shadowBreaker"
    /\ shadowBreaker' = Renewed(shadowBreaker)
    /\ watcher' = [watcher EXCEPT !.pc = "wait", !.prev = ModelsOf(watcher.cfg.routes),
                                  !.lastMod = file.mtime]
    /\ UNCHANGED <<fileVars, environment, base, routerVars, handlerVars, breaker,
                   entry, request>>

\* The last step; the watcher keeps the models the file has routes for.
SetShadowCircuitBreaker ==
    /\ watcher.pc = "shadowBreaker"
    /\ shadowBreaker' = Renewed(shadowBreaker)
    /\ watcher' = [watcher EXCEPT !.pc = "wait", !.prev = ModelsOf(watcher.cfg.routes)]
    /\ UNCHANGED <<fileVars, environment, base, routerVars, handlerVars, breaker,
                   entry, request>>

applyHotConfig ==
    \/ ReplaceRoutes \/ SwapGuardrails \/ SetNamed \/ SetOrReset
    \/ SetCircuitBreaker \/ SetShadowCircuitBreaker

\* retireGuardrailEngine: guardrailRetireDelay after the swap.
CloseEngine ==
    /\ \E e \in retiring : retiring' = retiring \ {e}
    /\ UNCHANGED <<fileVars, environment, base, watcher, routerVars, rails, settings,
                   breakerVars, entry, request>>

-----------------------------------------------------------------------------
(* Requests: configRouterEntry.routerFor.  (A derived router does not copy *)
(* the breaker: it asks the base for it on every attempt.)                 *)

Requesting == UNCHANGED <<fileVars, environment, base, watcher, routerVars,
                          handlerVars, breakerVars>>

\* With e.mu held, the base's generation is read.
ReadGeneration(q) ==
    /\ q \in load.requests
    /\ request[q].pc = "start"
    /\ ~entry.lock
    /\ entry' = [entry EXCEPT !.lock = TRUE]
    /\ request' = [request EXCEPT ![q].pc = "clone", ![q].gen = generation]
    /\ Requesting

CloneWithRoutes == [built |-> TRUE, from |-> generation]

\* Only a router of another generation is rebuilt.
Clone(q) ==
    /\ request[q].pc = "clone"
    /\ request' = [request EXCEPT ![q].pc = "keep", ![q].router =
                      IF entry.router.built /\ entry.gen = request[q].gen
                      THEN entry.router ELSE CloneWithRoutes]
    /\ UNCHANGED entry
    /\ Requesting

\* Mutant: the entry gets the generation as it is after the clone.
KeepLatestGeneration(q) ==
    /\ request[q].pc = "keep"
    /\ entry' = [lock |-> FALSE, gen |-> generation, router |-> request[q].router]
    /\ request' = [request EXCEPT ![q].pc = "done"]
    /\ Requesting

Keep(q) ==
    /\ request[q].pc = "keep"
    /\ entry' = [lock |-> FALSE, gen |-> request[q].gen, router |-> request[q].router]
    /\ request' = [request EXCEPT ![q].pc = "done"]
    /\ Requesting

routerFor(q) == ReadGeneration(q) \/ Clone(q) \/ Keep(q)

-----------------------------------------------------------------------------
startConfigReloader == FirstStat \/ FirstLoad \/ Stat \/ Load \/ applyHotConfig

Next ==
    \/ BeginWrite \/ EndWrite
    \/ startConfigReloader \/ CloseEngine
    \/ \E q \in Requests : routerFor(q)

\* The ticker, the timers and the goroutines run; nobody has to write.
Fairness == WF_vars(startConfigReloader) /\ WF_vars(CloseEngine)

Spec == Init /\ [][Next]_vars /\ Fairness

-----------------------------------------------------------------------------
(* Properties.                                                             *)

TypeOK ==
    /\ file.cfg \in Configs /\ file.mtime \in Nat
    /\ watcher.pc \in WatcherPCs /\ watcher.prev \subseteq Models
    /\ ModelsOf(routes) \subseteq Models
    /\ retiring \subseteq 0..rails.id
    /\ generation \in Nat /\ breaker.id \in Nat /\ shadowBreaker.id \in Nat

\* The model has the file's route, but that a route the start had for it may have
\* kept its timeout.
RouteInForce(c, m) ==
    /\ mergeRoute(routes[m], c.routes[m]) = routes[m]
    /\ \/ routes[m].timeout = c.routes[m].timeout
       \/ Has(base.routes[m]) /\ routes[m].timeout = base.routes[m].timeout

\* Every setting the file names is the running one, and only the engine
\* built from it is open.
InForce(c) ==
    /\ \A m \in ModelsOf(c.routes) : RouteInForce(c, m)
    /\ rails.rules = c.rails /\ retiring = {}
    /\ c.scope # Unset => settings.scope = c.scope
    /\ c.shadow # Unset => settings.shadow = c.shadow
    /\ c.breaker # Unset => breaker.settings = c.breaker /\ shadowBreaker.settings = c.breaker

\* "The gateway checks the file every 2 seconds and applies these settings"
\* (docs/API.md): a valid version written after the watcher's first look and
\* then left alone is in force in the end, though the watcher may have read
\* the file half written, or read it while the next version was written; and
\* the engines it replaced are closed.  (Of a route that the start had for the
\* model too, the parts mergeRoute takes: the rest is WholeRouteTakesEffect.)
ReloadTakesEffect == <>[](written /\ LoadFile.ok => InForce(LoadFile))

\* "requests that use a stored config get the new routes too" (docs/API.md):
\* a request never gets a derived router whose routes are older than the
\* table in place when it asked, although the base may change while another
\* request clones it.
DerivedIsCurrent ==
    \A q \in Requests : request[q].pc = "done" => request[q].router.from >= request[q].gen

\* "Routes defined by a previous version of the file are replaced wholesale"
\* (applyHotConfig): a reload adds no route that neither the file nor the A/B
\* environment has.
NoRouteReturns ==
    [][\A m \in ModelsOf(routes') \ ModelsOf(routes) :
          Has(watcher.cfg.routes[m]) \/ Has(environment.ab[m])]_vars

\* The same, for all parts of a route.  Refuted: of a route the start had, from the
\* environment or from a version before the last, mergeRoute keeps the timeout.
WholeRouteTakesEffect ==
    <>[](written /\ LoadFile.ok =>
            \A m \in ModelsOf(LoadFile.routes) :
                LoadFile.routes[m].timeout # Unset => routes[m].timeout = LoadFile.routes[m].timeout)
=============================================================================
