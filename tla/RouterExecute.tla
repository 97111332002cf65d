--------------------------- MODULE RouterExecute ---------------------------
(***************************************************************************)
(* The provider loops of internal/router/router.go: Execute (kind "chat"), *)
(* ExecuteStream ("stream") and Embeddings, ImageGeneration,               *)
(* Transcription, Speech and Rerank ("media"), run by concurrent requests  *)
(* over the circuit breakers of CircuitEntry, with the retry and blame     *)
(* rules of errors.go.  What a provider answers, when a caller cancels and *)
(* when a reload swaps the breaker are free.  A request works with the     *)
(* provider chain that resolveProviders returned once at its start.        *)
(***************************************************************************)
EXTENDS CircuitEntry, Sequences, FiniteSets

CONSTANTS
    Providers,
    StreamProviders,    \* those that implement provider.StreamProvider
    MediaProviders,     \* those that implement the media interface asked for
    Requests,
    Kinds,              \* kinds of request, a subset of AllKinds
    Chains,             \* chains resolveProviders may return
    MaxRetries,         \* route.MaxRetries
    RetryCodes,         \* route.RetryCodes
    Failures,           \* the errors a provider call may return
    MaxBreakers,        \* bound: breakers installed one after the other
    MaxClock            \* bound: the clock stops here

AllKinds == {"chat", "stream", "media"}

\* An error as the router sees it: the type of the innermost error, the HTTP
\* status it carries (0: none) and its Retry-After hint in seconds.
Error == [kind : {"upstream", "network", "canceled", "unsupported"},
          status : Nat, retryAfter : Nat]

NoError == [kind |-> "none", status |-> 0, retryAfter |-> 0]

ASSUME RouterAssumption ==
    /\ StreamProviders \subseteq Providers
    /\ MediaProviders \subseteq Providers
    /\ "none" \notin Providers
    /\ IsFiniteSet(Providers) /\ IsFiniteSet(Requests)
    /\ Kinds \subseteq AllKinds
    /\ Chains \subseteq Seq(Providers)
    /\ MaxRetries \in Nat
    /\ RetryCodes \subseteq Nat
    /\ Failures \subseteq Error
    /\ MaxBreakers \in Nat \ {0}
    /\ MaxClock \in Nat

Breakers == 1..MaxBreakers

VARIABLES
    entries,    \* breaker -> provider -> circuitEntry
    lastProbe,  \* breaker -> lastProbe
    openedAt,   \* history, as in CircuitBreaker
    now,        \* the clock
    breaker,    \* r.breakers: the breaker in use
    req,        \* request -> the locals of its loop
    tried,      \* history: request -> providers that refused or failed it
    lateCalls   \* history: request -> calls begun after its context ended

breakerVars == <<entries, lastProbe, openedAt>>
vars == <<entries, lastProbe, openedAt, now, breaker, req, tried, lateCalls>>

\* The zero Admission: the request has no call to report.
NoAdmission == [breaker |-> 0, provider |-> "none", probe |-> 0, at |-> 0]

Admission ==
    [breaker : Breakers, provider : Providers, probe : Nat, at : Nat]

Results == {"none", "ok", "canceled", "exhausted", "no-provider"}

Request ==
    [pc        : {"idle", "try", "call", "failed", "wait", "done"},
     kind      : AllKinds,
     chain     : Chains \cup {<<>>},
     hasRoute  : BOOLEAN,
     i         : Nat,                               \* index in the chain
     attempt   : Nat,
     admission : Admission \cup {NoAdmission},
     ctxDone   : BOOLEAN,                           \* ctx.Err() # nil
     err       : Failures \cup {NoError},           \* what the last call returned
     result    : Results]

TypeOK ==
    /\ entries \in [Breakers -> [Providers -> Entry]]
    /\ lastProbe \in [Breakers -> Nat]
    /\ openedAt \in [Breakers -> [Providers -> Nat]]
    /\ now \in 0..MaxClock
    /\ breaker \in Breakers
    /\ req \in [Requests -> Request]
    /\ tried \in [Requests -> SUBSET Providers]
    /\ lateCalls \in [Requests -> Nat]

Init ==
    /\ entries = [b \in Breakers |-> [p \in Providers |-> NewEntry]]
    /\ lastProbe = [b \in Breakers |-> 0]
    /\ openedAt = [b \in Breakers |-> [p \in Providers |-> 0]]
    /\ now = 0
    /\ breaker = 1
    /\ req = [r \in Requests |->
                [pc |-> "idle", kind |-> "chat", chain |-> <<>>,
                 hasRoute |-> FALSE, i |-> 1, attempt |-> 0,
                 admission |-> NoAdmission, ctxDone |-> FALSE,
                 err |-> NoError, result |-> "none"]]
    /\ tried = [r \in Requests |-> {}]
    /\ lateCalls = [r \in Requests |-> 0]

-----------------------------------------------------------------------------
(* errors.go                                                               *)

transientStatus(code) == code \in {408, 409, 425, 429} \/ code >= 500

isRetryable(err) ==
    /\ err.kind # "unsupported"
    /\ IF RetryCodes = {}
       THEN err.status = 0 \/ transientStatus(err.status)
       ELSE err.status \in RetryCodes \ {0}

maxRetryAfterWait == 10

\* A Retry-After hint beyond the limit stops the retries of this provider.
retryWait(err) == err.retryAfter <= maxRetryAfterWait

\* Mutant: an error counts although the caller is gone.
countsIgnoringContext(ctxDone, err) ==
    /\ err.kind \notin {"canceled", "unsupported"}
    /\ err.status \in 400..499 => err.status \in {408, 429}

\* A cancelled call says nothing about the provider, and neither does an
\* error that the request itself causes.
countsAsProviderFailure(ctxDone, err) ==
    /\ ~ctxDone
    /\ err.kind \notin {"canceled", "unsupported"}
    /\ err.status \in 400..499 => err.status \in {408, 429}

-----------------------------------------------------------------------------
(* The loops.                                                              *)

Current(r) == req[r].chain[req[r].i]

InChain(r) == req[r].i <= Len(req[r].chain)

\* How often the current provider may be called.  A stream request falls back
\* to one plain ChatCompletion with a provider that cannot stream.
Attempts(r) ==
    IF \/ req[r].kind = "chat" /\ req[r].hasRoute
       \/ /\ req[r].kind = "stream" /\ req[r].hasRoute
          /\ Current(r) \in StreamProviders
    THEN MaxRetries + 1
    ELSE 1

\* The media loops skip providers without the interface.
Supports(r, p) == req[r].kind = "media" => p \in MediaProviders

\* The request starts: its chain is resolved, and an empty one fails at once.
Start(r) ==
    /\ req[r].pc = "idle"
    /\ \E kind \in Kinds, chain \in Chains, hasRoute \in BOOLEAN :
          req' = [req EXCEPT ![r].kind = kind,
                             ![r].chain = chain,
                             ![r].hasRoute = hasRoute,
                             ![r].pc = IF chain = <<>> THEN "done" ELSE "try",
                             ![r].result = IF chain = <<>> THEN "no-provider"
                                           ELSE "none"]
    /\ UNCHANGED <<breakerVars, now, breaker, tried, lateCalls>>

\* Move on to the next provider of the chain.
NextProvider(r) ==
    /\ req' = [req EXCEPT ![r].pc = "try", ![r].i = @ + 1, ![r].attempt = 0,
                          ![r].err = NoError]
    /\ tried' = [tried EXCEPT ![r] = @ \cup {Current(r)}]

Skip(r) ==
    /\ req[r].pc = "try"
    /\ InChain(r)
    /\ ~Supports(r, Current(r))
    /\ NextProvider(r)
    /\ UNCHANGED <<breakerVars, now, breaker, lateCalls>>

\* allowProvider before the first attempt, reacquire before a retry: the
\* breaker in use now admits the call.  (Reading r.breakers and calling
\* Acquire are two steps in the code; a swap in between is a swap after an
\* Acquire on the old breaker.)
allowProvider(r) ==
    LET p  == Current(r)
        e  == entries[breaker][p]
        id == IF IsProbe(e) THEN lastProbe[breaker] + 1 ELSE 0
    IN  /\ req[r].pc = "try"
        /\ InChain(r)
        /\ Supports(r, p)
        /\ Admits(e, now)
        /\ entries' = [entries EXCEPT ![breaker][p] = AcquireEntry(e, now, id)]
        /\ lastProbe' = [lastProbe EXCEPT ![breaker] = IF IsProbe(e) THEN id ELSE @]
        /\ req' = [req EXCEPT ![r].pc = "call",
                              ![r].admission = [breaker |-> breaker, provider |-> p,
                                                probe |-> id, at |-> now]]
        /\ lateCalls' = [lateCalls EXCEPT ![r] = IF req[r].ctxDone THEN @ + 1 ELSE @]
        /\ UNCHANGED <<openedAt, now, breaker, tried>>

\* The breaker refuses: the loop goes on with the next provider.
Refused(r) ==
    /\ req[r].pc = "try"
    /\ InChain(r)
    /\ Supports(r, Current(r))
    /\ ~Admits(entries[breaker][Current(r)], now)
    /\ NextProvider(r)
    /\ UNCHANGED <<breakerVars, now, breaker, lateCalls>>

\* The chain is used up.
Exhaust(r) ==
    /\ req[r].pc = "try"
    /\ ~InChain(r)
    /\ req' = [req EXCEPT ![r].pc = "done", ![r].result = "exhausted"]
    /\ UNCHANGED <<breakerVars, now, breaker, tried, lateCalls>>

\* Mutant: the report goes to the breaker that is in use now.
ReportToCurrent(r, e) ==
    LET a == req[r].admission
    IN  /\ entries' = [entries EXCEPT ![breaker][a.provider] = e]
        /\ openedAt' = IF e.state = "open"
                          /\ entries[breaker][a.provider].state # "open"
                       THEN [openedAt EXCEPT ![breaker][a.provider] = now]
                       ELSE openedAt
        /\ UNCHANGED lastProbe

\* A report on the admission of r: to the breaker that granted it.
Report(r, e) ==
    LET a == req[r].admission
    IN  /\ entries' = [entries EXCEPT ![a.breaker][a.provider] = e]
        /\ openedAt' = IF e.state = "open"
                          /\ entries[a.breaker][a.provider].state # "open"
                       THEN [openedAt EXCEPT ![a.breaker][a.provider] = now]
                       ELSE openedAt
        /\ UNCHANGED lastProbe

AdmissionEntry(r) == entries[req[r].admission.breaker][req[r].admission.provider]

\* The provider answers.
Answer(r) ==
    /\ req[r].pc = "call"
    /\ Report(r, SuccessEntry(AdmissionEntry(r)))
    /\ req' = [req EXCEPT ![r].pc = "done", ![r].result = "ok",
                          ![r].admission = NoAdmission]
    /\ UNCHANGED <<now, breaker, tried, lateCalls>>

\* An error that does not count gives the admission back.
recordAttemptFailure(r, err) ==
    IF countsAsProviderFailure(req[r].ctxDone, err)
    THEN Report(r, FailureEntry(AdmissionEntry(r), now, req[r].admission.probe))
    ELSE Report(r, ReleaseEntry(AdmissionEntry(r), req[r].admission.probe))

\* The provider fails.  ctx.Err() is read here for the blame and again in the
\* next step for the control flow: the caller may cancel in between.
Fail(r, err) ==
    /\ req[r].pc = "call"
    /\ recordAttemptFailure(r, err)
    /\ req' = [req EXCEPT ![r].pc = "failed", ![r].err = err,
                          ![r].admission = NoAdmission]
    /\ UNCHANGED <<now, breaker, tried, lateCalls>>

CallerGone(r) ==
    /\ req[r].pc = "failed"
    /\ req[r].ctxDone
    /\ req' = [req EXCEPT ![r].pc = "done",
                          ![r].result = IF req[r].kind = "media" THEN "exhausted"
                                        ELSE "canceled",
                          ![r].err = NoError]
    /\ UNCHANGED <<breakerVars, now, breaker, tried, lateCalls>>

\* Mutant: a retry forgets to count itself.
RetryWithoutCounting(r) ==
    /\ req[r].pc = "failed"
    /\ ~req[r].ctxDone
    /\ isRetryable(req[r].err)
    /\ retryWait(req[r].err)
    /\ req[r].attempt + 1 < Attempts(r)
    /\ req' = [req EXCEPT ![r].pc = "wait", ![r].err = NoError]
    /\ UNCHANGED <<breakerVars, now, breaker, tried, lateCalls>>

\* Another attempt with the same provider, after the backoff.
Retry(r) ==
    /\ req[r].pc = "failed"
    /\ ~req[r].ctxDone
    /\ isRetryable(req[r].err)
    /\ retryWait(req[r].err)
    /\ req[r].attempt + 1 < Attempts(r)
    /\ req' = [req EXCEPT ![r].pc = "wait", ![r].attempt = @ + 1,
                          ![r].err = NoError]
    /\ UNCHANGED <<breakerVars, now, breaker, tried, lateCalls>>

\* Mutant: the fallback does not look whether the caller is still there.
FallbackIgnoringCancel(r) ==
    /\ req[r].pc = "failed"
    /\ ~(/\ isRetryable(req[r].err)
         /\ retryWait(req[r].err)
         /\ req[r].attempt + 1 < Attempts(r))
    /\ NextProvider(r)
    /\ UNCHANGED <<breakerVars, now, breaker, lateCalls>>

\* No further attempt with this provider: fall back to the next one.
Fallback(r) ==
    /\ req[r].pc = "failed"
    /\ ~req[r].ctxDone
    /\ ~(/\ isRetryable(req[r].err)
         /\ retryWait(req[r].err)
         /\ req[r].attempt + 1 < Attempts(r))
    /\ NextProvider(r)
    /\ UNCHANGED <<breakerVars, now, breaker, lateCalls>>

\* waitForRetry: the timer and the context race when both are ready.
WaitOver(r) ==
    /\ req[r].pc = "wait"
    /\ req' = [req EXCEPT ![r].pc = "try"]
    /\ UNCHANGED <<breakerVars, now, breaker, tried, lateCalls>>

WaitCanceled(r) ==
    /\ req[r].pc = "wait"
    /\ req[r].ctxDone
    /\ req' = [req EXCEPT ![r].pc = "done", ![r].result = "canceled"]
    /\ UNCHANGED <<breakerVars, now, breaker, tried, lateCalls>>

-----------------------------------------------------------------------------
(* The environment.                                                        *)

\* The caller disconnects or its deadline passes.
Cancel(r) ==
    /\ req[r].pc \notin {"idle", "done"}
    /\ ~req[r].ctxDone
    /\ req' = [req EXCEPT ![r].ctxDone = TRUE]
    /\ UNCHANGED <<breakerVars, now, breaker, tried, lateCalls>>

\* A reload that changes the breaker settings installs a fresh breaker.
SetCircuitBreaker ==
    /\ breaker < MaxBreakers
    /\ breaker' = breaker + 1
    /\ UNCHANGED <<breakerVars, now, req, tried, lateCalls>>

Tick ==
    /\ now < MaxClock
    /\ now' = now + 1
    /\ UNCHANGED <<breakerVars, breaker, req, tried, lateCalls>>

Step(r) ==
    \/ Skip(r)
    \/ allowProvider(r)
    \/ Refused(r)
    \/ Exhaust(r)
    \/ Answer(r)
    \/ \E err \in Failures : Fail(r, err)
    \/ CallerGone(r)
    \/ Retry(r)
    \/ Fallback(r)
    \/ WaitOver(r)
    \/ WaitCanceled(r)

\* Every request has ended: the model may stop.
AllDone ==
    /\ \A r \in Requests : req[r].pc = "done"
    /\ UNCHANGED vars

Next ==
    \/ \E r \in Requests : Start(r)
    \/ \E r \in Requests : Step(r)
    \/ \E r \in Requests : Cancel(r)
    \/ SetCircuitBreaker
    \/ Tick
    \/ AllDone

Spec == Init /\ [][Next]_vars

-----------------------------------------------------------------------------
(* Properties.                                                             *)

\* The admissions of breaker b that are not reported yet, as CircuitBreaker
\* keeps them.
HeldOf(b) ==
    [r \in Requests |->
        IF req[r].admission.breaker = b
        THEN [provider |-> req[r].admission.provider,
              probe    |-> req[r].admission.probe,
              at       |-> req[r].admission.at]
        ELSE [provider |-> "none", probe |-> 0, at |-> 0]]

\* A request acquires once for every attempt with every provider.
ProbeBound == Cardinality(Requests) * Cardinality(Providers) * (MaxRetries + 1)

FirstBreaker == INSTANCE CircuitBreaker WITH
    entries <- entries[1], lastProbe <- lastProbe[1], openedAt <- openedAt[1],
    admission <- HeldOf(1), Calls <- Requests,
    MaxProbes <- ProbeBound, MaxFailures <- 0

LastBreaker == INSTANCE CircuitBreaker WITH
    entries <- entries[MaxBreakers], lastProbe <- lastProbe[MaxBreakers],
    openedAt <- openedAt[MaxBreakers],
    admission <- HeldOf(MaxBreakers), Calls <- Requests,
    MaxProbes <- ProbeBound, MaxFailures <- 0

\* The breaker that a reload retires while calls are out and the one that it
\* installs both see a legal history: what the requests do to each of them is a
\* behaviour of CircuitBreaker, with one report for every admission that it
\* granted, and none for the other's.
RefinesBreakers == FirstBreaker!Spec /\ LastBreaker!Spec

\* A circuit is blamed only for what the provider did: a failure count grows,
\* or a circuit opens, only when a call of a caller that is still there failed,
\* neither canceled nor refused by the adapter, and with no status that blames
\* the request itself.
BlamesOnlyProviderFaults ==
    [][\A b \in Breakers, p \in Providers :
          \/ entries'[b][p].failures > entries[b][p].failures
          \/ entries'[b][p].state = "open" /\ entries[b][p].state # "open"
          => \E r \in Requests :
                /\ req[r].admission.breaker = b /\ req[r].admission.provider = p
                /\ ~req[r].ctxDone
                /\ req'[r].pc = "failed"
                /\ req'[r].err.kind \in {"network", "upstream"}
                /\ req'[r].err.status \notin (400..499) \ {408, 429}]_vars

\* A request whose caller is still there fails only after every provider of
\* its chain refused it, could not serve it or failed it.
ExhaustedMeansAllTried ==
    \A r \in Requests :
        req[r].result = "exhausted" /\ ~req[r].ctxDone =>
            \A k \in 1..Len(req[r].chain) : req[r].chain[k] \in tried[r]

\* After the caller is gone a request begins at most one more provider call,
\* however many retries and fallbacks it has left.
OneCallAfterCancel == \A r \in Requests : lateCalls[r] <= 1

\* Where a request is: at which provider, attempt and point of the attempt.
Position(q) ==
    LET Point == [idle |-> 0, wait |-> 1, try |-> 2, call |-> 3, failed |-> 4,
                  done |-> 5]
    IN  (q.i * (MaxRetries + 1) + q.attempt) * 6 + Point[q.pc]

\* The loops end, whatever the providers and the breakers do: every step of a
\* request leads to a later attempt, a later provider or a later point of the
\* attempt, and attempts and providers are bounded.  (A request that has not
\* ended can always take a step: the runs check for deadlock.)
EveryStepMovesOn ==
    [][\A r \in Requests :
          \/ req'[r] = [req[r] EXCEPT !.ctxDone = req'[r].ctxDone]
          \/ /\ Position(req'[r]) > Position(req[r])
             /\ req'[r].i <= Len(req'[r].chain) + 1
             /\ req'[r].attempt <= MaxRetries]_vars
=============================================================================
