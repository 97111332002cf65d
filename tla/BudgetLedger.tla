---------------------------- MODULE BudgetLedger ----------------------------
(***************************************************************************)
(* The budget ledger of one gateway process                                *)
(* (internal/gateway/budget_ledger.go, budget.go, logRequest in gateway.go)*)
(* for one scope, an API key with a budget, together with the two store    *)
(* writes that end a request.                                              *)
(*                                                                         *)
(* Amounts are kept as the set of requests whose charges they sum up: the  *)
(* spend in the store, the snapshot, the pending, done and lost charges    *)
(* and the reservations are sets of requests, and a total is the sum of    *)
(* the costs of a set.  A done bucket of generation g is the pairs <<r, g>>*)
(* Token budgets have the shape of the monthly cost budget and are left    *)
(* out.  Time is the age of a snapshot: "fresh", "due" for a refresh, or   *)
(* "stale" (older than maxStale).                                          *)
(***************************************************************************)
EXTENDS Integers, FiniteSets, FiniteSetsExt

CONSTANTS
    Requests,
    LifetimeLimit,      \* limits.LifetimeCost, 0 for none
    MonthlyLimit,       \* limits.MonthlyCost, 0 for none
    Estimates,          \* what a request may be estimated to cost
    Costs,              \* what a request may turn out to cost
    FailOpen,           \* SetBudgetFailOpen
    MaxMonth,           \* bound: months that pass
    MaxAges             \* bound: times the snapshot ages, and other scopes evict

ASSUME BudgetAssumption ==
    /\ LifetimeLimit \in Nat /\ MonthlyLimit \in Nat
    /\ LifetimeLimit > 0 \/ MonthlyLimit > 0
    /\ Estimates \subseteq Nat /\ Costs \subseteq Nat
    /\ FailOpen \in BOOLEAN
    /\ MaxMonth \in Nat /\ MaxAges \in Nat

\* The requests up to any one state of the process.
ASSUME RequestsAssumption == IsFiniteSet(Requests)

VARIABLES
    entry,      \* the ledger's budgetEntry of the scope
    load,       \* the store load that e.loading stands for
    spend,      \* store: requests whose cost is in api_keys.spend_usd
    logs,       \* store: requests whose row is in request_logs
    req,        \* request -> its state
    month,      \* the current UTC month
    ages,       \* how often time has aged the ledger
    forgotten   \* history: requests whose lost charge was evicted

vars == <<entry, load, spend, logs, req, month, ages, forgotten>>

NoMonth == -1

Age == {"fresh", "due", "stale"}

Older(a) == CASE a = "fresh" -> "due" [] OTHER -> "stale"

NewEntry ==
    [present |-> TRUE, hasSnap |-> FALSE, life |-> {}, monthly |-> {},
     snapMonth |-> NoMonth, age |-> "fresh", loading |-> FALSE,
     loadErr |-> FALSE, gen |-> 0, reserved |-> {}, pending |-> {},
     doneLife |-> {}, doneMonthly |-> {}, lostLife |-> {}, lostMonthly |-> {}]

NoEntry == [NewEntry EXCEPT !.present = FALSE]

NoLoad == [phase |-> "off", gen |-> 0, month |-> NoMonth, age |-> "fresh",
           life |-> {}, monthly |-> {}]

Months == 0..MaxMonth

EntryType ==
    [present : BOOLEAN, hasSnap : BOOLEAN,
     life : SUBSET Requests, monthly : SUBSET Requests,
     snapMonth : Months \cup {NoMonth}, age : Age,
     loading : BOOLEAN, loadErr : BOOLEAN, gen : Nat,
     reserved : SUBSET Requests, pending : SUBSET Requests,
     doneLife : SUBSET (Requests \X Nat), doneMonthly : SUBSET (Requests \X Nat),
     lostLife : SUBSET Requests, lostMonthly : SUBSET Requests]

LoadType ==
    [phase : {"off", "key", "usage", "install"}, gen : Nat,
     month : Months \cup {NoMonth}, age : Age,
     life : SUBSET Requests, monthly : SUBSET Requests]

RequestType ==
    [pc : {"idle", "admit", "wait", "load", "run", "stamped", "log", "spend", "finish", "done"},
     est : Estimates \cup {0}, cost : Costs \cup {0}, month : Months \cup {NoMonth},
     ranLoad : BOOLEAN, waits : 0..2, hasRes : BOOLEAN,
     logStored : BOOLEAN, spendStored : BOOLEAN, tracked : BOOLEAN]

TypeOK ==
    /\ entry \in EntryType
    /\ load \in LoadType
    /\ spend \subseteq Requests
    /\ logs \subseteq Requests
    /\ req \in [Requests -> RequestType]
    /\ month \in Months
    /\ ages \in 0..MaxAges
    /\ forgotten \subseteq Requests

Init ==
    /\ entry = NoEntry
    /\ load = NoLoad
    /\ spend = {}
    /\ logs = {}
    /\ req = [r \in Requests |->
                [pc |-> "idle", est |-> 0, cost |-> 0, month |-> NoMonth,
                 ranLoad |-> FALSE, waits |-> 0, hasRes |-> FALSE,
                 logStored |-> FALSE, spendStored |-> FALSE,
                 tracked |-> FALSE]]
    /\ month = 0
    /\ ages = 0
    /\ forgotten = {}

-----------------------------------------------------------------------------
(* Totals.                                                                 *)

CostOf(S) == SumFunctionOnSet([r \in Requests |-> req[r].cost], S)
EstimateOf(S) == SumFunctionOnSet([r \in Requests |-> req[r].est], S)

\* The requests of a set of done buckets.
DoneOf(buckets) == {pair[1] : pair \in buckets}

InMonth(S, m) == {r \in S : req[r].month = m}

\* committed: snapshot plus local charges, each record counted where it is.
committedLifetime(e) ==
    CostOf(e.life) + CostOf(e.pending) + CostOf(DoneOf(e.doneLife)) + CostOf(e.lostLife)

committedMonthly(e) ==
    (IF e.snapMonth = month THEN CostOf(e.monthly) ELSE 0)
    + CostOf(InMonth(e.pending, month))
    + CostOf(InMonth(DoneOf(e.doneMonthly), month))
    + CostOf(InMonth(e.lostMonthly, month))

busy(e) == e.reserved # {} \/ e.pending # {} \/ e.loading

\* Mutant: the reservations of running requests are not counted.
ExceedsIgnoringReserved(limit, used, reserved, est) ==
    limit > 0 /\ (used >= limit \/ (est > 0 /\ used + est > limit))

\* One limit of budgetDenial.
Exceeds(limit, used, reserved, est) ==
    limit > 0 /\ (used >= limit \/ (est > 0 /\ used + reserved + est > limit))

budgetDenial(e, est) ==
    \/ Exceeds(LifetimeLimit, committedLifetime(e), EstimateOf(e.reserved), est)
    \/ Exceeds(MonthlyLimit, committedMonthly(e), EstimateOf(e.reserved), est)

-----------------------------------------------------------------------------
(* Admission.  Every pass through the loop of admit is one step under l.mu.*)

\* entryLocked when the ledger has room.
entryLocked == IF entry.present THEN entry ELSE NewEntry

Usable(e) ==
    /\ e.hasSnap
    /\ e.age # "stale"
    /\ MonthlyLimit > 0 => e.snapMonth = month

\* admit returns: its locals are gone, and the request runs or is rejected.
Verdict(q, runs, reserves) ==
    [q EXCEPT !.pc = IF runs THEN "run" ELSE "done", !.hasRes = reserves,
              !.ranLoad = FALSE, !.waits = 0]

\* The verdict of reserveBudget when the budget state cannot be read.
Unavailable(r) == req' = [req EXCEPT ![r] = Verdict(@, FailOpen, FALSE)]

\* A request with a budgeted key asks for admission.
Start(r) ==
    /\ req[r].pc = "idle"
    /\ \E est \in Estimates :
          req' = [req EXCEPT ![r].pc = "admit", ![r].est = est]
    /\ UNCHANGED <<entry, load, spend, logs, month, ages, forgotten>>

\* The ledger is full of busy entries of other scopes.
AdmitFull(r) ==
    /\ req[r].pc = "admit"
    /\ ~entry.present
    /\ Unavailable(r)
    /\ UNCHANGED <<entry, load, spend, logs, month, ages, forgotten>>

\* No usable snapshot, and no further load may be tried.
AdmitUnavailable(r) ==
    LET e == entryLocked
    IN  /\ req[r].pc = "admit"
        /\ ~Usable(e)
        /\ \/ req[r].ranLoad
           \/ req[r].waits >= 2
           \/ ~e.loading /\ e.loadErr
        /\ Unavailable(r)
        /\ entry' = e
        /\ UNCHANGED <<load, spend, logs, month, ages, forgotten>>

\* Wait for the load that is running.
AdmitWait(r) ==
    LET e == entryLocked
    IN  /\ req[r].pc = "admit"
        /\ ~Usable(e)
        /\ ~req[r].ranLoad /\ req[r].waits < 2
        /\ e.loading
        /\ req' = [req EXCEPT ![r].pc = "wait"]
        /\ UNCHANGED <<entry, load, spend, logs, month, ages, forgotten>>

\* Mutant: a load does not open a new generation.
startLoadSameGen(e) ==
    /\ entry' = [e EXCEPT !.loading = TRUE]
    /\ load' = [NoLoad EXCEPT !.phase = "key", !.gen = e.gen, !.month = month]

\* startLoadLocked: the load starts at the current generation and opens the
\* next one.
startLoadLocked(e) ==
    /\ entry' = [e EXCEPT !.loading = TRUE, !.gen = @ + 1]
    /\ load' = [NoLoad EXCEPT !.phase = "key", !.gen = e.gen, !.month = month]

\* Run a load of its own.
AdmitLoad(r) ==
    LET e == entryLocked
    IN  /\ req[r].pc = "admit"
        /\ ~Usable(e)
        /\ ~req[r].ranLoad /\ req[r].waits < 2
        /\ ~e.loading
        /\ ~e.loadErr
        /\ startLoadLocked(e)
        /\ req' = [req EXCEPT ![r].pc = "load"]
        /\ UNCHANGED <<spend, logs, month, ages, forgotten>>

\* A usable snapshot decides.  One that is due is refreshed in the background.
AdmitDecide(r) ==
    LET e == entryLocked
        denied == budgetDenial(e, req[r].est)
        f == IF denied THEN e ELSE [e EXCEPT !.reserved = @ \cup {r}]
    IN  /\ req[r].pc = "admit"
        /\ Usable(e)
        /\ IF e.age = "due" /\ ~e.loading /\ ~e.loadErr
           THEN startLoadLocked(f)
           ELSE entry' = f /\ UNCHANGED load
        /\ req' = [req EXCEPT ![r] = Verdict(@, ~denied, ~denied)]
        /\ UNCHANGED <<spend, logs, month, ages, forgotten>>

\* The caller of a request that waits gives up.
WaitCanceled(r) ==
    /\ req[r].pc = "wait"
    /\ Unavailable(r)
    /\ UNCHANGED <<entry, load, spend, logs, month, ages, forgotten>>

-----------------------------------------------------------------------------
(* runLoad with the loader of storeBudgetLoader: two reads of the store,   *)
(* then the snapshot is installed under the lock.                          *)

\* GetAPIKeyByID: limits and lifetime spend.
LoadKey ==
    /\ load.phase = "key"
    /\ load' = [load EXCEPT !.phase = IF MonthlyLimit > 0 THEN "usage" ELSE "install",
                            !.life = spend]
    /\ UNCHANGED <<entry, spend, logs, req, month, ages, forgotten>>

\* GetBudgetUsage: the rows since the start of the month the load was made for.
LoadUsage ==
    /\ load.phase = "usage"
    /\ load' = [load EXCEPT !.phase = "install",
                            !.monthly = {r \in logs : req[r].month >= load.month}]
    /\ UNCHANGED <<entry, spend, logs, req, month, ages, forgotten>>

\* The load's channel is closed: the request that ran the load itself, if any,
\* and those that waited for it go on.
Woken(q, ok) ==
    IF q.pc = "wait" THEN [q EXCEPT !.pc = "admit", !.waits = @ + 1]
    ELSE IF q.pc # "load" THEN q
    ELSE IF ok THEN [q EXCEPT !.pc = "admit", !.ranLoad = TRUE]
    ELSE Verdict(q, FailOpen, FALSE)

WakeAll(ok) == req' = [r \in Requests |-> Woken(req[r], ok)]

\* Charges that finished before the load started are in its snapshot; those
\* that finished while it ran are kept.
Kept(buckets, gen) == {pair \in buckets : pair[2] > gen}

LoadInstall ==
    /\ load.phase = "install"
    /\ entry' = [entry EXCEPT !.loading = FALSE, !.hasSnap = TRUE,
                              !.life = load.life, !.monthly = load.monthly,
                              !.snapMonth = IF MonthlyLimit > 0 THEN load.month
                                            ELSE NoMonth,
                              !.age = load.age, !.loadErr = FALSE,
                              !.doneLife = Kept(@, load.gen),
                              !.doneMonthly = Kept(@, load.gen)]
    /\ load' = NoLoad
    /\ WakeAll(TRUE)
    /\ UNCHANGED <<spend, logs, month, ages, forgotten>>

\* Mutant: a failed load leaves its channel in the entry.
LoadFailsKeepsLoading ==
    /\ load.phase \in {"key", "usage"}
    /\ entry' = [entry EXCEPT !.loadErr = TRUE]
    /\ load' = NoLoad
    /\ WakeAll(FALSE)
    /\ UNCHANGED <<spend, logs, month, ages, forgotten>>

\* A read fails or budgetLoadTimeout passes.
LoadFails ==
    /\ load.phase \in {"key", "usage"}
    /\ entry' = [entry EXCEPT !.loading = FALSE, !.loadErr = TRUE]
    /\ load' = NoLoad
    /\ WakeAll(FALSE)
    /\ UNCHANGED <<spend, logs, month, ages, forgotten>>

-----------------------------------------------------------------------------
(* The end of a request.                                                   *)

\* The deferred release of a request that ends without a charge.
Release(r) ==
    /\ req[r].pc = "run"
    /\ entry' = [entry EXCEPT !.reserved = @ \ {r}]
    /\ req' = [req EXCEPT ![r].pc = "done", ![r].hasRes = FALSE]
    /\ UNCHANGED <<load, spend, logs, month, ages, forgotten>>

\* logRequest fixes the timestamp, and with it the month, of the row.
Stamp(r) ==
    /\ req[r].pc = "run"
    /\ \E cost \in Costs :
          req' = [req EXCEPT ![r].pc = "stamped", ![r].cost = cost,
                             ![r].month = month]
    /\ UNCHANGED <<entry, load, spend, logs, month, ages, forgotten>>

\* beginCharge: the reservation becomes a pending charge in one step.  Without
\* a reservation only an entry that exists takes the charge.
beginCharge(r) ==
    /\ req[r].pc = "stamped"
    /\ entry' = IF entry.present
                THEN [entry EXCEPT !.reserved = @ \ {r}, !.pending = @ \cup {r}]
                ELSE entry
    /\ req' = [req EXCEPT ![r].pc = "log", ![r].hasRes = FALSE,
                          ![r].tracked = entry.present]
    /\ UNCHANGED <<load, spend, logs, month, ages, forgotten>>

\* InsertLog.  A write that reports an error may have been applied.
InsertLog(r) ==
    /\ req[r].pc = "log"
    /\ \E applied, stored \in BOOLEAN :
          /\ stored => applied
          /\ logs' = IF applied THEN logs \cup {r} ELSE logs
          /\ req' = [req EXCEPT ![r].pc = "spend", ![r].logStored = stored]
    /\ UNCHANGED <<entry, load, spend, month, ages, forgotten>>

\* IncrementAPIKeySpend, for a positive cost, whatever InsertLog returned.
IncrementAPIKeySpend(r) ==
    /\ req[r].pc = "spend"
    /\ IF req[r].cost > 0
       THEN \E applied, stored \in BOOLEAN :
               /\ stored => applied
               /\ spend' = IF applied THEN spend \cup {r} ELSE spend
               /\ req' = [req EXCEPT ![r].pc = "finish", ![r].spendStored = stored]
       ELSE /\ req' = [req EXCEPT ![r].pc = "finish", ![r].spendStored = TRUE]
            /\ UNCHANGED spend
    /\ UNCHANGED <<entry, load, logs, month, ages, forgotten>>

\* finish: the stored parts join the bucket of the current generation, the
\* others are kept as lost charges.
finish(r) ==
    LET bucket == {<<r, entry.gen>>}
    IN  /\ req[r].pc = "finish"
        /\ entry' = IF req[r].tracked
                    THEN [entry EXCEPT
                            !.pending = @ \ {r},
                            !.doneLife = IF req[r].spendStored THEN @ \cup bucket ELSE @,
                            !.lostLife = IF req[r].spendStored THEN @ ELSE @ \cup {r},
                            !.doneMonthly = IF req[r].logStored THEN @ \cup bucket ELSE @,
                            !.lostMonthly = IF req[r].logStored THEN @ ELSE @ \cup {r}]
                    ELSE entry
        /\ req' = [req EXCEPT ![r].pc = "done", ![r].tracked = FALSE,
                              ![r].logStored = FALSE, ![r].spendStored = FALSE]
        /\ UNCHANGED <<load, spend, logs, month, ages, forgotten>>

-----------------------------------------------------------------------------
(* Time and the other scopes.                                              *)

\* Refresh interval and maxStale pass, for the snapshot and for a load that is
\* running (snapAt is when the load started).
SnapshotAges ==
    /\ ages < MaxAges
    /\ entry.hasSnap \/ entry.loading
    /\ ages' = ages + 1
    /\ entry' = [entry EXCEPT !.age = Older(@)]
    /\ load' = IF load.phase = "off" THEN load ELSE [load EXCEPT !.age = Older(@)]
    /\ UNCHANGED <<spend, logs, req, month, forgotten>>

\* retryBackoff passes after a failed load.
BackoffOver ==
    /\ entry.loadErr
    /\ entry' = [entry EXCEPT !.loadErr = FALSE]
    /\ UNCHANGED <<load, spend, logs, req, month, ages, forgotten>>

NextMonth ==
    /\ month < MaxMonth
    /\ month' = month + 1
    /\ UNCHANGED <<entry, load, spend, logs, req, ages, forgotten>>

\* evictIdleLocked, or evictOneLocked for another scope: only an entry that is
\* not busy.
Evict ==
    /\ ages < MaxAges
    /\ entry.present
    /\ ~busy(entry)
    /\ ages' = ages + 1
    /\ entry' = NoEntry
    /\ forgotten' = forgotten \cup entry.lostLife \cup entry.lostMonthly
    /\ UNCHANGED <<load, spend, logs, req, month>>

Load == LoadKey \/ LoadUsage \/ LoadInstall \/ LoadFails

Admit(r) ==
    \/ AdmitFull(r) \/ AdmitUnavailable(r) \/ AdmitWait(r) \/ AdmitLoad(r)
    \/ AdmitDecide(r)

Finish(r) ==
    \/ Release(r) \/ Stamp(r) \/ beginCharge(r) \/ InsertLog(r)
    \/ IncrementAPIKeySpend(r) \/ finish(r)

\* Every request has ended: the model may stop.
AllDone ==
    /\ \A r \in Requests : req[r].pc = "done"
    /\ UNCHANGED vars

Next ==
    \/ \E r \in Requests : Start(r) \/ Admit(r) \/ WaitCanceled(r) \/ Finish(r)
    \/ Load
    \/ SnapshotAges \/ BackoffOver \/ NextMonth \/ Evict
    \/ AllDone

\* A load ends within budgetLoadTimeout; goroutines that can run do.  Nobody
\* has to give up waiting, or to end a request.
Fairness ==
    /\ WF_vars(Load)
    /\ \A r \in Requests : WF_vars(Admit(r))

Spec == Init /\ [][Next]_vars /\ Fairness

-----------------------------------------------------------------------------
(* Properties.                                                             *)

\* The requests that have spent something: beginCharge has been called.
Charged ==
    {r \in Requests :
        /\ req[r].cost > 0
        /\ \/ req[r].pc \in {"log", "spend", "finish"}
           \/ req[r].pc = "done" /\ req[r].month # NoMonth}

\* What the requests cost beyond their estimates.
Overrun ==
    SumFunctionOnSet([r \in Requests |-> IF req[r].cost > req[r].est THEN req[r].cost - req[r].est ELSE 0],
                     Charged)

\* What a snapshot and the local charges should hold of the lifetime spend.
LifetimeNeverMissed ==
    entry.hasSnap =>
        Charged \ forgotten \subseteq
            entry.life \cup entry.pending \cup DoneOf(entry.doneLife) \cup entry.lostLife

\* The same for the usage of the current month.
MonthlyNeverMissed ==
    entry.hasSnap /\ entry.snapMonth = month =>
        InMonth(Charged, month) \ forgotten \subseteq
            entry.monthly \cup entry.pending \cup DoneOf(entry.doneMonthly)
            \cup entry.lostMonthly

\* "so a charge is never missed": once a snapshot is there, every charge this
\* process made is in it or among the local charges, for the lifetime spend and
\* for the month (which a second query reads), whatever the store writes, the
\* reads of a refresh, the generations and the change of the month interleave
\* to.  (The one documented exception: charges that could not be written are
\* counted until the entry is evicted.)
NeverMissed == LifetimeNeverMissed /\ MonthlyNeverMissed

\* "concurrent requests cannot jointly pass a budget that only fits some of
\* them": what was spent, over all or in the current month, and what is reserved
\* stay within the limit, up to what requests cost beyond their own estimates;
\* also when a request admitted in one month is charged in the next.
BudgetsRespected ==
    LET Within(limit, S) ==
          limit > 0 => CostOf(S) + EstimateOf(entry.reserved)
                           <= limit + Overrun + CostOf(forgotten)
    IN  /\ Within(LifetimeLimit, Charged)
        /\ Within(MonthlyLimit, InMonth(Charged, month))

\* "The reservation pins the entry, so it is still in the ledger": a running
\* admitted request finds its reservation, and one that writes its charge finds
\* it pending, in the entry that is in the ledger.
ReservationPinsEntry ==
    \A r \in Requests :
        /\ req[r].hasRes /\ req[r].pc \in {"run", "stamped"} =>
              entry.present /\ r \in entry.reserved
        /\ req[r].tracked /\ req[r].pc \in {"log", "spend", "finish"} =>
              entry.present /\ r \in entry.pending

\* "so the loop cannot spin": every admission check ends in a verdict.
AdmissionEnds ==
    \A r \in Requests :
        req[r].pc \in {"admit", "wait", "load"} ~>
            req[r].pc \notin {"admit", "wait", "load"}
=============================================================================
