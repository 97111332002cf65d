---------------------------- MODULE ScannerPool ----------------------------
(***************************************************************************)
(* The pool of WASM module instances behind one guardrail Scanner          *)
(* (internal/accel/accel.go): scans acquire an instance, creating one      *)
(* while the pool is below its cap, and release it; Close may run beside   *)
(* them when the guardrail engine is replaced.                             *)
(*                                                                         *)
(* Instances have no identity: the channel s.idle is the number of         *)
(* instances in it.  A scan's program counter:                             *)
(*                                                                         *)
(*    start -> locked -> create -> using -> done                           *)
(*                    -> wait   -> using                                   *)
(*                    -> error, when there is no instance for it           *)
(***************************************************************************)
EXTENDS Naturals, FiniteSets

CONSTANTS
    Scans,      \* calls of Scan and ScanFirst, each made by one goroutine
    PoolSize,   \* s.max
    Faults      \* what may go wrong: "init" of an instance, a "trap" in a scan

PoolAssumption ==
    /\ IsFiniteSet(Scans)
    /\ PoolSize \in Nat \ {0}
    /\ Faults \subseteq {"init", "trap"}

VARIABLES
    created,    \* s.created
    idle,       \* instances in s.idle
    closed,     \* s.closed, and s.done is closed
    faults,     \* what goes wrong with this scanner's module
    pc,         \* scan -> where it is
    open        \* module instances that exist in the WASM runtime

vars == <<created, idle, closed, faults, pc, open>>

\* NewScanner builds the first instance eagerly.
Init ==
    /\ created = 1
    /\ idle = 1
    /\ closed = FALSE
    /\ faults \in SUBSET Faults
    /\ pc = [s \in Scans |-> "start"]
    /\ open = 1

PC == {"start", "locked", "create", "wait", "using", "done", "error"}

\* The channel never holds more than its capacity, so that release, which
\* sends with the lock held, never blocks.
TypeOK ==
    /\ created \in Nat
    /\ idle \in 0..PoolSize
    /\ closed \in BOOLEAN
    /\ faults \subseteq Faults
    /\ pc \in [Scans -> PC]
    /\ open \in Nat

Goto(s, label) == pc' = [pc EXCEPT ![s] = label]
At(label) == {s \in Scans : pc[s] = label}

-----------------------------------------------------------------------------
(* acquire                                                                 *)

\* The first select: an idle instance, or on to the lock.
TryIdle(s) ==
    /\ pc[s] = "start"
    /\ IF idle > 0 THEN idle' = idle - 1 /\ Goto(s, "using")
       ELSE Goto(s, "locked") /\ UNCHANGED idle
    /\ UNCHANGED <<created, closed, faults, open>>

\* Under the lock: a closed pool has nothing, and a pool below its cap may
\* grow.
Grow(s) ==
    /\ pc[s] = "locked"
    /\ IF closed THEN Goto(s, "error") /\ UNCHANGED created
       ELSE IF created < PoolSize THEN created' = created + 1 /\ Goto(s, "create")
       ELSE Goto(s, "wait") /\ UNCHANGED created
    /\ UNCHANGED <<idle, closed, faults, open>>

\* newInstance, without the lock.
Create(s) ==
    /\ pc[s] = "create"
    /\ open' = open + 1
    /\ Goto(s, "using")
    /\ UNCHANGED <<created, idle, closed, faults>>

\* newInstance fails: wait for another instance, if one is counted.
CreateFails(s) ==
    /\ pc[s] = "create"
    /\ "init" \in faults
    /\ created' = created - 1
    /\ Goto(s, IF created' = 0 THEN "error" ELSE "wait")
    /\ UNCHANGED <<idle, closed, faults, open>>

\* The second select.
Take(s) ==
    /\ pc[s] = "wait"
    /\ idle > 0
    /\ idle' = idle - 1
    /\ Goto(s, "using")
    /\ UNCHANGED <<created, closed, faults, open>>

GiveUp(s) ==
    /\ pc[s] = "wait"
    /\ closed
    /\ Goto(s, "error")
    /\ UNCHANGED <<created, idle, closed, faults, open>>

-----------------------------------------------------------------------------
(* release, Close                                                          *)

\* Mutant: an instance goes back although the pool was closed meanwhile.
KeepsAfterClose(broken) == ~broken

\* Mutant: the instance is closed after every scan.
KeepsNone(broken) == FALSE

\* Only a sound instance of an open pool is kept.
Keeps(broken) == ~closed /\ ~broken

\* The scan ends, in a trap or not, and its instance is released.
release(s) ==
    /\ pc[s] = "using"
    /\ \E broken \in BOOLEAN :
          /\ broken => "trap" \in faults
          /\ IF Keeps(broken) THEN idle' = idle + 1 /\ UNCHANGED <<created, open>>
             ELSE created' = created - 1 /\ open' = open - 1 /\ UNCHANGED idle
    /\ Goto(s, "done")
    /\ UNCHANGED <<closed, faults>>

\* The idle instances are closed, the others when their scans end.
Close ==
    /\ ~closed
    /\ closed' = TRUE
    /\ created' = created - idle
    /\ open' = open - idle
    /\ idle' = 0
    /\ UNCHANGED <<faults, pc>>

-----------------------------------------------------------------------------
Acquire(s) == TryIdle(s) \/ Grow(s) \/ Create(s) \/ CreateFails(s) \/ Take(s) \/ GiveUp(s)

Next == (\E s \in Scans : Acquire(s) \/ release(s)) \/ Close

\* Goroutines run and WASM calls end; nobody has to close the pool.
Fairness == \A s \in Scans : WF_vars(Acquire(s) \/ release(s))

Spec == Init /\ [][Next]_vars /\ Fairness

-----------------------------------------------------------------------------
(* Properties.                                                             *)

\* "maxPoolSize caps how many module instances one Scanner creates": at most
\* PoolSize modules exist at once, also while instances are being created
\* without the lock, break, and outlive Close.
PoolBounded == open <= PoolSize

\* After Close, an instance is open only while a scan uses or creates it:
\* "instances in use by a concurrent scan are closed when that scan finishes".
ClosedLeavesNone == closed => open <= Cardinality(At("using"))

\* Scans that begin or wait when the pool is closed end.
CloseEndsAll == closed ~> \A s \in Scans : pc[s] \in {"done", "error"}

\* With a module that neither fails to start nor traps, every scan gets an
\* instance and ends: release hands instances on to those who wait.
EveryScanEnds == faults = {} ~> \A s \in Scans : pc[s] \in {"done", "error"}

\* "Nothing to wait for: no other instance exists": a scan waits in an open
\* pool only if an instance exists, or is being created, that can be released.
\* Refuted: release of a broken instance wakes nobody.
WaitsForSomething ==
    At("wait") # {} /\ ~closed => idle > 0 \/ At("using") \cup At("create") # {}
=============================================================================
