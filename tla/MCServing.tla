----------------------------- MODULE MCServing -----------------------------
(***************************************************************************)
(* Four parts of the running gateway that share no state: the settings a   *)
(* reload replaces (HotReload), the scanner pool that a retired engine     *)
(* closes (ScannerPool), the goroutines of one stream (StreamRelay) and    *)
(* the A2A task registry (A2ATasks).  A behaviour exercises one of them,   *)
(* which `part' says.                                                      *)
(***************************************************************************)
EXTENDS MCHotReload, Sequences

CONSTANTS
    Scans, PoolSize, Faults,
    MaxChunks,
    Tasks, Owners, Clients, MaxTasks, MaxPerOwner, TTL, PruneInterval, MaxClock

VARIABLES
    part,
    created, idle, closed, faults, pc, open,
    script, producer, starter, relay, consumer, timer, ctxDone, upstreamDone,
    attemptDone, draining,
    now, lastPrune, owners, lock, evicting, task, client, pruned, finished

poolVars == <<created, idle, closed, faults, pc, open>>
streamVars == <<script, producer, starter, relay, consumer, timer, ctxDone,
                upstreamDone, attemptDone, draining>>
taskVars == <<now, lastPrune, owners, lock, evicting, task, client, pruned, finished>>

Pool == INSTANCE ScannerPool
Stream == INSTANCE StreamRelay
Registry == INSTANCE A2ATasks

ASSUME ServingAssumption ==
    Pool!PoolAssumption /\ Stream!ChunksAssumption /\ Registry!TasksAssumption

\* One of the initial states of a part that the behaviour does not exercise.
ReloadRests ==
    /\ file.cfg = CHOOSE c \in Configs \ {Malformed} : TRUE
    /\ environment = CHOOSE e \in Environments : TRUE
    /\ load = CHOOSE l \in Loads : TRUE

ServingInit ==
    /\ part \in {"reload", "scans", "stream", "tasks"}
    /\ Init /\ Pool!Init /\ Stream!Init /\ Registry!Init
    /\ part # "reload" => ReloadRests
    /\ part # "scans" => faults = {}
    /\ part # "stream" => script = CHOOSE x \in Stream!Script : TRUE

ServingNext ==
    /\ UNCHANGED part
    /\ \/ part = "reload" /\ Next /\ UNCHANGED <<poolVars, streamVars, taskVars>>
       \/ part = "scans" /\ Pool!Next /\ UNCHANGED <<vars, streamVars, taskVars>>
       \/ part = "stream" /\ Stream!Next /\ UNCHANGED <<vars, poolVars, taskVars>>
       \/ part = "tasks" /\ Registry!Next /\ UNCHANGED <<vars, poolVars, streamVars>>

servingVars == <<part, vars, poolVars, streamVars, taskVars>>

\* The fairness of HotReload, ScannerPool and StreamRelay.
ServingFairness ==
    /\ WF_vars(part = "reload" /\ startConfigReloader)
    /\ WF_vars(part = "reload" /\ CloseEngine)
    /\ \A s \in Scans : WF_poolVars(part = "scans" /\ (Pool!Acquire(s) \/ Pool!release(s)))
    /\ WF_streamVars(part = "stream" /\ Stream!Producer)
    /\ WF_streamVars(part = "stream" /\ Stream!Drain)
    /\ WF_streamVars(part = "stream" /\ Stream!Starter)
    /\ WF_streamVars(part = "stream" /\ Stream!TimerFires)
    /\ WF_streamVars(part = "stream" /\ Stream!Relay)
    /\ WF_streamVars(part = "stream" /\ Stream!Consumer)

ServingSpec == ServingInit /\ [][ServingNext]_servingVars /\ ServingFairness

\* HotReload's properties are checked as they are.

\* A closed pool leaves no instance behind (ScannerPool).
ClosedLeavesNone == Pool!ClosedLeavesNone

\* With a sound module every scan ends (ScannerPool).
EveryScanEnds == part = "scans" => Pool!EveryScanEnds

\* Only a whole answer counts as complete (StreamRelay).
CompleteMeansWhole == Stream!CompleteMeansWhole

\* No goroutine of a stream is left behind (StreamRelay).
NoGoroutineLeft == part = "stream" => Stream!NoGoroutineLeft

\* What an eviction drops is stopped (A2ATasks).
EvictedAreStopped == Registry!EvictedAreStopped

\* The state a task ended in is final (A2ATasks).
TerminalIsFinal == Registry!TerminalIsFinal
=============================================================================
