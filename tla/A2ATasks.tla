----------------------------- MODULE A2ATasks -----------------------------
(***************************************************************************)
(* The registry of A2A tasks (internal/gateway/a2a_tasks.go) under the     *)
(* SendMessage and CancelTask handlers of a2a.go.  Each task is driven by  *)
(* one SendMessage handler:                                                *)
(*                                                                         *)
(*    idle -> new -> put -> [scan -> evict]* -> working -> done            *)
(*                                                                         *)
(* put holds the store's mutex, but the tasks it looks at have mutexes of  *)
(* their own: they complete, fail and are cancelled while an eviction      *)
(* scans its owner's list, so the scan is one step per task.  A list is the *)
(* set of its tasks, each with the number of its insertion.                *)
(***************************************************************************)
EXTENDS Naturals, FiniteSets, FiniteSetsExt

CONSTANTS
    Tasks,          \* one per SendMessage request
    Owners,         \* API key and workspace
    Clients,        \* CancelTask requests
    MaxTasks,       \* s.max
    MaxPerOwner,    \* s.maxPerOwner
    TTL,            \* s.ttl
    PruneInterval,  \* a2aPruneInterval
    MaxClock        \* bound: the clock stops here

NoTask == "none"

TasksAssumption ==
    /\ NoTask \notin Tasks
    /\ MaxTasks \in Nat \ {0} /\ MaxPerOwner \in Nat \ {0}
    /\ TTL \in Nat /\ PruneInterval \in Nat /\ MaxClock \in Nat /\ PruneInterval <= MaxClock

VARIABLES
    now,
    lastPrune,  \* s.lastPrune
    owners,     \* s.owners: owner -> its tasks
    lock,       \* s.mu: the task whose put holds it
    evicting,   \* locals of evictLocked: owner, tasks not asked yet, victim
    task,       \* task -> its fields and the pc of its SendMessage handler
    client,     \* client -> the task a2aCallerTask gave it
    pruned,     \* history: tasks that were dropped because of their age
    finished    \* history: tasks that were terminal when the eviction began

vars == <<now, lastPrune, owners, lock, evicting, task, client, pruned, finished>>

State == {"working", "completed", "canceled", "failed"}

isTerminal(state) == state \in {"completed", "canceled", "failed"}

Pcs == {"idle", "new", "put", "scan", "evict", "working", "done"}

\* stopped: the handler's context was cancelled; cancel: t.cancel is set;
\* place: the number of its insertion, which orders the lists of s.owners.
NewTask(o, t) ==
    [pc |-> "new", owner |-> o, createdAt |-> t, place |-> 0, state |-> "working",
     artifacts |-> 0, cancel |-> TRUE, stopped |-> FALSE]

Unused(o) == [NewTask(o, 0) EXCEPT !.pc = "idle"]

NoEviction(o) == [owner |-> o, left |-> {}, victim |-> NoTask]

TypeOK ==
    /\ now \in 0..MaxClock /\ lastPrune \in 0..MaxClock
    /\ owners \in [Owners -> SUBSET Tasks]
    /\ lock \in Tasks \cup {NoTask}
    /\ evicting \in [owner : Owners, left : SUBSET Tasks, victim : Tasks \cup {NoTask}]
    /\ task \in [Tasks -> [pc : Pcs, owner : Owners, createdAt : 0..MaxClock,
                           place : Nat, state : State, artifacts : 0..1, cancel : BOOLEAN,
                           stopped : BOOLEAN]]
    /\ client \in [Clients -> Tasks \cup {NoTask}]
    /\ pruned \subseteq Tasks /\ finished \subseteq Tasks

\* s.tasks holds exactly the listed tasks.
Stored == UNION {owners[o] : o \in Owners}

\* The zero time of lastPrune is long ago.
Init ==
    /\ now = PruneInterval /\ lastPrune = 0
    /\ owners = [o \in Owners |-> {}]
    /\ lock = NoTask
    /\ evicting = NoEviction(CHOOSE o \in Owners : TRUE)
    /\ task = [t \in Tasks |-> Unused(CHOOSE o \in Owners : TRUE)]
    /\ client = [c \in Clients |-> NoTask]
    /\ pruned = {} /\ finished = {}
-----------------------------------------------------------------------------
(* The SendMessage handler and a2aTaskStore.put.                           *)

newA2ATask(t) ==
    /\ task[t].pc = "idle"
    /\ \E o \in Owners : task' = [task EXCEPT ![t] = NewTask(o, now)]
    /\ UNCHANGED <<now, lastPrune, owners, lock, evicting, client, pruned, finished>>

\* An older task of any state is dropped from the store.
Kept(t) == task[t].createdAt + TTL >= now

prune ==
    IF now - lastPrune >= PruneInterval
    THEN /\ lastPrune' = now
         /\ owners' = [o \in Owners |-> {t \in owners[o] : Kept(t)}]
         /\ pruned' = pruned \cup {t \in Stored : ~Kept(t)}
    ELSE UNCHANGED <<lastPrune, owners, pruned>>

\* put takes the store's mutex and prunes.
PutLock(t) ==
    /\ task[t].pc = "new"
    /\ lock = NoTask
    /\ lock' = t
    /\ task' = [task EXCEPT ![t].pc = "put"]
    /\ prune
    /\ UNCHANGED <<now, evicting, client, finished>>

largestOwners ==
    {o \in Owners : \A q \in Owners : Cardinality(owners[q]) <= Cardinality(owners[o])}

\* The owner that gives up a task before the new one of o fits, if any.
MakesRoom(o) ==
    IF Cardinality(owners[o]) >= MaxPerOwner THEN {o}
    ELSE IF Cardinality(Stored) >= MaxTasks THEN largestOwners
    ELSE {}

\* The first of a list, as a set.
First(list) == {u \in list : \A v \in list : task[u].place <= task[v].place}

\* Unless a terminal task is found, the first of the list leaves.
StartEvict(t) ==
    /\ task[t].pc = "put"
    /\ \E o \in MakesRoom(task[t].owner) : \E first \in First(owners[o]) :
          evicting' = [owner |-> o, left |-> owners[o], victim |-> first]
    /\ finished' = {u \in Tasks : isTerminal(task[u].state)}
    /\ task' = [task EXCEPT ![t].pc = "scan"]
    /\ UNCHANGED <<now, lastPrune, owners, lock, client, pruned>>

\* evictLocked asks one task after the other whether it is terminal.
Scan(t) ==
    /\ task[t].pc = "scan"
    /\ \E u \in First(evicting.left) :
          LET found == isTerminal(task[u].state)
              left  == evicting.left \ {u}
          IN  /\ evicting' = [evicting EXCEPT !.left = left,
                                  !.victim = IF found THEN u ELSE @]
              /\ task' = IF found \/ left = {}
                         THEN [task EXCEPT ![t].pc = "evict"] ELSE task
    /\ UNCHANGED <<now, lastPrune, owners, lock, client, pruned, finished>>

\* Mutant: a task that has to leave is not cancelled.
CancelNobody(u) == task[u]

\* requestCancel: a working task is cancelled and its inference stopped.
requestCancel(u) ==
    IF isTerminal(task[u].state) THEN task[u]
    ELSE [task[u] EXCEPT !.state = "canceled", !.stopped = @ \/ task[u].cancel]

\* The victim leaves the store; put asks again whether there is room.
Evict(t) ==
    /\ task[t].pc = "evict"
    /\ owners' = [owners EXCEPT ![evicting.owner] = @ \ {evicting.victim}]
    /\ task' = [task EXCEPT ![evicting.victim] = requestCancel(evicting.victim),
                            ![t].pc = "put"]
    /\ evicting' = NoEviction(evicting.owner)
    /\ UNCHANGED <<now, lastPrune, lock, client, pruned, finished>>

\* After every task that is listed.
NextPlace == 1 + Max({0} \cup {task[u].place : u \in Stored})

\* There is room: the task is stored, the lock released and inference begins.
Insert(t) ==
    /\ task[t].pc = "put"
    /\ MakesRoom(task[t].owner) = {}
    /\ owners' = [owners EXCEPT ![task[t].owner] = @ \cup {t}]
    /\ lock' = NoTask
    /\ task' = [task EXCEPT ![t].pc = "working", ![t].place = NextPlace]
    /\ finished' = {}
    /\ UNCHANGED <<now, lastPrune, evicting, client, pruned>>

-----------------------------------------------------------------------------
(* The end of the inference, and CancelTask.                               *)

\* Mutant: the answer is recorded whatever became of the task.
CompleteAnyway(t) ==
    [task[t] EXCEPT !.pc = "done", !.cancel = FALSE, !.state = "completed", !.artifacts = @ + 1]

\* complete: a task cancelled meanwhile stays so, and its answer is dropped.
complete(t) ==
    IF task[t].state = "working"
    THEN [task[t] EXCEPT !.pc = "done", !.cancel = FALSE, !.state = "completed",
                         !.artifacts = @ + 1]
    ELSE [task[t] EXCEPT !.pc = "done", !.cancel = FALSE]

fail(t) ==
    [task[t] EXCEPT !.pc = "done", !.cancel = FALSE,
                    !.state = IF @ = "working" THEN "failed" ELSE @]

\* executeCompatibleChat returns, stopped or not; with an error when the
\* caller of SendMessage went away.
Answer(t) ==
    /\ task[t].pc = "working"
    /\ \E ended \in {complete(t), fail(t)} : task' = [task EXCEPT ![t] = ended]
    /\ UNCHANGED <<now, lastPrune, owners, lock, evicting, client, pruned, finished>>

\* a2aCallerTask: a stored task that is not too old, for its owner alone.
get(c) ==
    /\ lock = NoTask
    /\ client[c] = NoTask
    /\ \E t \in Stored :
          /\ now - task[t].createdAt <= TTL
          /\ client' = [client EXCEPT ![c] = t]
    /\ UNCHANGED <<now, lastPrune, owners, lock, evicting, task, pruned, finished>>

\* a2aCancelTask goes on with the task it found, stored or not by now.
CancelTask(c) ==
    /\ client[c] # NoTask
    /\ task' = [task EXCEPT ![client[c]] = requestCancel(client[c])]
    /\ client' = [client EXCEPT ![c] = NoTask]
    /\ UNCHANGED <<now, lastPrune, owners, lock, evicting, pruned, finished>>

Tick ==
    /\ now < MaxClock
    /\ now' = now + 1
    /\ UNCHANGED <<lastPrune, owners, lock, evicting, task, client, pruned, finished>>

SendMessage(t) ==
    \/ newA2ATask(t) \/ PutLock(t) \/ StartEvict(t) \/ Scan(t) \/ Evict(t)
    \/ Insert(t) \/ Answer(t)

Next ==
    \/ \E t \in Tasks : SendMessage(t)
    \/ \E c \in Clients : get(c) \/ CancelTask(c)
    \/ Tick

Spec == Init /\ [][Next]_vars

-----------------------------------------------------------------------------
(* Properties.                                                             *)

\* "An evicted working task is canceled: once it leaves the store no one
\* could cancel it any more" (evictLocked), and "finished ones first": what
\* an eviction drops was finished, or nothing of its owner was when the
\* eviction began and its inference is stopped, although the tasks finish
\* and are cancelled while the eviction looks at them.
EvictedAreStopped ==
    [][\A t \in Stored \ (Stored' \cup pruned') :
          \/ isTerminal(task[t].state)
          \/ /\ finished \cap owners[task[t].owner] = {}
             /\ task'[t].state = "canceled" /\ task'[t].stopped]_vars

\* "A task canceled meanwhile stays canceled and the answer is discarded"
\* (complete): the state a task ended in is final, and only a completed task
\* has an artifact, whichever of the answer, CancelTask and eviction comes first.
TerminalIsFinal ==
    [][\A t \in Tasks :
          /\ isTerminal(task[t].state) => task'[t].state = task[t].state
          /\ task'[t].artifacts > 0 <=> task'[t].state = "completed"]_vars
=============================================================================
