------------------------- MODULE ConfigRouterCache -------------------------
(***************************************************************************)
(* The cache of stored gateway configs (configRouterCache in               *)
(* internal/gateway/config_routers.go) that requests with an               *)
(* x-omniswitch-config header look up by name or id, the gateway_configs   *)
(* table behind it (internal/store/store.go) and the /api/configs handler  *)
(* of the dashboard that changes the table and then invalidates.           *)
(*                                                                         *)
(* An entry is a pointer in the code, so it carries an identity.  An entry *)
(* expires at any time after it was stored.  Config bodies are version     *)
(* numbers.  An LRU is the set of its items, which are numbered as they    *)
(* are used: the back of the list is the item with the least number.       *)
(***************************************************************************)
EXTENDS Naturals, Sequences, FiniteSets, FiniteSetsExt

CONSTANTS
    Ids,            \* config ids
    Names,          \* config names
    Callers,        \* concurrent requests
    Changes,        \* what the dashboard does, a subset of AllChanges
    Capacity,       \* maxCachedConfigKeys
    NegCapacity,    \* maxNegativeConfigRefs
    MaxWrites,      \* bound: changes of the table
    MaxLookups      \* bound: lookups

AllChanges == {"put", "rename", "conflict", "patch"}

CacheAssumption ==
    /\ Ids \cap Names = {} /\ "none" \notin Ids \cup Names \cup Callers
    /\ Changes \subseteq AllChanges
    /\ Capacity \in Nat \ {0, 1}    \* at least the keys of one entry
    /\ NegCapacity \in Nat \ {0}
    /\ MaxWrites \in Nat /\ MaxLookups \in Nat

Refs == Ids \cup Names

NotFound == [id |-> "none", name |-> "none", version |-> 0]

NoRow == [name |-> "none", version |-> 0, enabled |-> FALSE]

VARIABLES
    db,         \* id -> row of gateway_configs
    hist,       \* history: the tables so far, the current one last
    admin,      \* the /api/configs request: the refs it will invalidate
    completed,  \* history: ref -> Len(hist) when it was last invalidated
    changed,    \* history: id -> Len(hist) of the last change to its row
    positive,   \* c.positive: items of key, entry and when it was last used
    negative,   \* c.negative
    inflight,   \* c.inflight: ref -> the caller whose read is shared
    epoch,      \* c.epoch
    expired,    \* entries whose TTL is over
    caller,     \* request -> the locals of its lookup
    lookups,    \* lookups so far; also the identity of the next entry
    uses        \* uses of the LRUs so far

vars == <<db, hist, admin, completed, changed, positive, negative, inflight,
          epoch, expired, caller, lookups, uses>>
tableVars == <<db, hist, admin, completed, changed>>

NoEntry == [eid |-> 0, value |-> NotFound, asOf |-> 0]

\* from, since (history): Len(hist) at the last invalidation before the lookup,
\* of its own reference and of any.
Idle == [pc |-> "idle", ref |-> "none", owner |-> "none", from |-> 0, since |-> 0,
         epoch |-> 0, eid |-> 0, entry |-> NoEntry, ok |-> FALSE]

Init ==
    /\ db = [i \in Ids |-> NoRow]
    /\ hist = <<db>>
    /\ admin = {}
    /\ completed = [r \in Refs |-> 1]
    /\ changed = [i \in Ids |-> 0]
    /\ positive = {}
    /\ negative = {}
    /\ inflight = [r \in Refs |-> "none"]
    /\ epoch = 0
    /\ expired = {}
    /\ caller = [c \in Callers |-> Idle]
    /\ lookups = 0
    /\ uses = 0

Values == [id : Ids, name : Names, version : 1..MaxWrites] \cup {NotFound}
Entries == [eid : 0..MaxLookups, value : Values, asOf : 0..(MaxWrites + 1)]
Items == [key : Refs, entry : Entries, used : Nat]

TypeOK ==
    /\ db \in [Ids -> [name : Names \cup {"none"}, version : 0..MaxWrites,
                       enabled : BOOLEAN]]
    /\ admin \subseteq Refs
    /\ positive \subseteq Items /\ Cardinality(positive) <= Capacity
    /\ negative \subseteq Items /\ Cardinality(negative) <= NegCapacity
    /\ inflight \in [Refs -> Callers \cup {"none"}]
    /\ epoch \in 0..MaxWrites
    /\ expired \subseteq 1..MaxLookups
    /\ caller \in [Callers -> [pc : {"idle", "wait", "load", "store", "done"},
                               ref : Refs \cup {"none"},
                               owner : Callers \cup {"none"},
                               from : 0..(MaxWrites + 1),
                               since : 0..(MaxWrites + 1), epoch : 0..MaxWrites,
                               eid : 0..MaxLookups, entry : Entries,
                               ok : BOOLEAN]]
    /\ lookups \in 0..MaxLookups /\ uses \in Nat

-----------------------------------------------------------------------------
(* configLRU                                                               *)

Has(lru, key) == \E item \in lru : item.key = key
Peek(lru, key) == (CHOOSE item \in lru : item.key = key).entry

Without(lru, key) == {item \in lru : item.key # key}
WithoutEntry(lru, entry) == {item \in lru : item.entry # entry}

Item(key, entry, use) == [key |-> key, entry |-> entry, used |-> use]

MoveToFront(lru, key) == Without(lru, key) \cup {Item(key, Peek(lru, key), uses + 1)}

Back(lru) == CHOOSE item \in lru : \A other \in lru : item.used <= other.used

\* One item too many: the oldest goes, with all the keys of its entry unless
\* that is the entry that is being stored.
EvictOldest(lru, entry, capacity) ==
    IF Cardinality(lru) <= capacity THEN lru
    ELSE IF Back(lru).entry = entry THEN lru \ {Back(lru)}
    ELSE WithoutEntry(lru, Back(lru).entry)

put(lru, key, entry, capacity, use) ==
    EvictOldest(Without(lru, key) \cup {Item(key, entry, use)}, entry, capacity)

-----------------------------------------------------------------------------
(* The table.                                                              *)

\* GetGatewayConfig.
Read(table, ref) ==
    LET rows == {i \in Ids : table[i].enabled /\ (i = ref \/ table[i].name = ref)}
    IN  IF rows = {} THEN NotFound
        ELSE LET i == CHOOSE i \in rows : TRUE
             IN  [id |-> i, name |-> table[i].name, version |-> table[i].version]

Exists(i) == db[i].version > 0
NameFree(name) == \A i \in Ids : db[i].name # name

\* One statement against the table, by a request that invalidates refs next.
Change(i, row, refs) ==
    /\ Len(hist) <= MaxWrites
    /\ admin = {}
    /\ db' = [db EXCEPT ![i] = row]
    /\ hist' = Append(hist, db')
    /\ changed' = [changed EXCEPT ![i] = Len(hist')]
    /\ admin' = refs
    /\ UNCHANGED <<completed, positive, negative, inflight, epoch, expired,
                   caller, lookups, uses>>

Row(name, enabled) == [name |-> name, version |-> Len(hist), enabled |-> enabled]

\* POST with an id: UpsertGatewayConfig updates the row of that id, or inserts
\* it.
Put(i, name, enabled) ==
    /\ "put" \in Changes
    /\ db[i].name = name \/ (~Exists(i) /\ NameFree(name))
    /\ Change(i, Row(name, enabled), {i, name})

\* POST with an id and a new name.
Rename(i, name, enabled) ==
    /\ "rename" \in Changes
    /\ Exists(i)
    /\ NameFree(name)
    /\ Change(i, Row(name, enabled), {i, name})

\* POST with an id that is not in the table and a name that is: the row keeps
\* its own id, and the handler invalidates the id it was given.
Conflict(i, j, enabled) ==
    /\ "conflict" \in Changes
    /\ Exists(i) /\ ~Exists(j)
    /\ Change(i, Row(db[i].name, enabled), {j, db[i].name})

\* PATCH or DELETE by id or by name: deletion only disables the row.
Patch(i, ref, enabled) ==
    /\ "patch" \in Changes
    /\ Exists(i)
    /\ ref \in {i, db[i].name}
    /\ Change(i, [db[i] EXCEPT !.enabled = enabled], {ref})

\* Mutant: reads that are under way are left to their waiters.
ForgetNothing(refs) == inflight

\* A later lookup does not join a read that began before the change.
ForgetInflight(refs) == [r \in Refs |-> IF r \in refs THEN "none" ELSE inflight[r]]

\* The entries under the refs go with all their keys.
DropEntries(refs) ==
    {item \in positive :
        ~\E hit \in positive : hit.key \in refs /\ hit.entry = item.entry}

\* InvalidateConfigRouters.
invalidate ==
    /\ admin # {}
    /\ epoch' = epoch + 1
    /\ positive' = DropEntries(admin)
    /\ negative' = {item \in negative : item.key \notin admin}
    /\ inflight' = ForgetInflight(admin)
    /\ admin' = {}
    /\ completed' = [r \in Refs |-> IF r \in admin THEN Len(hist) ELSE completed[r]]
    /\ UNCHANGED <<db, hist, changed, expired, caller, lookups, uses>>

-----------------------------------------------------------------------------
(* lookup                                                                  *)

Live(lru, ref) == Has(lru, ref) /\ Peek(lru, ref).eid \notin expired

LastChange == Max({completed[r] : r \in Refs})

Return(c, ref, entry) ==
    caller' = [caller EXCEPT ![c] = [Idle EXCEPT !.pc = "done", !.ref = ref,
                                                 !.from = completed[ref],
                                                 !.since = LastChange,
                                                 !.entry = entry, !.ok = TRUE]]

\* A cached entry that is still fresh, found or not found.
LookupHit(c, ref) ==
    /\ caller[c].pc = "idle" /\ lookups < MaxLookups
    /\ \/ /\ Live(positive, ref)
          /\ positive' = MoveToFront(positive, ref)
          /\ Return(c, ref, Peek(positive, ref))
          /\ UNCHANGED negative
       \/ /\ ~Live(positive, ref) /\ Live(negative, ref)
          /\ positive' = IF Has(positive, ref)
                         THEN WithoutEntry(positive, Peek(positive, ref)) ELSE positive
          /\ negative' = MoveToFront(negative, ref)
          /\ Return(c, ref, Peek(negative, ref))
    /\ lookups' = lookups + 1
    /\ uses' = uses + 1
    /\ UNCHANGED <<tableVars, inflight, epoch, expired>>

\* Nothing cached: join the read that is under way, or begin one.  Expired
\* entries are removed on the way.
LookupMiss(c, ref) ==
    /\ caller[c].pc = "idle" /\ lookups < MaxLookups
    /\ ~Live(positive, ref) /\ ~Live(negative, ref)
    /\ positive' = IF Has(positive, ref)
                   THEN WithoutEntry(positive, Peek(positive, ref)) ELSE positive
    /\ negative' = Without(negative, ref)
    /\ lookups' = lookups + 1
    /\ LET joins == inflight[ref] # "none"
       IN  /\ caller' = [caller EXCEPT ![c] =
                [Idle EXCEPT !.pc = IF joins THEN "wait" ELSE "load", !.ref = ref,
                             !.owner = IF joins THEN inflight[ref] ELSE c,
                             !.from = completed[ref], !.since = LastChange,
                             !.epoch = epoch, !.eid = lookups']]
           /\ inflight' = IF joins THEN inflight ELSE [inflight EXCEPT ![ref] = c]
    /\ UNCHANGED <<tableVars, epoch, expired, uses>>

\* The caller of a request that waits gives up.
LookupCanceled(c) ==
    /\ caller[c].pc = "wait"
    /\ caller' = [caller EXCEPT ![c].pc = "done"]
    /\ UNCHANGED <<tableVars, positive, negative, inflight, epoch, expired, lookups,
                   uses>>

\* newConfigRouterEntry; or the entry that says there is no such config.
NewEntry(c) ==
    [eid |-> caller[c].eid, value |-> Read(db, caller[c].ref), asOf |-> Len(hist)]

\* The keys of a resolved config; the reference used is one of them.
Keys(entry) == {entry.value.name, entry.value.id}

\* The read of the table, which may fail or time out.
Load(c) ==
    /\ caller[c].pc = "load"
    /\ \E ok \in BOOLEAN :
          caller' = [caller EXCEPT ![c].pc = "store", ![c].ok = ok,
                                   ![c].entry = IF ok THEN NewEntry(c) ELSE NoEntry]
    /\ UNCHANGED <<tableVars, positive, negative, inflight, epoch, expired, lookups,
                   uses>>

\* Mutant: a result is stored whatever was invalidated since its read began.
StoresAlways(c) == caller[c].ok

\* Only a result that no invalidation overtook is stored.
Stores(c) == caller[c].ok /\ caller[c].epoch = epoch

\* The entry takes its keys: entries that hold one of them are dropped first.
StorePositive(entry) ==
    /\ positive' = put(put(DropEntries(Keys(entry)),
                           entry.value.name, entry, Capacity, uses + 1),
                       entry.value.id, entry, Capacity, uses + 2)
    /\ negative' = {item \in negative : item.key \notin Keys(entry)}
    /\ uses' = uses + 2

\* References are short enough to be remembered (maxNegativeConfigRefBytes).
StoreNegative(ref, entry) ==
    /\ negative' = put(negative, ref, entry, NegCapacity, uses + 1)
    /\ uses' = uses + 1
    /\ UNCHANGED positive

\* close(call.done).
Wakes(c, d) == caller[d].pc = "wait" /\ caller[d].owner = c

\* The result is stored, and handed to everyone who waits for it.
Store(c) ==
    LET entry == caller[c].entry
        ref   == caller[c].ref
    IN  /\ caller[c].pc = "store"
        /\ inflight' = IF inflight[ref] = c THEN [inflight EXCEPT ![ref] = "none"]
                       ELSE inflight
        /\ IF ~Stores(c) THEN UNCHANGED <<positive, negative, uses>>
           ELSE IF entry.value = NotFound THEN StoreNegative(ref, entry)
           ELSE StorePositive(entry)
        /\ caller' = [d \in Callers |->
              IF d = c \/ Wakes(c, d)
              THEN [caller[d] EXCEPT !.pc = "done", !.entry = entry,
                                     !.ok = caller[c].ok]
              ELSE caller[d]]
        /\ UNCHANGED <<tableVars, epoch, expired, lookups>>

\* The request has its answer; the same goroutine may serve the next one.
Done(c) ==
    /\ caller[c].pc = "done"
    /\ caller' = [caller EXCEPT ![c] = Idle]
    /\ UNCHANGED <<tableVars, positive, negative, inflight, epoch, expired, lookups,
                   uses>>

\* The TTL of a cached entry passes.
Expire ==
    /\ \E item \in positive \cup negative :
          /\ item.entry.eid \notin expired
          /\ expired' = expired \cup {item.entry.eid}
    /\ UNCHANGED <<tableVars, positive, negative, inflight, epoch, caller, lookups, uses>>

-----------------------------------------------------------------------------
Admin ==
    \E i \in Ids, enabled \in BOOLEAN :
        \/ \E name \in Names : Put(i, name, enabled) \/ Rename(i, name, enabled)
        \/ \E j \in Ids : Conflict(i, j, enabled)
        \/ \E ref \in Refs : Patch(i, ref, enabled)

Lookup(c) == \E ref \in Refs : LookupHit(c, ref) \/ LookupMiss(c, ref)

Next ==
    \/ Admin
    \/ invalidate
    \/ \E c \in Callers : Lookup(c)
    \/ \E c \in Callers : Load(c) \/ Store(c) \/ Done(c)
    \/ \E c \in Callers : LookupCanceled(c)
    \/ Expire

Spec == Init /\ [][Next]_vars

-----------------------------------------------------------------------------
(* Properties.                                                             *)

\* InvalidateConfigRouters drops a config "so the next request reads [it]
\* again": what a lookup of a reference returns was in the table at some time
\* since that same reference was last invalidated before the lookup began,
\* whether it was cached, read or shared.  (Of a change that invalidated the
\* config's other key only, TakesEffectAtOnce.)
LookupIsCurrent ==
    \A c \in Callers :
        caller[c].pc = "done" /\ caller[c].ok =>
            \E k \in caller[c].from .. Len(hist) :
                Read(hist[k], caller[c].ref) = caller[c].entry.value

\* "changes made through /api/configs on the same replica take effect at
\* once", by whichever key the change was made.  Refuted: PATCH by one key
\* leaves what is remembered as not found under the other.
TakesEffectAtOnce ==
    \A c \in Callers :
        caller[c].pc = "done" /\ caller[c].ok =>
            \E k \in caller[c].since .. Len(hist) :
                Read(hist[k], caller[c].ref) = caller[c].entry.value

\* Between changes no resolved config is cached from before the last change
\* to its row, by whichever name or id the change was made.
CacheIsCurrent ==
    admin = {} =>
        \A item \in positive : item.entry.asOf >= changed[item.entry.value.id]

\* "an entry is either cached under all its keys or not at all, so invalidate
\* by any of its names or ids always finds it."
CachedTogether ==
    \A item \in positive : \A key \in Keys(item.entry) :
        Has(positive, key) /\ Peek(positive, key) = item.entry

\* Nobody waits for ever: a request that shares a read waits for one that is
\* still running and will close call.done, also when an invalidation took it
\* out of c.inflight, its reader failed, or its reader's client has left.
WaitsForRunningRead ==
    \A c \in Callers :
        caller[c].pc = "wait" =>
            LET reader == caller[caller[c].owner]
            IN  reader.pc \in {"load", "store"} /\ reader.ref = caller[c].ref
=============================================================================
