------------------------- MODULE ControlPlaneProofs -------------------------
(***************************************************************************)
(* Proofs about ControlPlane: tenants are kept apart, keys stay within     *)
(* their creators, models within their keys, memberships within the role   *)
(* of who sets them.  And about JwksCache, the keys of the tokens that      *)
(* callers of the control plane authenticate with.                         *)
(***************************************************************************)
EXTENDS ControlPlane, MCJwksCache, FiniteSetTheorems, SequenceTheorems, WellFoundedInduction, TLAPS

-----------------------------------------------------------------------------
(* The inductive invariant.                                                *)

\* The identity of a key holds the models of its row, which stays.
KeyKnown(id) == id.key \in KeyIds => Stored(id.key) /\ apiKeys[id.key].models = id.models

\* The workspace is one of the tenant that the identity is confined to.
InTenant(id, ws) ==
    \/ id.ws # None /\ ws = id.ws
    \/ id.ws = None /\ id.org # None /\ ws \in WorkspaceIds /\ workspaces[ws] = id.org

\* What a membership's check found when its write is still to come.
MayWrite(t) ==
    LET id == thread[t].id IN
    \/ Global(id)
    \/ /\ InTenant(id, UserWorkspace(t))
       /\ roleRank(memberRole(thread[t].call.arg.role)) <= roleRank(id.role)

ThreadOK(t) ==
    /\ thread[t].pc \in {"handle", "write"} => /\ thread[t].call \in Calls[t]
                                               /\ thread[t].id \in Identities /\ KeyKnown(thread[t].id)
    /\ thread[t].pc = "write" => MayWrite(t)

CallType == {<<>>} \cup UNION {Calls[t] : t \in Threads}

ThreadType == [pc : {"new", "handle", "write", "done"}, call : CallType, id : Identities]

TablesTyped ==
    /\ apiKeys \in [KeyIds -> KeyRows]
    /\ workspaces \in [WorkspaceIds -> OrgIds \cup {None}]
    /\ thread \in [Threads -> ThreadType]

\* Logged requests were made with keys that are still stored, within their models.
LogsOK ==
    \A l \in logs : l.key \in KeyIds =>
        /\ Stored(l.key)
        /\ apiKeys[l.key].models = {} \/ l.model \in apiKeys[l.key].models

KeyWithin(row) ==
    row.by # Anonymous =>
        /\ roleRank(row.role) <= roleRank(row.by.role)
        /\ row.by.models # {} => row.models # {} /\ row.models \subseteq row.by.models
        /\ Global(row.by) \/ InTenant(row.by, row.ws)

KeysOK == \A k \in KeyIds : Stored(k) => KeyWithin(apiKeys[k])

Inv == TablesTyped /\ (\A t \in Threads : ThreadOK(t)) /\ KeysOK /\ LogsOK

-----------------------------------------------------------------------------
(* Identities and rows.                                                    *)

\* No identity is an identity, and it is global.
LEMMA NoIdentity == Anonymous \in Identities /\ Global(Anonymous) /\ Anonymous.key = None
<1>1. None \in Names
  BY DEF Names
<1> QED
  BY <1>1 DEF Anonymous, Caller, Identities, Global

\* Whoever ranks below an administrator is none.
LEMMA BelowAdmin == ASSUME NEW role, roleRank(role) < 3 PROVE role \notin {"admin", "owner"}
  BY DEF roleRank, normalizeRole

\* A role is a name after it is normalised.
LEMMA RoleIsName == ASSUME NEW role PROVE normalizeRole(role) \in Names
  BY DEF normalizeRole, Names

\* A row that the identity may see, whatever the kind.
Fits(id, row) ==
    /\ Belongs(id, row)
    /\ (row.key # None /\ id.key # None /\ roleRank(id.role) < 3) => row.key = id.key

FitsAll(id, rows) == \A row \in rows : Fits(id, row)

\* A workspace of the tenant is a row that fits; so is everything, for a global caller.
LEMMA WorkspaceFits ==
    ASSUME NEW id, NEW ws, Global(id) \/ InTenant(id, ws) PROVE Fits(id, InWorkspace(ws))
<1>1. InWorkspace(ws).key = None /\ InWorkspace(ws).ws = {ws} \ {None}
  BY DEF InWorkspace, Row
<1>2. Belongs(id, InWorkspace(ws))
  BY <1>1, TablesAssumption DEF Belongs, InTenant
<1> QED
  BY <1>1, <1>2 DEF Fits

\* The condition that the store filters by, and the one that handlers ask for.
LEMMA ConditionFits ==
    ASSUME NEW id, NEW ws \in WorkspaceIds \cup {None}, ~Global(id), memberTenantCondition(id, ws) PROVE InTenant(id, ws)
  BY DEF memberTenantCondition, InTenant, Global

\* A workspace that is found and allowed.
LEMMA AllowedFits ==
    ASSUME NEW id, NEW ws, ~Global(id), \E org \in GetWorkspaceByID(ws) : Allows(id, ws, org)
    PROVE  InTenant(id, ws)
<1>1. PICK org \in GetWorkspaceByID(ws) : Allows(id, ws, org)
  OBVIOUS
<1>2. ws \in WorkspaceIds /\ org = workspaces[ws]
  BY <1>1 DEF GetWorkspaceByID, ListWorkspaces
<1> QED
  BY <1>1, <1>2 DEF Allows, InTenant, Global

\* The namespace that a request resolves to.
LEMMA NamespaceFits ==
    ASSUME NEW t \in Threads, NEW ws \in Namespace(t)
    PROVE  Global(thread[t].id) \/ InTenant(thread[t].id, ws)
<1>1. PICK id : id = thread[t].id
  OBVIOUS
<1>2. PICK asked : asked = thread[t].call.arg.ws
  OBVIOUS
<1>3. ws \in resolveWorkspace(id, asked)
  BY <1>1, <1>2 DEF Namespace
<1>4. CASE Global(id)
  BY <1>1, <1>4
<1>5. CASE ~Global(id) /\ id.ws # None
  <2>1. ws = id.ws
    BY <1>3, <1>5 DEF resolveWorkspace
  <2> QED
    BY <1>1, <1>5, <2>1 DEF InTenant
<1>6. CASE ~Global(id) /\ id.ws = None
  <2>1. \E org \in GetWorkspaceByID(ws) : Allows(id, ws, org)
    BY <1>3, <1>6 DEF resolveWorkspace
  <2> QED
    BY <1>1, <1>6, <2>1, AllowedFits
<1> QED
  BY <1>4, <1>5, <1>6

\* A log, or feedback, that the tenant's filter lets through.
LEMMA TenantRowFits ==
    ASSUME NEW id, NEW row, NEW key, tenantOnly(id, row), key # None /\ id.key # None /\ roleRank(id.role) < 3 => key = id.key
    PROVE  Fits(id, Row({row.ws}, row.org, key))
<1>1. PICK r : r = Row({row.ws}, row.org, key)
  OBVIOUS
<1>2. r.ws = {row.ws} \ {None} /\ r.org = row.org /\ r.key = key
  BY <1>1 DEF Row
<1>3. Belongs(id, r)
  BY <1>2 DEF Belongs, tenantOnly, Global
<1> QED
  BY <1>1, <1>2, <1>3 DEF Fits

\* The logs that a caller lists.
LEMMA LogsFit == ASSUME NEW id, NEW S, S \subseteq listLogs(id, scopedAPIKeyID(id)) PROVE FitsAll(id, LogRows(S))
<1> SUFFICES ASSUME NEW l \in S PROVE Fits(id, Row({l.ws}, l.org, l.key))
  BY DEF FitsAll, LogRows
<1>1. tenantOnly(id, l) /\ (scopedAPIKeyID(id) # None => l.key = scopedAPIKeyID(id))
  BY DEF listLogs, where
<1>2. roleRank(id.role) < 3 => scopedAPIKeyID(id) = id.key
  BY BelowAdmin DEF scopedAPIKeyID
<1> QED
  BY <1>1, <1>2, TenantRowFits

\* The feedback that a caller lists.
LEMMA FeedbackFits == ASSUME NEW id, NEW trace PROVE FitsAll(id, FeedbackRows(listFeedback(id, trace)))
<1> SUFFICES ASSUME NEW f \in listFeedback(id, trace) PROVE Fits(id, Row({f.ws}, f.org, None))
  BY DEF FitsAll, FeedbackRows
<1>1. tenantOnly(id, f)
  BY DEF listFeedback
<1> QED
  BY <1>1, TenantRowFits

-----------------------------------------------------------------------------
(* Steps.                                                                  *)

\* Stored keys keep all but their state, and workspaces their organization.
KeysKept ==
    \A k \in KeyIds : Stored(k) =>
        /\ apiKeys'[k].state # "absent" /\ apiKeys'[k].ws = apiKeys[k].ws /\ apiKeys'[k].role = apiKeys[k].role
        /\ apiKeys'[k].models = apiKeys[k].models /\ apiKeys'[k].by = apiKeys[k].by

WorkspacesKept == \A w \in WorkspaceIds : workspaces[w] # None => workspaces'[w] = workspaces[w]

NewKeysOK == \A k \in KeyIds : ~Stored(k) /\ apiKeys'[k].state # "absent" => KeyWithin(apiKeys[k])'

NewLogsOK ==
    \A l \in logs' \ logs : l.key \in KeyIds =>
        /\ Stored(l.key)
        /\ apiKeys[l.key].models = {} \/ l.model \in apiKeys[l.key].models

\* The tenant's workspaces stay the tenant's.
LEMMA InTenantKept ==
    ASSUME WorkspacesKept, NEW id, NEW ws, InTenant(id, ws) PROVE InTenant(id, ws)'
  BY DEF InTenant, WorkspacesKept

\* What stays when keys and workspaces are kept.
LEMMA StepKeeps ==
    ASSUME Inv, KeysKept, WorkspacesKept, NewKeysOK, NewLogsOK, TablesTyped',
           \A t \in Threads : thread'[t] = thread[t] \/ ThreadOK(t)'
    PROVE  Inv'
<1>1. ASSUME NEW t \in Threads, thread'[t] = thread[t] PROVE ThreadOK(t)'
  <2>1. PICK id : id = thread[t].id
    OBVIOUS
  <2>2. thread'[t].id = id /\ ThreadOK(t)
    BY <1>1, <2>1 DEF Inv
  <2>3. KeyKnown(id) => KeyKnown(id)'
    BY DEF KeyKnown, KeysKept, Stored
  <2>4. MayWrite(t) => MayWrite(t)'
    <3>1. PICK ws : ws = UserWorkspace(t)
      OBVIOUS
    <3>2. UserWorkspace(t)' = ws
      BY <1>1, <3>1 DEF UserWorkspace
    <3>3. InTenant(id, ws) => InTenant(id, ws)'
      BY InTenantKept
    <3> QED
      BY <1>1, <2>1, <2>2, <3>1, <3>2, <3>3 DEF MayWrite
  <2> QED
    BY <1>1, <2>1, <2>2, <2>3, <2>4 DEF ThreadOK
<1>2. KeysOK'
  <2> SUFFICES ASSUME NEW k \in KeyIds, apiKeys'[k].state # "absent" PROVE KeyWithin(apiKeys[k])'
    BY DEF KeysOK, Stored
  <2>1. CASE ~Stored(k)
    BY <2>1 DEF NewKeysOK
  <2>2. CASE Stored(k)
    <3>1. PICK by : by = apiKeys[k].by
      OBVIOUS
    <3>2. PICK ws : ws = apiKeys[k].ws
      OBVIOUS
    <3>3. /\ apiKeys'[k].by = by /\ apiKeys'[k].ws = ws /\ apiKeys'[k].role = apiKeys[k].role
          /\ apiKeys'[k].models = apiKeys[k].models
      BY <2>2, <3>1, <3>2 DEF KeysKept
    <3>4. KeyWithin(apiKeys[k])
      BY <2>2 DEF Inv, KeysOK
    <3>5. InTenant(by, ws) => InTenant(by, ws)'
      BY InTenantKept
    <3> QED
      BY <3>1, <3>2, <3>3, <3>4, <3>5 DEF KeyWithin
  <2> QED
    BY <2>1, <2>2
<1>3. LogsOK'
  <2> SUFFICES ASSUME NEW l \in logs', l.key \in KeyIds
               PROVE  /\ apiKeys'[l.key].state # "absent"
                      /\ apiKeys'[l.key].models = {} \/ l.model \in apiKeys'[l.key].models
    BY DEF LogsOK, Stored
  <2>1. Stored(l.key) /\ (apiKeys[l.key].models = {} \/ l.model \in apiKeys[l.key].models)
    BY DEF Inv, LogsOK, NewLogsOK
  <2> QED
    BY <2>1 DEF KeysKept
<1> QED
  BY <1>1, <1>2, <1>3 DEF Inv

\* The same row fits after the step.
LEMMA WorkspaceFitsNext ==
    ASSUME NEW id, NEW ws, Global(id) \/ InTenant(id, ws)' PROVE Fits(id, InWorkspace(ws))'
<1>1. PICK row : row = InWorkspace(ws)
  OBVIOUS
<1>2. InWorkspace(ws)' = row
  BY <1>1 DEF InWorkspace, Row
<1>3. row.key = None /\ row.ws = {ws} \ {None}
  BY <1>1 DEF InWorkspace, Row
<1>4. Belongs(id, row)'
  BY <1>3, TablesAssumption DEF Belongs, InTenant
<1> QED
  BY <1>2, <1>3, <1>4 DEF Fits

\* Tables that are left alone.
LEMMA TablesKept ==
    ASSUME Inv, UNCHANGED <<apiKeys, workspaces>>
    PROVE  /\ KeysKept /\ WorkspacesKept /\ NewKeysOK
           /\ apiKeys' \in [KeyIds -> KeyRows] /\ workspaces' \in [WorkspaceIds -> OrgIds \cup {None}]
  BY DEF Inv, TablesTyped, KeysKept, WorkspacesKept, NewKeysOK, Stored

\* A request that ends is nobody's.
LEMMA UnreadTyped == Unread("done") \in ThreadType /\ Unread("new") \in ThreadType
<1>1. <<>> \in CallType
  BY DEF CallType
<1>2. Anonymous \in Identities
  BY NoIdentity
<1> QED
  BY <1>1, <1>2 DEF Unread, ThreadType

LEMMA EndTyped ==
    ASSUME Inv, NEW t \in Threads, Done(t)
    PROVE  /\ thread' \in [Threads -> ThreadType]
           /\ \A u \in Threads : thread'[u] = thread[u] \/ ThreadOK(u)'
<1>1. thread \in [Threads -> ThreadType]
  BY DEF Inv, TablesTyped
<1>2. thread' \in [Threads -> ThreadType] /\ \A u \in Threads \ {t} : thread'[u] = thread[u]
  BY <1>1, UnreadTyped DEF Done
<1>3. thread'[t].pc = "done"
  BY <1>1 DEF Done, Unread
<1>4. ThreadOK(t)'
  BY <1>3 DEF ThreadOK
<1> QED
  BY <1>2, <1>4

\* A request ends and touches rows that fit.
LEMMA TouchKeeps ==
    ASSUME Inv, NEW t \in Threads, NEW id, NEW rows, Touch(t, rows), id = thread[t].id, FitsAll(id, rows)',
           KeysKept, WorkspacesKept, NewKeysOK, NewLogsOK,
           apiKeys' \in [KeyIds -> KeyRows], workspaces' \in [WorkspaceIds -> OrgIds \cup {None}]
    PROVE  Inv' /\ TenantIsolation'
<1>1. Inv'
  BY EndTyped, StepKeeps DEF Touch, TablesTyped
<1>2. effect'.by = id /\ effect'.rows = rows
  BY DEF Touch
<1>3. TenantIsolation'
  BY <1>2 DEF TenantIsolation, FitsAll, Fits
<1> QED
  BY <1>1, <1>3

\* A request ends and only shows rows.
LEMMA ShowKeeps ==
    ASSUME Inv, NEW t \in Threads, NEW rows, Show(t, rows), FitsAll(thread[t].id, rows)
    PROVE  Inv' /\ TenantIsolation'
<1>1. PICK id : id = thread[t].id
  OBVIOUS
<1>2. UNCHANGED <<apiKeys, workspaces, logs>>
  BY DEF Show, tables
<1>3. FitsAll(id, rows)'
  BY <1>1, <1>2 DEF FitsAll, Fits, Belongs
<1>4. NewLogsOK
  BY <1>2 DEF NewLogsOK
<1> QED
  BY <1>1, <1>2, <1>3, <1>4, TablesKept, TouchKeeps DEF Show

\* A request that is refused.
LEMMA RefusedKeeps == ASSUME Inv, NEW t \in Threads, Refused(t) PROVE Inv' /\ TenantIsolation'
<1>1. UNCHANGED <<apiKeys, workspaces, logs>>
  BY DEF Refused, tables
<1>2. Inv'
  BY <1>1, TablesKept, EndTyped, StepKeeps DEF Refused, TablesTyped, NewLogsOK
<1>3. TenantIsolation'
  BY DEF TenantIsolation, Refused, NoEffect
<1> QED
  BY <1>2, <1>3

\* What is known of a request that its handler runs.
LEMMA Handled ==
    ASSUME Inv, NEW t \in Threads, thread[t].pc \in {"handle", "write"}
    PROVE  /\ thread[t] \in ThreadType /\ thread[t].id \in Identities /\ KeyKnown(thread[t].id)
           /\ thread[t].call \in Calls[t]
           /\ thread[t].call.arg.ws \in WorkspaceIds \cup {None}
           /\ thread[t].call.arg.org \in OrgIds \cup {None}
           /\ thread[t].call.arg.role \in Names /\ thread[t].call.arg.models \in SUBSET Names
<1>1. ThreadOK(t) /\ thread \in [Threads -> ThreadType]
  BY DEF Inv, TablesTyped
<1>2. thread[t].call \in Calls[t] /\ thread[t].id \in Identities /\ KeyKnown(thread[t].id)
  BY <1>1 DEF ThreadOK
<1> QED
  BY <1>1, <1>2, CallsAssumption

-----------------------------------------------------------------------------
(* Admission and reads.                                                    *)

\* Whoever is authenticated is who the stored key, or the token, says.
LEMMA AuthenticatedOK ==
    ASSUME Inv, NEW call, NEW id \in Authenticate(call) PROVE id \in Identities /\ KeyKnown(id)
<1>1. CASE \E k \in DOMAIN Tokens \cap {call.who} : id = Tokens[k]
  BY <1>1, CallsAssumption DEF KeyKnown
<1>2. CASE \E row \in {r \in GetAPIKeyByHash(call.who) : r.state = "enabled"}, found \in BOOLEAN :
              id = KeyIdentity(call.who, row, found)
  <2>1. PICK row \in GetAPIKeyByHash(call.who), found \in BOOLEAN : id = KeyIdentity(call.who, row, found)
    BY <1>2
  <2>2. call.who \in KeyIds /\ Stored(call.who) /\ row = apiKeys[call.who]
    BY DEF GetAPIKeyByHash
  <2>3. row \in KeyRows
    BY <2>2 DEF Inv, TablesTyped
  <2>4. PICK org : org = IF found /\ row.ws # None THEN workspaces[row.ws] ELSE None
    OBVIOUS
  <2>5. org \in OrgIds \cup {None}
    BY <2>3, <2>4 DEF Inv, TablesTyped, KeyRows
  <2>6. PICK role : role = normalizeRole(row.role)
    OBVIOUS
  <2>7. role \in Names /\ call.who \in Names
    BY <2>2, <2>6, RoleIsName, TablesAssumption
  <2>8. id = [key |-> call.who, ws |-> row.ws, org |-> org, role |-> role, models |-> row.models]
    BY <2>1, <2>4, <2>6 DEF KeyIdentity, Caller
  <2> QED
    BY <2>2, <2>3, <2>5, <2>7, <2>8 DEF Identities, KeyRows, KeyKnown
<1> QED
  BY <1>1, <1>2 DEF Authenticate

LEMMA AdmitKeeps == ASSUME Inv, NEW t \in Threads, Admit(t) PROVE Inv' /\ TenantIsolation'
<1>1. UNCHANGED <<apiKeys, workspaces, logs>>
  BY DEF Admit, tables
<1>2. NewLogsOK
  BY <1>1 DEF NewLogsOK
<1>3. TenantIsolation'
  BY DEF Admit, TenantIsolation, NoEffect
<1>4. CASE Done(t)
  BY <1>1, <1>2, <1>3, <1>4, TablesKept, EndTyped, StepKeeps DEF TablesTyped
<1>5. CASE ~Done(t)
  <2>0. PICK call \in Calls[t] : \E id \in IF authEnabled THEN Authenticate(call) ELSE {Anonymous} :
            thread' = [thread EXCEPT ![t] = [pc |-> "handle", call |-> call, id |-> id]]
    BY <1>5 DEF Admit
  <2>1. PICK id \in IF authEnabled THEN Authenticate(call) ELSE {Anonymous} :
            thread' = [thread EXCEPT ![t] = [pc |-> "handle", call |-> call, id |-> id]]
    BY <2>0
  <2>2. id \in Identities /\ KeyKnown(id)
    <3>1. CASE authEnabled
      BY <2>1, <3>1, AuthenticatedOK
    <3>2. CASE ~authEnabled
      BY <2>1, <3>2, NoIdentity, TablesAssumption DEF KeyKnown
    <3> QED
      BY <3>1, <3>2
  <2>3. thread \in [Threads -> ThreadType] /\ call \in CallType
    BY DEF Inv, TablesTyped, CallType
  <2>4. [pc |-> "handle", call |-> call, id |-> id] \in ThreadType
    BY <2>2, <2>3 DEF ThreadType
  <2>5. thread' \in [Threads -> ThreadType] /\ \A u \in Threads \ {t} : thread'[u] = thread[u]
    BY <2>1, <2>3, <2>4
  <2>6. thread'[t].pc = "handle" /\ thread'[t].call = call /\ thread'[t].id = id
    BY <2>1, <2>3
  <2>7. KeyKnown(id)'
    BY <1>1, <2>2 DEF KeyKnown, Stored
  <2>8. ThreadOK(t)'
    BY <2>2, <2>6, <2>7 DEF ThreadOK
  <2> QED
    BY <1>1, <1>2, <1>3, <2>5, <2>8, TablesKept, StepKeeps DEF TablesTyped
<1> QED
  BY <1>4, <1>5

LEMMA ListAPIKeysKeeps == ASSUME Inv, NEW t \in Threads, ListAPIKeys(t) PROVE Inv' /\ TenantIsolation'
<1>1. PICK id : id = thread[t].id
  OBVIOUS
<1>2. ASSUME NEW k \in ListAPIKeysForTenant(id) PROVE Fits(id, InWorkspace(apiKeys[k].ws))
  <2>1. /\ apiKeys[k].ws \in WorkspaceIds \cup {None}
        /\ Global(id) \/ memberTenantCondition(id, apiKeys[k].ws)
    BY DEF ListAPIKeysForTenant, listAPIKeys
  <2> QED
    BY <2>1, ConditionFits, WorkspaceFits
<1> QED
  BY <1>1, <1>2, ShowKeeps DEF ListAPIKeys, FitsAll

LEMMA ListOrganizationsKeeps == ASSUME Inv, NEW t \in Threads, ListOrganizations(t) PROVE Inv' /\ TenantIsolation'
<1>1. PICK id : id = thread[t].id
  OBVIOUS
<1>2. id \in Identities
  BY <1>1, Handled DEF ListOrganizations, Handles
<1>3. ASSUME NEW o \in ListOrganizationsForTenant(id)
      PROVE  Fits(id, Row({w \in WorkspaceIds : workspaces[w] = o}, o, None))
  <2>1. PICK row : row = Row({w \in WorkspaceIds : workspaces[w] = o}, o, None)
    OBVIOUS
  <2>2. row.ws = {w \in WorkspaceIds : workspaces[w] = o} \ {None} /\ row.org = o /\ row.key = None
    BY <2>1 DEF Row
  <2>3. Belongs(id, row)
    BY <1>2, <2>2, TablesAssumption DEF Belongs, ListOrganizationsForTenant, Identities
  <2> QED
    BY <2>1, <2>2, <2>3 DEF Fits
<1>4. FitsAll(id, {Row({w \in WorkspaceIds : workspaces[w] = o}, o, None) : o \in ListOrganizationsForTenant(id)})
  BY <1>3, Zenon DEF FitsAll
<1>5. Show(t, {Row({w \in WorkspaceIds : workspaces[w] = o}, o, None) : o \in ListOrganizationsForTenant(id)})
  BY <1>1, Zenon DEF ListOrganizations
<1> QED
  BY <1>1, <1>4, <1>5, ShowKeeps, Zenon

LEMMA ListWorkspacesKeeps == ASSUME Inv, NEW t \in Threads, ListWorkspacesOf(t) PROVE Inv' /\ TenantIsolation'
<1>1. PICK id : id = thread[t].id
  OBVIOUS
<1>2. PICK asked : asked = thread[t].call.arg.org
  OBVIOUS
<1>3. ASSUME NEW w \in ListWorkspacesForTenant(id, asked) PROVE Fits(id, InWorkspace(w))
  <2>1. w \in WorkspaceIds /\ (Global(id) \/ memberTenantCondition(id, w))
    BY DEF ListWorkspacesForTenant, ListWorkspaces
  <2> QED
    BY <2>1, ConditionFits, WorkspaceFits
<1> QED
  BY <1>1, <1>2, <1>3, ShowKeeps DEF ListWorkspacesOf, FitsAll

LEMMA ListUsersKeeps == ASSUME Inv, NEW t \in Threads, ListUsersOf(t) PROVE Inv' /\ TenantIsolation'
<1>1. PICK id : id = thread[t].id
  OBVIOUS
<1>2. ASSUME NEW u \in ListUsersForTenant(id) PROVE Fits(id, Row(MemberOf(u), None, None))
  <2>1. PICK row : row = Row(MemberOf(u), None, None)
    OBVIOUS
  <2>2. row.ws = MemberOf(u) \ {None} /\ row.key = None
    BY <2>1 DEF Row
  <2>3. CASE Global(id)
    BY <2>1, <2>2, <2>3 DEF Fits, Belongs
  <2>4. CASE ~Global(id)
    <3>1. PICK w \in MemberOf(u) : memberTenantCondition(id, w)
      BY <2>4 DEF ListUsersForTenant
    <3>2. w \in WorkspaceIds /\ w \in row.ws
      BY <2>2, <3>1, TablesAssumption DEF MemberOf
    <3>3. InTenant(id, w)
      BY <2>4, <3>1, <3>2, ConditionFits
    <3>4. Belongs(id, row)
      BY <3>2, <3>3 DEF Belongs, InTenant
    <3> QED
      BY <2>1, <2>2, <3>4 DEF Fits
  <2> QED
    BY <2>3, <2>4
<1> QED
  BY <1>1, <1>2, ShowKeeps DEF ListUsersOf, FitsAll

LEMMA ListMembersKeeps == ASSUME Inv, NEW t \in Threads, ListMembers(t) PROVE Inv' /\ TenantIsolation'
<1>1. PICK id : id = thread[t].id
  OBVIOUS
<1>2. PICK asked : asked = thread[t].call.arg.ws
  OBVIOUS
<1>3. ASSUME NEW m \in ListWorkspaceMembersForTenant(id, asked) PROVE Fits(id, InWorkspace(m[1]))
  <2>1. m[1] \in WorkspaceIds /\ (Global(id) \/ memberTenantCondition(id, m[1]))
    BY DEF ListWorkspaceMembersForTenant, ListWorkspaceMembers
  <2> QED
    BY <2>1, ConditionFits, WorkspaceFits
<1> QED
  BY <1>1, <1>2, <1>3, ShowKeeps DEF ListMembers, FitsAll

-----------------------------------------------------------------------------
(* Keys.                                                                   *)

\* What a caller may make stays within it.
LEMMA NewKeyWithin ==
    ASSUME NEW id \in Identities, NEW arg, arg.ws \in WorkspaceIds \cup {None}, arg.role \in Names,
           arg.models \in SUBSET Names, MayCreateKey(id, arg)
    PROVE  /\ NewKey(id, arg) \in KeyRows /\ NewKey(id, arg).by = id /\ NewKey(id, arg).state = "enabled"
           /\ KeyWithin(NewKey(id, arg)) /\ (Global(id) \/ InTenant(id, NewKey(id, arg).ws))
<1>1. PICK row : row = NewKey(id, arg)
  OBVIOUS
<1>2. PICK ws : ws = IF id.ws # None THEN id.ws ELSE arg.ws
  OBVIOUS
<1>3. PICK models : models = IF arg.models = {} THEN id.models ELSE arg.models
  OBVIOUS
<1>4. row = [state |-> "enabled", ws |-> ws, role |-> arg.role, models |-> models, by |-> id]
  BY <1>1, <1>2, <1>3 DEF NewKey, KeyRow
<1>5. ws \in WorkspaceIds \cup {None} /\ models \in SUBSET Names
  BY <1>2, <1>3 DEF Identities
<1>6. row \in KeyRows
  BY <1>4, <1>5 DEF KeyRows
<1>7. CASE id = Anonymous
  BY <1>1, <1>4, <1>6, <1>7, NoIdentity DEF KeyWithin
<1>8. CASE id # Anonymous
  <2>1. /\ id.models # {} => arg.models \subseteq id.models
        /\ roleRank(arg.role) <= roleRank(id.role)
        /\ (id.ws = None /\ ~Global(id)) => arg.ws # None /\ keyInScope(id, arg.ws)
    BY <1>8 DEF MayCreateKey
  <2>2. id.models # {} => models # {} /\ models \subseteq id.models
    BY <1>3, <2>1
  <2>3. CASE Global(id)
    BY <1>1, <1>4, <1>6, <2>1, <2>2, <2>3 DEF KeyWithin
  <2>4. CASE ~Global(id) /\ id.ws # None
    BY <1>1, <1>2, <1>4, <1>6, <2>1, <2>2, <2>4 DEF KeyWithin, InTenant
  <2>5. CASE ~Global(id) /\ id.ws = None
    <3>1. InTenant(id, ws)
      BY <1>2, <2>1, <2>5, AllowedFits DEF keyInScope
    <3> QED
      BY <1>1, <1>4, <1>6, <2>1, <2>2, <3>1 DEF KeyWithin
  <2> QED
    BY <2>3, <2>4, <2>5
<1> QED
  BY <1>7, <1>8

LEMMA CreateAPIKeyKeeps == ASSUME Inv, NEW t \in Threads, CreateAPIKey(t) PROVE Inv' /\ TenantIsolation'
<1>1. PICK id : id = thread[t].id
  OBVIOUS
<1>2. PICK arg : arg = thread[t].call.arg
  OBVIOUS
<1>3. /\ id \in Identities /\ arg.ws \in WorkspaceIds \cup {None} /\ arg.role \in Names
      /\ arg.models \in SUBSET Names
  BY <1>1, <1>2, Handled DEF CreateAPIKey, Handles
<1>4. CASE Refused(t)
  BY <1>4, RefusedKeeps
<1>5. CASE ~Refused(t)
  <2>1. MayCreateKey(id, arg)
    BY <1>1, <1>2, <1>5 DEF CreateAPIKey
  <2>2. PICK row : row = NewKey(id, arg)
    OBVIOUS
  <2>3. row \in KeyRows /\ KeyWithin(row) /\ (Global(id) \/ InTenant(id, row.ws))
    BY <1>3, <2>1, <2>2, NewKeyWithin
  <2>4. PICK k \in KeyIds : ~Stored(k) /\ InsertAPIKey(k, row) /\ Touch(t, {InWorkspace(row.ws)})
    BY <1>1, <1>2, <2>1, <2>2 DEF CreateAPIKey
  <2>5. /\ apiKeys \in [KeyIds -> KeyRows] /\ workspaces \in [WorkspaceIds -> OrgIds \cup {None}]
        /\ apiKeys' = [apiKeys EXCEPT ![k] = row] /\ UNCHANGED <<workspaces, logs>>
    BY <2>4 DEF Inv, TablesTyped, InsertAPIKey
  <2>6. apiKeys' \in [KeyIds -> KeyRows] /\ KeysKept /\ WorkspacesKept /\ NewLogsOK
    BY <2>3, <2>4, <2>5 DEF KeysKept, WorkspacesKept, NewLogsOK, Stored
  <2>7. KeyWithin(row)' /\ (InTenant(id, row.ws) => InTenant(id, row.ws)')
    BY <2>3, <2>5 DEF KeyWithin, InTenant
  <2>8. ASSUME NEW j \in KeyIds, ~Stored(j), apiKeys'[j].state # "absent" PROVE KeyWithin(apiKeys[j])'
    <3>1. j = k
      BY <2>5, <2>8 DEF Stored
    <3>2. apiKeys'[j] = row
      BY <2>5, <3>1
    <3> QED
      BY <2>7, <3>2 DEF KeyWithin
  <2>9. NewKeysOK
    BY <2>8 DEF NewKeysOK
  <2>10. PICK rows : rows = {InWorkspace(row.ws)}
    OBVIOUS
  <2>11. rows = {InWorkspace(row.ws)'}
    BY <2>10 DEF InWorkspace, Row
  <2>12. FitsAll(id, rows)'
    BY <2>3, <2>7, <2>11, WorkspaceFitsNext DEF FitsAll
  <2> QED
    BY <1>1, <2>4, <2>5, <2>6, <2>9, <2>10, <2>12, TouchKeeps
<1> QED
  BY <1>4, <1>5

\* A key whose state alone changes stays what it was.
LEMMA StateChangeKeeps ==
    ASSUME Inv, NEW k \in KeyIds, Stored(k), NEW state \in {"enabled", "disabled", "expired"},
           InsertAPIKey(k, [apiKeys[k] EXCEPT !.state = state])
    PROVE  /\ apiKeys' \in [KeyIds -> KeyRows] /\ workspaces' \in [WorkspaceIds -> OrgIds \cup {None}]
           /\ KeysKept /\ WorkspacesKept /\ NewKeysOK /\ NewLogsOK
<1>1. PICK row : row = [apiKeys[k] EXCEPT !.state = state]
  OBVIOUS
<1>2. /\ apiKeys \in [KeyIds -> KeyRows] /\ workspaces \in [WorkspaceIds -> OrgIds \cup {None}]
      /\ apiKeys' = [apiKeys EXCEPT ![k] = row] /\ UNCHANGED <<workspaces, logs>>
  BY <1>1 DEF Inv, TablesTyped, InsertAPIKey
<1>3. /\ row \in KeyRows /\ row.state # "absent" /\ row.ws = apiKeys[k].ws /\ row.role = apiKeys[k].role
      /\ row.models = apiKeys[k].models /\ row.by = apiKeys[k].by
  <2>1. apiKeys[k] \in KeyRows
    BY <1>2
  <2> QED
    BY <1>1, <2>1 DEF KeyRows
<1>4. apiKeys' \in [KeyIds -> KeyRows] /\ WorkspacesKept /\ NewLogsOK
  BY <1>2, <1>3 DEF WorkspacesKept, NewLogsOK
<1>5. KeysKept
  BY <1>2, <1>3 DEF KeysKept, Stored
<1>6. NewKeysOK
  BY <1>2 DEF NewKeysOK, Stored
<1> QED
  BY <1>2, <1>4, <1>5, <1>6

LEMMA DeleteAPIKeyKeeps == ASSUME Inv, NEW t \in Threads, DeleteAPIKey(t) PROVE Inv' /\ TenantIsolation'
<1>1. PICK id : id = thread[t].id
  OBVIOUS
<1>2. PICK k : k = thread[t].call.arg.key
  OBVIOUS
<1>3. CASE Refused(t)
  BY <1>3, RefusedKeeps
<1>4. CASE ~Refused(t)
  <2>1. /\ Stored(k) /\ (id # Anonymous => keyInScope(id, apiKeys[k].ws))
        /\ DisableAPIKey(k) /\ Touch(t, {InWorkspace(apiKeys[k].ws)})
    BY <1>1, <1>2, <1>4 DEF DeleteAPIKey
  <2>2. PICK state : state = IF apiKeys[k].state = "expired" THEN apiKeys[k].state ELSE "disabled"
    OBVIOUS
  <2>3. k \in KeyIds /\ state \in {"enabled", "disabled", "expired"}
    BY <2>1, <2>2 DEF Stored
  <2>4. InsertAPIKey(k, [apiKeys[k] EXCEPT !.state = state])
    BY <2>1, <2>2 DEF DisableAPIKey
  <2>5. /\ apiKeys' \in [KeyIds -> KeyRows] /\ workspaces' \in [WorkspaceIds -> OrgIds \cup {None}]
        /\ KeysKept /\ WorkspacesKept /\ NewKeysOK /\ NewLogsOK
    BY <2>1, <2>3, <2>4, StateChangeKeeps
  <2>6. PICK ws : ws = apiKeys[k].ws
    OBVIOUS
  <2>7. Global(id) \/ InTenant(id, ws)
    BY <2>1, <2>6, NoIdentity, AllowedFits DEF keyInScope, InTenant
  <2>8. Global(id) \/ InTenant(id, ws)'
    BY <2>5, <2>7, InTenantKept
  <2>9. PICK rows : rows = {InWorkspace(ws)}
    OBVIOUS
  <2>10. rows = {InWorkspace(ws)'}
    BY <2>9 DEF InWorkspace, Row
  <2>11. FitsAll(id, rows)'
    BY <2>8, <2>10, WorkspaceFitsNext DEF FitsAll
  <2> QED
    BY <1>1, <2>1, <2>5, <2>6, <2>9, <2>11, TouchKeeps
<1> QED
  BY <1>3, <1>4

LEMMA ExpireKeeps == ASSUME Inv, NEW k \in Expiring, Expire(k) PROVE Inv' /\ TenantIsolation'
<1>1. Stored(k) /\ InsertAPIKey(k, [apiKeys[k] EXCEPT !.state = "expired"])
  BY CallsAssumption DEF Expire, KeyExpires, Stored
<1>2. UNCHANGED thread
  BY DEF Expire
<1>3. Inv'
  <2>1. TablesTyped'
    BY <1>1, <1>2, CallsAssumption, StateChangeKeeps DEF Inv, TablesTyped
  <2>2. \A t \in Threads : thread'[t] = thread[t]
    BY <1>2
  <2> QED
    BY <1>1, <2>1, <2>2, CallsAssumption, StateChangeKeeps, StepKeeps
<1>4. TenantIsolation'
  BY DEF Expire, TenantIsolation, NoEffect
<1> QED
  BY <1>3, <1>4

-----------------------------------------------------------------------------
(* Organizations, workspaces and memberships.                              *)

\* Every row is a global caller's.
LEMMA GlobalFits ==
    ASSUME NEW id, Global(id), NEW row, row.key = None PROVE Fits(id, row) /\ Fits(id, row)'
  BY DEF Fits, Belongs

LEMMA CreateOrganizationKeeps ==
    ASSUME Inv, NEW t \in Threads, CreateOrganization(t) PROVE Inv' /\ TenantIsolation'
<1>1. PICK id : id = thread[t].id
  OBVIOUS
<1>2. CASE Refused(t)
  BY <1>2, RefusedKeeps
<1>3. CASE ~Refused(t)
  <2>1. PICK o \in OrgIds : Global(id) /\ InsertOrganization(o) /\ Touch(t, {Row({}, o, None)})
    BY <1>1, <1>3 DEF CreateOrganization
  <2>2. PICK rows : rows = {Row({}, o, None)}
    OBVIOUS
  <2>3. \A row \in rows : row.key = None
    BY <2>2 DEF Row
  <2>4. FitsAll(id, rows)'
    BY <2>1, <2>3, GlobalFits DEF FitsAll
  <2>5. UNCHANGED <<apiKeys, workspaces, logs>> /\ NewLogsOK
    BY <2>1 DEF InsertOrganization, NewLogsOK
  <2> QED
    BY <1>1, <2>1, <2>2, <2>4, <2>5, TablesKept, TouchKeeps
<1> QED
  BY <1>2, <1>3

LEMMA CreateWorkspaceKeeps ==
    ASSUME Inv, NEW t \in Threads, CreateWorkspace(t) PROVE Inv' /\ TenantIsolation'
<1>1. PICK id : id = thread[t].id
  OBVIOUS
<1>2. PICK asked : asked = thread[t].call.arg.org
  OBVIOUS
<1>3. PICK org : org = IF Global(id) THEN asked ELSE id.org
  OBVIOUS
<1>4. id \in Identities /\ asked \in OrgIds \cup {None}
  BY <1>1, <1>2, Handled DEF CreateWorkspace, Handles
<1>5. CASE Refused(t)
  BY <1>5, RefusedKeeps
<1>6. CASE ~Refused(t)
  <2>1. PICK w \in WorkspaceIds : /\ workspaces[w] = None /\ id.ws = None /\ InsertWorkspace(w, org)
                                  /\ Touch(t, {Row({w}, org, None)})
    BY <1>1, <1>2, <1>3, <1>6 DEF CreateWorkspace
  <2>2. org \in OrgIds \cup {None}
    BY <1>3, <1>4 DEF Identities
  <2>3. /\ workspaces \in [WorkspaceIds -> OrgIds \cup {None}] /\ apiKeys \in [KeyIds -> KeyRows]
        /\ workspaces' = [workspaces EXCEPT ![w] = org] /\ UNCHANGED <<apiKeys, logs>>
    BY <2>1 DEF Inv, TablesTyped, InsertWorkspace
  <2>4. workspaces' \in [WorkspaceIds -> OrgIds \cup {None}] /\ WorkspacesKept
    BY <2>1, <2>2, <2>3 DEF WorkspacesKept
  <2>5. apiKeys' \in [KeyIds -> KeyRows] /\ KeysKept /\ NewKeysOK /\ NewLogsOK
    BY <2>3 DEF KeysKept, NewKeysOK, NewLogsOK, Stored
  <2>6. PICK row : row = Row({w}, org, None)
    OBVIOUS
  <2>7. row.key = None /\ row.org = org
    BY <2>6 DEF Row
  <2>8. Belongs(id, row)'
    BY <1>3, <2>1, <2>7 DEF Belongs
  <2>9. PICK rows : rows = {row}
    OBVIOUS
  <2>10. FitsAll(id, rows)'
    BY <2>7, <2>8, <2>9 DEF FitsAll, Fits
  <2> QED
    BY <1>1, <2>1, <2>4, <2>5, <2>6, <2>9, <2>10, TouchKeeps
<1> QED
  BY <1>5, <1>6

\* The request goes on to its write, which the check allowed.
LEMMA WriteNext ==
    ASSUME Inv, NEW t \in Threads, thread[t].pc = "handle", MayWrite(t),
           thread' = [thread EXCEPT ![t].pc = "write"], UNCHANGED <<apiKeys, workspaces, logs>>
    PROVE  Inv'
<1>1. thread \in [Threads -> ThreadType] /\ thread[t] \in ThreadType
  BY DEF Inv, TablesTyped
<1>2. PICK q : q = [thread[t] EXCEPT !.pc = "write"]
  OBVIOUS
<1>3. q \in ThreadType /\ q.pc = "write" /\ q.call = thread[t].call /\ q.id = thread[t].id
  BY <1>1, <1>2 DEF ThreadType
<1>4. thread' = [thread EXCEPT ![t] = q]
  BY <1>1, <1>2
<1>5. thread' \in [Threads -> ThreadType] /\ thread'[t] = q /\ \A u \in Threads \ {t} : thread'[u] = thread[u]
  BY <1>1, <1>3, <1>4
<1>6. PICK id : id = thread[t].id
  OBVIOUS
<1>7. thread'[t].id = id /\ thread'[t].call = thread[t].call
  BY <1>3, <1>5, <1>6
<1>8. id \in Identities /\ KeyKnown(id) /\ thread[t].call \in Calls[t]
  BY <1>6, Handled
<1>9. KeyKnown(id)'
  BY <1>8 DEF KeyKnown, Stored
<1>10. MayWrite(t)'
  <2>1. PICK ws : ws = UserWorkspace(t)
    OBVIOUS
  <2>2. UserWorkspace(t)' = ws
    BY <1>6, <1>7, <2>1 DEF UserWorkspace
  <2>3. InTenant(id, ws) => InTenant(id, ws)'
    BY DEF InTenant
  <2> QED
    BY <1>6, <1>7, <2>1, <2>2, <2>3 DEF MayWrite
<1>11. ThreadOK(t)'
  BY <1>7, <1>8, <1>9, <1>10 DEF ThreadOK
<1>12. TablesTyped' /\ NewLogsOK
  BY <1>5, TablesKept DEF TablesTyped, NewLogsOK
<1> QED
  BY <1>5, <1>11, <1>12, TablesKept, StepKeeps

LEMMA CheckedKeeps ==
    ASSUME Inv, NEW t \in Threads, thread[t].pc = "handle", MayWrite(t), Checked(t) PROVE Inv' /\ TenantIsolation'
<1>1. Inv'
  BY WriteNext DEF Checked, tables
<1>2. TenantIsolation'
  BY DEF Checked, TenantIsolation, NoEffect
<1> QED
  BY <1>1, <1>2

\* What authorizeMembership lets through may be written.
LEMMA MembershipChecked ==
    ASSUME NEW t \in Threads,
           authorizeMembership(thread[t].id, UserWorkspace(t), thread[t].call.arg.user, thread[t].call.arg.role)
    PROVE  MayWrite(t)
<1>1. PICK id : id = thread[t].id
  OBVIOUS
<1>2. PICK ws : ws = UserWorkspace(t)
  OBVIOUS
<1>3. /\ \E org \in GetWorkspaceByID(ws) : Allows(id, ws, org)
      /\ roleRank(memberRole(thread[t].call.arg.role)) <= roleRank(id.role)
  BY <1>1, <1>2 DEF authorizeMembership
<1>4. Global(id) \/ InTenant(id, ws)
  BY <1>3, AllowedFits
<1> QED
  BY <1>1, <1>2, <1>3, <1>4 DEF MayWrite

LEMMA CreateUserKeeps == ASSUME Inv, NEW t \in Threads, CreateUser(t) PROVE Inv' /\ TenantIsolation'
<1>1. thread[t].pc = "handle"
  BY DEF CreateUser, Handles
<1>2. CASE ~Global(thread[t].id)
  <2>1. CASE Refused(t)
    BY <2>1, RefusedKeeps
  <2>2. CASE ~Refused(t)
    <3>1. createScopedUser(t)
      BY <1>2 DEF CreateUser
    <3>2. /\ Checked(t)
          /\ authorizeMembership(thread[t].id, UserWorkspace(t), thread[t].call.arg.user, thread[t].call.arg.role)
      BY <2>2, <3>1 DEF createScopedUser
    <3> QED
      BY <1>1, <3>2, MembershipChecked, CheckedKeeps
  <2> QED
    BY <2>1, <2>2
<1>3. CASE Global(thread[t].id)
  <2>1. PICK id : id = thread[t].id
    OBVIOUS
  <2>2. /\ UNCHANGED <<apiKeys, workspaces, logs>> /\ effect' = [by |-> id, rows |-> {Shared}]
        /\ thread' = [thread EXCEPT ![t] = IF thread[t].call.arg.ws = None THEN Unread("done")
                                          ELSE [thread[t] EXCEPT !.pc = "write"]]
    BY <1>3, <2>1 DEF CreateUser, UpsertUser
  <2>3. TenantIsolation'
    <3>1. PICK row : row = Shared
      OBVIOUS
    <3>2. row.key = None
      BY <3>1 DEF Shared, Row
    <3>3. Fits(id, row)'
      BY <1>3, <2>1, <3>2, GlobalFits
    <3>4. effect'.by = id /\ effect'.rows = {row}
      BY <2>2, <3>1
    <3> QED
      BY <3>3, <3>4 DEF TenantIsolation, Fits
  <2>4. CASE thread[t].call.arg.ws = None
    <3>1. Done(t) /\ NewLogsOK
      BY <2>2, <2>4 DEF Done, NewLogsOK
    <3> QED
      BY <2>2, <2>3, <3>1, TablesKept, EndTyped, StepKeeps DEF TablesTyped
  <2>5. CASE thread[t].call.arg.ws # None
    <3>1. thread' = [thread EXCEPT ![t].pc = "write"]
      BY <2>2, <2>5
    <3>2. MayWrite(t)
      BY <1>3 DEF MayWrite
    <3> QED
      BY <1>1, <2>2, <2>3, <3>1, <3>2, WriteNext
  <2> QED
    BY <2>4, <2>5
<1> QED
  BY <1>2, <1>3

LEMMA UpsertWorkspaceMemberKeeps ==
    ASSUME Inv, NEW t \in Threads, UpsertWorkspaceMember(t) PROVE Inv' /\ TenantIsolation'
<1>1. thread[t].pc = "handle"
  BY DEF UpsertWorkspaceMember, Handles
<1>2. CASE Refused(t)
  BY <1>2, RefusedKeeps
<1>3. CASE ~Refused(t)
  <2>1. /\ Checked(t) /\ thread[t].call.arg.ws # None
        /\ \/ Global(thread[t].id)
           \/ authorizeMembership(thread[t].id, thread[t].call.arg.ws, thread[t].call.arg.user, thread[t].call.arg.role)
    BY <1>3 DEF UpsertWorkspaceMember
  <2>2. UserWorkspace(t) = thread[t].call.arg.ws
    BY <2>1 DEF UserWorkspace
  <2>3. MayWrite(t)
    <3>1. CASE Global(thread[t].id)
      BY <3>1 DEF MayWrite
    <3>2. CASE ~Global(thread[t].id)
      BY <2>1, <2>2, <3>2, MembershipChecked
    <3> QED
      BY <3>1, <3>2
  <2> QED
    BY <1>1, <2>1, <2>3, CheckedKeeps
<1> QED
  BY <1>2, <1>3

LEMMA WriteMemberKeeps == ASSUME Inv, NEW t \in Threads, WriteMember(t) PROVE Inv' /\ TenantIsolation'
<1>1. PICK id : id = thread[t].id
  OBVIOUS
<1>2. PICK ws : ws = UserWorkspace(t)
  OBVIOUS
<1>3. UNCHANGED <<apiKeys, workspaces, logs>> /\ Touch(t, {InWorkspace(ws)})
  BY <1>2 DEF WriteMember, AddUserToWorkspace, UpsertMember
<1>4. Global(id) \/ InTenant(id, ws)
  BY <1>1, <1>2 DEF Inv, ThreadOK, MayWrite, WriteMember
<1>5. PICK rows : rows = {InWorkspace(ws)}
  OBVIOUS
<1>6. FitsAll(id, rows)'
  <2>1. rows = {InWorkspace(ws)'}
    BY <1>5 DEF InWorkspace, Row
  <2>2. Global(id) \/ InTenant(id, ws)'
    BY <1>3, <1>4 DEF InTenant
  <2> QED
    BY <2>1, <2>2, WorkspaceFitsNext DEF FitsAll
<1>7. NewLogsOK
  BY <1>3 DEF NewLogsOK
<1> QED
  BY <1>1, <1>3, <1>5, <1>6, <1>7, TablesKept, TouchKeeps

-----------------------------------------------------------------------------
(* Prompts.                                                                *)

\* A row of the namespace that the request resolved, before and after the step.
LEMMA TouchNamespace ==
    ASSUME Inv, NEW t \in Threads, NEW ws \in Namespace(t), Touch(t, {InWorkspace(ws)}),
           UNCHANGED <<apiKeys, workspaces, logs>>
    PROVE  Inv' /\ TenantIsolation'
<1>1. PICK id : id = thread[t].id
  OBVIOUS
<1>2. Global(id) \/ InTenant(id, ws)
  BY <1>1, NamespaceFits
<1>3. Global(id) \/ InTenant(id, ws)'
  BY <1>2 DEF InTenant
<1>4. PICK rows : rows = {InWorkspace(ws)}
  OBVIOUS
<1>5. rows = {InWorkspace(ws)'}
  BY <1>4 DEF InWorkspace, Row
<1>6. FitsAll(id, rows)'
  BY <1>3, <1>5, WorkspaceFitsNext DEF FitsAll
<1>7. NewLogsOK
  BY DEF NewLogsOK
<1> QED
  BY <1>1, <1>4, <1>6, <1>7, TablesKept, TouchKeeps

LEMMA CreatePromptKeeps == ASSUME Inv, NEW t \in Threads, CreatePrompt(t) PROVE Inv' /\ TenantIsolation'
<1>1. CASE Refused(t)
  BY <1>1, RefusedKeeps
<1>2. CASE ~Refused(t)
  <2>1. PICK ws \in Namespace(t) :
            CreatePromptVersion(ws, thread[t].call.arg.name) /\ Touch(t, {InWorkspace(ws)})
    BY <1>2 DEF CreatePrompt
  <2>2. UNCHANGED <<apiKeys, workspaces, logs>>
    BY <2>1 DEF CreatePromptVersion
  <2> QED
    BY <2>1, <2>2, TouchNamespace
<1> QED
  BY <1>1, <1>2

LEMMA ListPromptsKeeps == ASSUME Inv, NEW t \in Threads, ListPrompts(t) PROVE Inv' /\ TenantIsolation'
<1>1. PICK found : found = UNION {ListWorkspacePrompts(ws) : ws \in Namespace(t)}
  OBVIOUS
<1>2. ASSUME NEW i \in found PROVE Fits(thread[t].id, InWorkspace(prompts[i].ws))
  <2>1. prompts[i].ws \in Namespace(t)
    BY <1>1 DEF ListWorkspacePrompts
  <2> QED
    BY <2>1, NamespaceFits, WorkspaceFits
<1>3. Show(t, {InWorkspace(prompts[i].ws) : i \in found})
  BY <1>1 DEF ListPrompts
<1> QED
  BY <1>2, <1>3, ShowKeeps DEF FitsAll

LEMMA RenderPromptKeeps == ASSUME Inv, NEW t \in Threads, RenderPrompt(t) PROVE Inv' /\ TenantIsolation'
<1>1. PICK id : id = thread[t].id
  OBVIOUS
<1>2. PICK arg : arg = thread[t].call.arg
  OBVIOUS
<1>3. PICK found : found = CASE arg.prompt = 0 -> UNION {GetWorkspacePromptByLabel(ws, arg.name, arg.label) :
                                                         ws \in Namespace(t)}
                             [] arg.prompt # 0 /\ Global(id) /\ arg.ws = None -> DOMAIN prompts \cap {arg.prompt}
                             [] OTHER -> UNION {GetWorkspacePrompt(ws, arg.prompt) : ws \in Namespace(t)}
  OBVIOUS
<1>4. ASSUME NEW i \in found PROVE Fits(id, InWorkspace(prompts[i].ws))
  <2>1. CASE Global(id)
    BY <2>1, WorkspaceFits
  <2>2. CASE ~Global(id)
    <3>1. CASE arg.prompt = 0
      <4>1. PICK ws \in Namespace(t) : i \in GetWorkspacePromptByLabel(ws, arg.name, arg.label)
        BY <1>3, <3>1
      <4>2. prompts[i].ws \in Namespace(t)
        BY <4>1 DEF GetWorkspacePromptByLabel, GetWorkspacePrompt, ListWorkspacePrompts
      <4> QED
        BY <1>1, <4>2, NamespaceFits, WorkspaceFits
    <3>2. CASE arg.prompt # 0
      <4>1. PICK ws \in Namespace(t) : i \in GetWorkspacePrompt(ws, arg.prompt)
        BY <1>3, <2>2, <3>2
      <4>2. prompts[i].ws \in Namespace(t)
        BY <4>1 DEF GetWorkspacePrompt, ListWorkspacePrompts
      <4> QED
        BY <1>1, <4>2, NamespaceFits, WorkspaceFits
    <3> QED
      BY <3>1, <3>2
  <2> QED
    BY <2>1, <2>2
<1>5. Show(t, {InWorkspace(prompts[i].ws) : i \in found})
  BY <1>1, <1>2, <1>3 DEF RenderPrompt
<1> QED
  BY <1>1, <1>4, <1>5, ShowKeeps DEF FitsAll

LEMMA LabelsKeeps == ASSUME Inv, NEW t \in Threads, Labels(t) PROVE Inv' /\ TenantIsolation'
<1>1. PICK arg : arg = thread[t].call.arg
  OBVIOUS
<1>2. CASE Handles(t, "GET", "/api/prompts/labels")
  <2>1. PICK found : found = UNION {ListWorkspacePromptLabels(ws, arg.name) : ws \in Namespace(t)}
    OBVIOUS
  <2>2. ASSUME NEW l \in found PROVE Fits(thread[t].id, InWorkspace(l[1]))
    <3>1. l[1] \in Namespace(t)
      BY <2>1 DEF ListWorkspacePromptLabels
    <3> QED
      BY <3>1, NamespaceFits, WorkspaceFits
  <2>3. ~Handles(t, "POST", "/api/prompts/labels")
    BY <1>2 DEF Handles
  <2>4. Show(t, {InWorkspace(l[1]) : l \in found})
    BY <1>1, <2>1, <2>3 DEF Labels
  <2> QED
    BY <2>2, <2>4, ShowKeeps DEF FitsAll
<1>3. CASE ~Handles(t, "GET", "/api/prompts/labels")
  <2>1. CASE Refused(t)
    BY <2>1, RefusedKeeps
  <2>2. CASE ~Refused(t)
    <3>1. PICK ws \in Namespace(t) :
              SetPromptLabel(ws, arg.name, arg.label, arg.prompt) /\ Touch(t, {InWorkspace(ws)})
      BY <1>1, <1>3, <2>2 DEF Labels
    <3>2. UNCHANGED <<apiKeys, workspaces, logs>>
      BY <3>1 DEF SetPromptLabel
    <3> QED
      BY <3>1, <3>2, TouchNamespace
  <2> QED
    BY <2>1, <2>2
<1> QED
  BY <1>2, <1>3

-----------------------------------------------------------------------------
(* Inference, logs and feedback.                                           *)

LEMMA InferKeeps == ASSUME Inv, NEW t \in Threads, Infer(t) PROVE Inv' /\ TenantIsolation'
<1>1. PICK id : id = thread[t].id
  OBVIOUS
<1>2. PICK call : call = thread[t].call
  OBVIOUS
<1>3. KeyKnown(id)
  BY <1>1, Handled DEF Infer, Handles
<1>4. CASE Refused(t)
  BY <1>4, RefusedKeeps
<1>5. CASE ~Refused(t)
  <2>1. AllowsModel(id, call.model) /\ InsertLog(id, call.arg.trace, call.model) /\ Touch(t, {})
    BY <1>1, <1>2, <1>5 DEF Infer, ModelAdmitted
  <2>2. PICK l : l = [id |-> Cardinality(logs) + 1, trace |-> call.arg.trace, key |-> id.key,
                      ws |-> id.ws, org |-> id.org, model |-> call.model]
    OBVIOUS
  <2>3. logs' = logs \cup {l} /\ UNCHANGED <<apiKeys, workspaces>>
    BY <2>1, <2>2 DEF InsertLog
  <2>4. l.key = id.key /\ l.model = call.model
    BY <2>2
  <2>5. NewLogsOK
    BY <1>3, <2>1, <2>3, <2>4 DEF NewLogsOK, KeyKnown, AllowsModel
  <2>6. PICK rows : rows = {}
    OBVIOUS
  <2>7. FitsAll(id, rows)'
    BY <2>6 DEF FitsAll
  <2> QED
    BY <1>1, <2>1, <2>3, <2>5, <2>6, <2>7, TablesKept, TouchKeeps
<1> QED
  BY <1>4, <1>5

LEMMA LogReadsKeep ==
    ASSUME Inv, NEW t \in Threads, getLogs(t) \/ readMetrics(t) PROVE Inv' /\ TenantIsolation'
<1>1. PICK id : id = thread[t].id
  OBVIOUS
<1>2. PICK seen : seen = listLogs(id, scopedAPIKeyID(id))
  OBVIOUS
<1>3. CASE getLogs(t)
  <2>1. FitsAll(id, LogRows(seen))
    BY <1>2, LogsFit
  <2>2. Show(t, LogRows(seen))
    BY <1>1, <1>2, <1>3 DEF getLogs
  <2> QED
    BY <1>1, <2>1, <2>2, ShowKeeps
<1>4. CASE readMetrics(t)
  <2>1. PICK groups \in {getMetrics(id, scopedAPIKeyID(id)), getCostAnalytics(id, scopedAPIKeyID(id))} :
            Show(t, LogRows(UNION groups))
    BY <1>1, <1>4 DEF readMetrics
  <2>2. UNION groups \subseteq seen
    BY <1>2 DEF getMetrics, getCostAnalytics
  <2>3. FitsAll(id, LogRows(UNION groups))
    BY <1>2, <2>2, LogsFit
  <2> QED
    BY <1>1, <2>1, <2>3, ShowKeeps
<1> QED
  BY <1>3, <1>4

LEMMA ReadTraceKeeps == ASSUME Inv, NEW t \in Threads, readTrace(t) PROVE Inv' /\ TenantIsolation'
<1>1. PICK id : id = thread[t].id
  OBVIOUS
<1>2. PICK trace : trace = thread[t].call.arg.trace
  OBVIOUS
<1>3. PICK detail : detail = getTrace(id, scopedAPIKeyID(id), trace)
  OBVIOUS
<1>4. detail.logs \subseteq listLogs(id, scopedAPIKeyID(id)) /\ detail.feedback \subseteq listFeedback(id, trace)
  BY <1>3 DEF getTrace
<1>5. FitsAll(id, LogRows(detail.logs)) /\ FitsAll(id, FeedbackRows(detail.feedback))
  BY <1>4, LogsFit, FeedbackFits DEF FitsAll, FeedbackRows
<1>6. FitsAll(id, LogRows(detail.logs) \cup FeedbackRows(detail.feedback))
  BY <1>5 DEF FitsAll
<1>7. Show(t, LogRows(detail.logs) \cup FeedbackRows(detail.feedback))
  BY <1>1, <1>2, <1>3 DEF readTrace
<1> QED
  BY <1>1, <1>6, <1>7, ShowKeeps

LEMMA CreateFeedbackKeeps == ASSUME Inv, NEW t \in Threads, CreateFeedback(t) PROVE Inv' /\ TenantIsolation'
<1>1. PICK id : id = thread[t].id
  OBVIOUS
<1>2. CASE Refused(t)
  BY <1>2, RefusedKeeps
<1>3. CASE ~Refused(t)
  <2>1. InsertFeedback(id, thread[t].call.arg.trace) /\ Touch(t, {Row({id.ws}, id.org, None)})
    BY <1>1, <1>3 DEF CreateFeedback
  <2>2. UNCHANGED <<apiKeys, workspaces, logs>> /\ NewLogsOK
    BY <2>1 DEF InsertFeedback, NewLogsOK
  <2>3. PICK row : row = Row({id.ws}, id.org, None)
    OBVIOUS
  <2>4. row.ws = {id.ws} \ {None} /\ row.org = id.org /\ row.key = None
    BY <2>3 DEF Row
  <2>5. Belongs(id, row)'
    BY <2>4 DEF Belongs, Global
  <2>6. PICK rows : rows = {row}
    OBVIOUS
  <2>7. FitsAll(id, rows)'
    BY <2>4, <2>5, <2>6 DEF FitsAll, Fits
  <2> QED
    BY <1>1, <2>1, <2>2, <2>3, <2>6, <2>7, TablesKept, TouchKeeps
<1> QED
  BY <1>2, <1>3

LEMMA ListFeedbackKeeps == ASSUME Inv, NEW t \in Threads, ListFeedback(t) PROVE Inv' /\ TenantIsolation'
  BY FeedbackFits, ShowKeeps DEF ListFeedback

LEMMA GlobalOnlyKeeps == ASSUME Inv, NEW t \in Threads, globalOnly(t) PROVE Inv' /\ TenantIsolation'
<1>1. CASE Refused(t)
  BY <1>1, RefusedKeeps
<1>2. CASE ~Refused(t)
  <2>1. Global(thread[t].id) /\ Show(t, {Shared})
    BY <1>2 DEF globalOnly
  <2>2. Shared.key = None
    BY DEF Shared, Row
  <2>3. FitsAll(thread[t].id, {Shared})
    BY <2>1, <2>2, GlobalFits DEF FitsAll
  <2> QED
    BY <2>1, <2>3, ShowKeeps
<1> QED
  BY <1>1, <1>2

-----------------------------------------------------------------------------
(* Theorems.                                                               *)

LEMMA InitKeeps == ASSUME Init PROVE Inv /\ TenantIsolation
<1>1. TablesTyped
  BY TablesAssumption, UnreadTyped DEF Init, TablesInit, TablesTyped
<1>2. \A t \in Threads : ThreadOK(t)
  BY DEF Init, Unread, ThreadOK
<1>3. KeysOK
  BY TablesAssumption DEF Init, TablesInit, KeysOK, KeyWithin
<1>4. LogsOK
  BY TablesAssumption DEF Init, TablesInit, LogsOK, Stored
<1>5. TenantIsolation
  BY DEF Init, NoEffect, TenantIsolation
<1> QED
  BY <1>1, <1>2, <1>3, <1>4, <1>5 DEF Inv

LEMMA StutterKeeps == ASSUME Inv, TenantIsolation, UNCHANGED vars PROVE Inv' /\ TenantIsolation'
<1>1. UNCHANGED <<apiKeys, workspaces, logs, thread, effect>>
  BY DEF vars, tables
<1>2. TablesTyped' /\ NewLogsOK
  BY <1>1 DEF Inv, TablesTyped, NewLogsOK
<1>3. Inv'
  BY <1>1, <1>2, TablesKept, StepKeeps
<1>4. TenantIsolation'
  BY <1>1 DEF TenantIsolation, Belongs
<1> QED
  BY <1>3, <1>4

\* The inductive invariant: identities are those of stored keys, checked writes
\* stay allowed, keys stay within their creators and logs within their keys; and
\* what every step shows or changes belongs to whom it is for.
THEOREM Invariance == Spec => [](Inv /\ TenantIsolation)
<1>1. Init => Inv /\ TenantIsolation
  BY InitKeeps
<1>2. Inv /\ TenantIsolation /\ [Next]_vars => Inv' /\ TenantIsolation'
  <2> SUFFICES ASSUME Inv, TenantIsolation, [Next]_vars PROVE Inv' /\ TenantIsolation'
    OBVIOUS
  <2>1. CASE UNCHANGED vars
    BY <2>1, StutterKeeps
  <2>2. ASSUME NEW t \in Threads, Admit(t) PROVE Inv' /\ TenantIsolation'
    BY <2>2, AdmitKeeps
  <2>3. ASSUME NEW t \in Threads, Handler(t) PROVE Inv' /\ TenantIsolation'
    BY <2>3, ListAPIKeysKeeps, CreateAPIKeyKeeps, DeleteAPIKeyKeeps, CreateOrganizationKeeps,
       ListOrganizationsKeeps, CreateWorkspaceKeeps, ListWorkspacesKeeps, CreateUserKeeps, ListUsersKeeps,
       UpsertWorkspaceMemberKeeps, WriteMemberKeeps, ListMembersKeeps, CreatePromptKeeps, ListPromptsKeeps,
       RenderPromptKeeps, LabelsKeeps, InferKeeps, LogReadsKeep, ReadTraceKeeps, CreateFeedbackKeeps,
       ListFeedbackKeeps, GlobalOnlyKeeps DEF Handler
  <2>4. ASSUME NEW k \in Expiring, Expire(k) PROVE Inv' /\ TenantIsolation'
    BY <2>4, ExpireKeeps
  <2> QED
    BY <2>1, <2>2, <2>3, <2>4 DEF Next
<1> QED
  BY <1>1, <1>2, PTL DEF Spec

\* No handler shows or changes a row of another tenant, whatever tables, keys,
\* tokens and requests there are (the rules of internal/org/tenant.go and
\* internal/store/tenant_scope.go).
THEOREM TenantsAreApart == Spec => []TenantIsolation
  BY Invariance, PTL

\* No key exceeds its creator in role, models or tenant, however many keys made
\* keys since (CreateAPIKey).
THEOREM KeysAreWithin == Spec => []KeysWithinCreator
<1>1. Inv => KeysWithinCreator
  <2> SUFFICES ASSUME Inv, NEW k \in KeyIds, apiKeys[k].state # "absent", apiKeys[k].by # Anonymous
               PROVE  LET row == apiKeys[k]  by == row.by IN
                      /\ roleRank(row.role) <= roleRank(by.role)
                      /\ by.models # {} => row.models # {} /\ row.models \subseteq by.models
                      /\ Belongs(by, InWorkspace(row.ws))
    BY DEF KeysWithinCreator
  <2>1. KeyWithin(apiKeys[k])
    BY DEF Inv, KeysOK, Stored
  <2>2. Belongs(apiKeys[k].by, InWorkspace(apiKeys[k].ws))
    BY <2>1, WorkspaceFits DEF KeyWithin, Fits
  <2> QED
    BY <2>1, <2>2 DEF KeyWithin
<1> QED
  BY <1>1, Invariance, PTL

\* A key with a model list reaches no other model, by any endpoint (Authorize,
\* ChatCompletions).
THEOREM ModelsAreRespected == Spec => []ModelsRespected
<1>1. Inv => ModelsRespected
  BY DEF Inv, LogsOK, ModelsRespected
<1> QED
  BY <1>1, Invariance, PTL

-----------------------------------------------------------------------------
(* Memberships.                                                            *)

\* The tables of users and memberships have their rows.
Shaped == DOMAIN members = WorkspaceIds \X Users /\ DOMAIN users = Users

\* What MembershipWithinRole says of a step.
WithinRole ==
    ~Global(effect'.by) =>
        /\ \A m \in WorkspaceIds \X Users :
              members'[m] # members[m] => roleRank(members'[m]) <= roleRank(effect'.by.role)
        /\ \A u \in Users : users[u] # None => users'[u] = users[u]

LEMMA MembersUnchanged == ASSUME Shaped, UNCHANGED <<members, users>> PROVE Shaped' /\ WithinRole
  BY DEF Shaped, WithinRole

\* The write of a membership, which was checked before.
LEMMA WriteMemberWithin == ASSUME Inv, Shaped, NEW t \in Threads, WriteMember(t) PROVE Shaped' /\ WithinRole
<1>1. PICK id : id = thread[t].id
  OBVIOUS
<1>2. PICK ws : ws = UserWorkspace(t)
  OBVIOUS
<1>3. PICK arg : arg = thread[t].call.arg
  OBVIOUS
<1>4. PICK role : role = memberRole(arg.role)
  OBVIOUS
<1>5. members' = [members EXCEPT ![<<ws, arg.user>>] = role]
  BY <1>2, <1>3, <1>4 DEF WriteMember, AddUserToWorkspace, UpsertMember
<1>6. users' = users \/ (users[arg.user] = None /\ users' = [users EXCEPT ![arg.user] = arg.name])
  BY <1>3 DEF WriteMember, AddUserToWorkspace, UpsertMember
<1>7. Global(id) \/ roleRank(role) <= roleRank(id.role)
  BY <1>1, <1>3, <1>4 DEF Inv, ThreadOK, MayWrite, WriteMember
<1>8. effect'.by = id
  BY <1>1 DEF WriteMember, Touch
<1>9. \A m \in WorkspaceIds \X Users : members'[m] # members[m] => members'[m] = role
  BY <1>5 DEF Shaped
<1>10. \A u \in Users : users[u] # None => users'[u] = users[u]
  BY <1>6 DEF Shaped
<1>11. Shaped'
  BY <1>5, <1>6 DEF Shaped
<1> QED
  BY <1>7, <1>8, <1>9, <1>10, <1>11 DEF WithinRole

\* A global caller renames the user; nobody else writes yet.
LEMMA CreateUserWithin == ASSUME Shaped, NEW t \in Threads, CreateUser(t) PROVE Shaped' /\ WithinRole
<1>1. CASE ~Global(thread[t].id)
  <2>1. UNCHANGED <<members, users>>
    BY <1>1 DEF CreateUser, createScopedUser, Checked, Refused, tables
  <2> QED
    BY <2>1, MembersUnchanged
<1>2. CASE Global(thread[t].id)
  <2>1. PICK id : id = thread[t].id
    OBVIOUS
  <2>2. effect'.by = id /\ Global(id)
    BY <1>2, <2>1 DEF CreateUser
  <2>3. UNCHANGED members /\ DOMAIN users' = DOMAIN users
    BY <1>2 DEF CreateUser, UpsertUser
  <2> QED
    BY <2>2, <2>3 DEF Shaped, WithinRole
<1> QED
  BY <1>1, <1>2

LEMMA OthersKeepMembers ==
    ASSUME NEW t \in Threads, Admit(t) \/ Handler(t), ~CreateUser(t), ~WriteMember(t)
    PROVE  UNCHANGED <<members, users>>
<1>1. CASE Admit(t)
  BY <1>1 DEF Admit, tables
<1>2. CASE ListAPIKeys(t) \/ CreateAPIKey(t) \/ DeleteAPIKey(t)
  BY <1>2 DEF ListAPIKeys, CreateAPIKey, DeleteAPIKey, DisableAPIKey, InsertAPIKey, Show, Refused, tables
<1>3. CASE CreateOrganization(t) \/ ListOrganizations(t) \/ CreateWorkspace(t) \/ ListWorkspacesOf(t)
  BY <1>3 DEF CreateOrganization, ListOrganizations, CreateWorkspace, ListWorkspacesOf, InsertOrganization,
              InsertWorkspace, Show, Refused, tables
<1>4. CASE ListUsersOf(t) \/ UpsertWorkspaceMember(t) \/ ListMembers(t)
  BY <1>4 DEF ListUsersOf, UpsertWorkspaceMember, ListMembers, Checked, Show, Refused, tables
<1>5. CASE CreatePrompt(t) \/ ListPrompts(t) \/ RenderPrompt(t) \/ Labels(t)
  BY <1>5 DEF CreatePrompt, ListPrompts, RenderPrompt, Labels, CreatePromptVersion, SetPromptLabel,
              Show, Refused, tables
<1>6. CASE Infer(t) \/ getLogs(t) \/ readMetrics(t) \/ readTrace(t)
  BY <1>6 DEF Infer, getLogs, readMetrics, readTrace, InsertLog, Show, Refused, tables
<1>7. CASE CreateFeedback(t) \/ ListFeedback(t) \/ globalOnly(t)
  BY <1>7 DEF CreateFeedback, ListFeedback, globalOnly, InsertFeedback, Show, Refused, tables
<1> QED
  BY <1>1, <1>2, <1>3, <1>4, <1>5, <1>6, <1>7 DEF Handler

LEMMA MembersStep == ASSUME Inv, Shaped, [Next]_vars PROVE Shaped' /\ (UNCHANGED vars \/ WithinRole)
<1>1. CASE UNCHANGED vars
  BY <1>1 DEF Shaped, vars, tables
<1>2. ASSUME NEW t \in Threads, Admit(t) \/ Handler(t) PROVE Shaped' /\ WithinRole
  <2>1. CASE CreateUser(t)
    BY <2>1, CreateUserWithin
  <2>2. CASE WriteMember(t)
    BY <2>2, WriteMemberWithin
  <2>3. CASE ~CreateUser(t) /\ ~WriteMember(t)
    BY <1>2, <2>3, OthersKeepMembers, MembersUnchanged
  <2> QED
    BY <2>1, <2>2, <2>3
<1>3. ASSUME NEW k \in Expiring, Expire(k) PROVE Shaped' /\ WithinRole
  <2>1. UNCHANGED <<members, users>>
    BY <1>3 DEF Expire, KeyExpires, InsertAPIKey
  <2> QED
    BY <2>1, MembersUnchanged
<1> QED
  BY <1>1, <1>2, <1>3 DEF Next

\* A scoped caller sets no membership above its own role and changes no user that
\* exists, also when something happened between its check and its write.
THEOREM MembershipsAreWithin == Spec => MembershipWithinRole
<1>1. Init => Shaped
  BY TablesAssumption DEF Init, TablesInit, Shaped
<1>2. Inv /\ Shaped /\ [Next]_vars => Shaped' /\ [WithinRole]_vars
  BY MembersStep
<1>3. Spec => [][WithinRole]_vars
  BY <1>1, <1>2, Invariance, PTL DEF Spec
<1> QED
  BY <1>3 DEF MembershipWithinRole, WithinRole

-----------------------------------------------------------------------------
(* Versions and labels.                                                    *)

\* A set of indexes has a last one.
LEMMA HasLast ==
    ASSUME NEW n \in Nat, NEW T, T \subseteq 1..n, T # {} PROVE \E i \in T : \A j \in T : j <= i
<1>1. PICK D : D = {d \in Nat : n - d \in T}
  OBVIOUS
<1>2. D \subseteq Nat /\ D # {}
  <2>1. PICK i \in T : TRUE
    OBVIOUS
  <2>2. n - i \in Nat /\ n - (n - i) = i
    OBVIOUS
  <2> QED
    BY <1>1, <2>1, <2>2
<1>3. PICK R : R = {ss \in Nat \X Nat : ss[1] < ss[2]}
  OBVIOUS
<1>4. IsWellFoundedOn(R, Nat)
  BY <1>3, NatLessThanWellFounded, Zenon DEF OpToRel
<1>5. PICK x \in D : \A y \in D : ~(<<y, x>> \in R)
  BY <1>2, <1>4, WFMin
<1>6. ASSUME NEW y \in D PROVE x <= y
  <2>1. x \in Nat /\ y \in Nat
    BY <1>2
  <2>2. y < x => <<y, x>> \in R
    BY <1>3, <2>1
  <2> QED
    BY <1>5, <2>1, <2>2
<1>7. n - x \in T /\ \A j \in T : n - j \in D
  BY <1>1, <1>5
<1> QED
  BY <1>1, <1>6, <1>7

\* All rows of a prompt, and the highest of their versions.
RowsOf(rows, ws, name) == {j \in DOMAIN rows : rows[j].ws = ws /\ rows[j].name = name}
TopVersion(rows, same) == Max({0} \cup {rows[i].version : i \in same})

\* The highest version of a prompt is the number of its rows.
LEMMA LatestVersion ==
    ASSUME NEW rows \in Seq(PromptRows), VersionsCount(rows), NEW ws, NEW name, NEW same,
           same = RowsOf(rows, ws, name),
           NEW top, top = TopVersion(rows, same)
    PROVE  /\ same = SamePrompt(rows, ws, name, Len(rows)) /\ IsFiniteSet(same) /\ Cardinality(same) \in Nat
           /\ top = Cardinality(same)
<1>1. Len(rows) \in Nat /\ DOMAIN rows = 1..Len(rows)
  BY LenProperties
<1>2. same = SamePrompt(rows, ws, name, Len(rows)) /\ same \subseteq 1..Len(rows)
  BY <1>1 DEF SamePrompt, RowsOf
<1>3. IsFiniteSet(same)
  <2>1. IsFiniteSet(1..Len(rows))
    BY <1>1, FS_Interval
  <2> QED
    BY <1>2, <2>1, FS_Subset
<1>4. Cardinality(same) \in Nat
  BY <1>3, FS_CardinalityType
<1>5. PICK V : V = {0} \cup {rows[i].version : i \in same}
  OBVIOUS
<1>6. \A v \in V : v <= Cardinality(same)
  <2>1. ASSUME NEW i \in same PROVE rows[i].version <= Cardinality(same)
    <3>1. rows[i].version = Cardinality(SamePrompt(rows, ws, name, i))
      BY <2>1 DEF VersionsCount, RowsOf
    <3>2. SamePrompt(rows, ws, name, i) \in SUBSET same
      BY <1>1, <1>2 DEF SamePrompt
    <3> QED
      BY <1>3, <3>1, <3>2, FS_Subset
  <2> QED
    BY <1>4, <1>5, <2>1
<1>7. Cardinality(same) \in V
  <2>1. CASE same = {}
    BY <1>5, <2>1, FS_EmptySet
  <2>2. CASE same # {}
    <3>1. PICK i \in same : \A j \in same : j <= i
      BY <1>1, <1>2, <2>2, HasLast
    <3>2. SamePrompt(rows, ws, name, i) = same
      BY <1>1, <1>2, <3>1 DEF SamePrompt
    <3>3. rows[i].version = Cardinality(same)
      BY <3>1, <3>2 DEF VersionsCount, RowsOf
    <3> QED
      BY <1>5, <3>1, <3>3
  <2> QED
    BY <2>1, <2>2
<1>8. V \subseteq Int
  <2>1. ASSUME NEW i \in same PROVE rows[i].version \in Nat
    <3>1. rows[i] \in PromptRows
      BY <1>1, <1>2, ElementOfSeq
    <3> QED
      BY <3>1 DEF PromptRows
  <2> QED
    BY <1>5, <2>1
<1>9. Max(V) = Cardinality(same)
  <2>1. \E x \in V : \A y \in V : x >= y
    BY <1>4, <1>6, <1>7, <1>8
  <2>2. PICK m : m = Max(V)
    OBVIOUS
  <2>3. m \in V /\ \A y \in V : m >= y
    BY <2>1, <2>2 DEF Max
  <2>4. PICK c : c = Cardinality(same)
    OBVIOUS
  <2>5. m \in Int /\ c \in Int /\ m >= c /\ m <= c
    BY <1>6, <1>7, <1>8, <2>3, <2>4
  <2> QED
    BY <2>2, <2>4, <2>5
<1> QED
  BY <1>2, <1>3, <1>4, <1>5, <1>9 DEF TopVersion

\* A version that is appended counts on.
LEMMA VersionCounts ==
    ASSUME NEW rows \in Seq(PromptRows), VersionsCount(rows), NEW ws \in WorkspaceIds \cup {None}, NEW name \in Names,
           NEW same, same = RowsOf(rows, ws, name),
           NEW top, top = TopVersion(rows, same),
           NEW row, row = [ws |-> ws, name |-> name, version |-> 1 + top]
    PROVE  Append(rows, row) \in Seq(PromptRows) /\ VersionsCount(Append(rows, row))
<1>1. /\ same = SamePrompt(rows, ws, name, Len(rows)) /\ IsFiniteSet(same) /\ Cardinality(same) \in Nat
      /\ row = [ws |-> ws, name |-> name, version |-> 1 + Cardinality(same)]
  <2>1. /\ same = SamePrompt(rows, ws, name, Len(rows)) /\ IsFiniteSet(same) /\ Cardinality(same) \in Nat
        /\ top = Cardinality(same)
    BY LatestVersion
  <2> QED
    BY <2>1, Zenon
<1>2. row \in PromptRows /\ row.ws = ws /\ row.name = name /\ row.version = 1 + Cardinality(same)
  BY <1>1 DEF PromptRows
<1>3. PICK n \in Nat : n = Len(rows) /\ DOMAIN rows = 1..n
  BY LenProperties
<1>4. PICK more : more = Append(rows, row)
  OBVIOUS
<1>5. more \in Seq(PromptRows) /\ DOMAIN more = 1..(n + 1) /\ more[n + 1] = row /\ \A i \in 1..n : more[i] = rows[i]
  <2>1. /\ more \in Seq(PromptRows) /\ Len(more) = n + 1 /\ more[n + 1] = row
        /\ \A i \in 1..n : more[i] = rows[i]
    <3>1. row \in PromptRows
      BY <1>2
    <3>2. /\ Append(rows, row) \in Seq(PromptRows) /\ Len(Append(rows, row)) = Len(rows) + 1
          /\ \A i \in 1..Len(rows) : Append(rows, row)[i] = rows[i]
          /\ Append(rows, row)[Len(rows) + 1] = row
      BY <3>1, AppendProperties
    <3> QED
      BY <1>3, <1>4, <3>2, Zenon
  <2>2. DOMAIN more = 1..Len(more)
    BY <2>1, LenProperties
  <2> QED
    BY <2>1, <2>2
<1>6. ASSUME NEW i \in DOMAIN more
      PROVE  more[i].version = Cardinality(SamePrompt(more, more[i].ws, more[i].name, i))
  <2>1. CASE i = n + 1
    <3>1. SamePrompt(more, ws, name, n + 1) = same \cup {n + 1}
      BY <1>1, <1>2, <1>3, <1>5 DEF SamePrompt
    <3>2. n + 1 \notin same
      BY <1>1, <1>3 DEF SamePrompt
    <3>3. Cardinality(same \cup {n + 1}) = Cardinality(same) + 1
      BY <1>1, <3>2, FS_AddElement
    <3>4. more[i].ws = ws /\ more[i].name = name /\ more[i].version = 1 + Cardinality(same)
      BY <1>2, <1>5, <2>1
    <3>5. SamePrompt(more, more[i].ws, more[i].name, i) = same \cup {n + 1}
      BY <2>1, <3>1, <3>4
    <3>6. PICK c : c = Cardinality(same)
      OBVIOUS
    <3>7. c \in Nat /\ more[i].version = 1 + c /\ Cardinality(same \cup {n + 1}) = c + 1
      BY <1>1, <3>3, <3>4, <3>6
    <3> QED
      BY <3>5, <3>7
  <2>2. CASE i \in 1..n
    <3>1. more[i] = rows[i] /\ rows[i].version = Cardinality(SamePrompt(rows, rows[i].ws, rows[i].name, i))
      BY <1>3, <1>5, <2>2 DEF VersionsCount
    <3>2. SamePrompt(more, rows[i].ws, rows[i].name, i) = SamePrompt(rows, rows[i].ws, rows[i].name, i)
      BY <1>3, <1>5, <2>2 DEF SamePrompt
    <3> QED
      BY <3>1, <3>2
  <2> QED
    BY <1>3, <1>5, <1>6, <2>1, <2>2
<1> QED
  BY <1>4, <1>5, <1>6 DEF VersionsCount

\* Prompts are typed and counted, and labels name a row of their own prompt.
PromptsInv ==
    /\ prompts \in Seq(PromptRows) /\ VersionsCount(prompts)
    /\ \A l \in DOMAIN labels : labels[l] # 0 =>
          labels[l] \in DOMAIN prompts /\ prompts[labels[l]].ws = l[1] /\ prompts[labels[l]].name = l[2]

LEMMA NamespaceTyped ==
    ASSUME Inv, NEW t \in Threads, thread[t].pc = "handle", NEW ws \in Namespace(t) PROVE ws \in WorkspaceIds \cup {None}
<1>1. PICK id : id = thread[t].id
  OBVIOUS
<1>2. PICK asked : asked = thread[t].call.arg.ws
  OBVIOUS
<1>3. id \in Identities /\ asked \in WorkspaceIds \cup {None} /\ ws \in resolveWorkspace(id, asked)
  BY <1>1, <1>2, Handled DEF Namespace
<1>4. id.ws \in WorkspaceIds \cup {None}
  BY <1>3 DEF Identities
<1>5. CASE Global(id)
  BY <1>3, <1>5 DEF resolveWorkspace, Global
<1>6. CASE ~Global(id) /\ id.ws # None
  BY <1>3, <1>4, <1>6 DEF resolveWorkspace
<1>7. CASE ~Global(id) /\ id.ws = None
  BY <1>3, <1>7 DEF resolveWorkspace
<1> QED
  BY <1>5, <1>6, <1>7

LEMMA CreatePromptCounts ==
    ASSUME Inv, PromptsInv, NEW t \in Threads, CreatePrompt(t) PROVE PromptsInv'
<1>1. CASE Refused(t)
  BY <1>1 DEF Refused, tables, PromptsInv
<1>2. CASE ~Refused(t)
  <2>1. PICK name : name = thread[t].call.arg.name
    OBVIOUS
  <2>2. PICK ws \in Namespace(t) : CreatePromptVersion(ws, name)
    BY <1>2, <2>1 DEF CreatePrompt
  <2>3. thread[t].pc = "handle"
    BY DEF CreatePrompt, Handles
  <2>4. ws \in WorkspaceIds \cup {None} /\ name \in Names
    BY <2>1, <2>2, <2>3, NamespaceTyped, Handled, CallsAssumption
  <2>5. PICK same : same = RowsOf(prompts, ws, name)
    OBVIOUS
  <2>0. PICK top : top = TopVersion(prompts, same)
    OBVIOUS
  <2>6. PICK row : row = [ws |-> ws, name |-> name, version |-> 1 + top]
    OBVIOUS
  <2>7. prompts' = Append(prompts, row) /\ labels' = labels
    BY <2>0, <2>2, <2>5, <2>6 DEF CreatePromptVersion, NextVersion, RowsOf, TopVersion
  <2>8. prompts' \in Seq(PromptRows) /\ VersionsCount(prompts')
    BY <2>0, <2>4, <2>5, <2>6, <2>7, VersionCounts DEF PromptsInv
  <2>9. row \in PromptRows
    <3>1. prompts'[Len(prompts) + 1] = row /\ Len(prompts) + 1 \in 1..Len(prompts')
      BY <2>7, LenProperties DEF PromptsInv
    <3> QED
      BY <2>8, <3>1, ElementOfSeq
  <2>10. DOMAIN prompts \subseteq DOMAIN prompts' /\ \A i \in DOMAIN prompts : prompts'[i] = prompts[i]
    BY <2>7, <2>9, AppendProperties, LenProperties DEF PromptsInv
  <2> QED
    BY <2>7, <2>8, <2>10 DEF PromptsInv
<1> QED
  BY <1>1, <1>2

LEMMA LabelsKeepPrompts == ASSUME PromptsInv, NEW t \in Threads, Labels(t) PROVE PromptsInv'
<1>1. CASE UNCHANGED tables
  BY <1>1 DEF tables, PromptsInv
<1>2. CASE ~(UNCHANGED tables)
  <2>1. PICK arg : arg = thread[t].call.arg
    OBVIOUS
  <2>2. PICK ws \in Namespace(t) : SetPromptLabel(ws, arg.name, arg.label, arg.prompt)
    BY <1>2, <2>1 DEF Labels, Show, Refused
  <2>3. PICK l, i : l = <<ws, arg.name, arg.label>> /\ i = arg.prompt
    OBVIOUS
  <2>4. i \in DOMAIN prompts /\ prompts[i].ws = l[1] /\ prompts[i].name = l[2]
    BY <2>2, <2>3 DEF SetPromptLabel, LabelTarget, GetWorkspacePrompt, ListWorkspacePrompts
  <2>5. labels' = [labels EXCEPT ![l] = i] /\ prompts' = prompts
    BY <2>2, <2>3 DEF SetPromptLabel
  <2> QED
    BY <2>4, <2>5 DEF PromptsInv
<1> QED
  BY <1>1, <1>2

LEMMA OthersKeepPrompts ==
    ASSUME NEW t \in Threads, Admit(t) \/ Handler(t), ~CreatePrompt(t), ~Labels(t)
    PROVE  UNCHANGED <<prompts, labels>>
<1>1. CASE Admit(t)
  BY <1>1 DEF Admit, tables
<1>2. CASE ListAPIKeys(t) \/ CreateAPIKey(t) \/ DeleteAPIKey(t)
  BY <1>2 DEF ListAPIKeys, CreateAPIKey, DeleteAPIKey, DisableAPIKey, InsertAPIKey, Show, Refused, tables
<1>3. CASE CreateOrganization(t) \/ ListOrganizations(t) \/ CreateWorkspace(t) \/ ListWorkspacesOf(t)
  BY <1>3 DEF CreateOrganization, ListOrganizations, CreateWorkspace, ListWorkspacesOf, InsertOrganization,
              InsertWorkspace, Show, Refused, tables
<1>4. CASE CreateUser(t) \/ WriteMember(t)
  BY <1>4 DEF CreateUser, createScopedUser, WriteMember, UpsertUser, AddUserToWorkspace, UpsertMember,
              Checked, Refused, tables
<1>5. CASE ListUsersOf(t) \/ UpsertWorkspaceMember(t) \/ ListMembers(t) \/ ListPrompts(t) \/ RenderPrompt(t)
  BY <1>5 DEF ListUsersOf, UpsertWorkspaceMember, ListMembers, ListPrompts, RenderPrompt, Checked, Show, Refused,
              tables
<1>6. CASE Infer(t) \/ getLogs(t) \/ readMetrics(t) \/ readTrace(t)
  BY <1>6 DEF Infer, getLogs, readMetrics, readTrace, InsertLog, Show, Refused, tables
<1>7. CASE CreateFeedback(t) \/ ListFeedback(t) \/ globalOnly(t)
  BY <1>7 DEF CreateFeedback, ListFeedback, globalOnly, InsertFeedback, Show, Refused, tables
<1> QED
  BY <1>1, <1>2, <1>3, <1>4, <1>5, <1>6, <1>7 DEF Handler

LEMMA PromptsStep == ASSUME Inv, PromptsInv, [Next]_vars PROVE PromptsInv'
<1>1. CASE UNCHANGED vars
  BY <1>1 DEF PromptsInv, vars, tables
<1>2. ASSUME NEW t \in Threads, Admit(t) \/ Handler(t) PROVE PromptsInv'
  <2>1. CASE CreatePrompt(t)
    BY <2>1, CreatePromptCounts
  <2>2. CASE Labels(t)
    BY <2>2, LabelsKeepPrompts
  <2>3. CASE ~CreatePrompt(t) /\ ~Labels(t)
    BY <1>2, <2>3, OthersKeepPrompts DEF PromptsInv
  <2> QED
    BY <2>1, <2>2, <2>3
<1>3. ASSUME NEW k \in Expiring, Expire(k) PROVE PromptsInv'
  BY <1>3 DEF Expire, KeyExpires, InsertAPIKey, PromptsInv
<1> QED
  BY <1>1, <1>2, <1>3 DEF Next

\* Versions count 1, 2, ... per prompt and workspace, and a label names a version
\* of its own prompt, for every history of requests (CreatePromptVersion).
THEOREM PromptsStayConsistent == Spec => []PromptsConsistent
<1>1. Init => PromptsInv
  BY TablesAssumption DEF Init, TablesInit, PromptsInv
<1>2. Inv /\ PromptsInv /\ [Next]_vars => PromptsInv'
  BY PromptsStep
<1>3. PromptsInv => PromptsConsistent
  BY DEF PromptsInv, PromptsConsistent
<1> QED
  BY <1>1, <1>2, <1>3, Invariance, PTL DEF Spec

-----------------------------------------------------------------------------
(* The keys of the tokens that authenticate callers (JwksCache).           *)
(*                                                                         *)
(* RemovedKeyEnds and RotationHonoured speak of the step that ends a       *)
(* request.  TokenInv says where the keys that this step uses come from:   *)
(* KeysSeen for the cache, AnswerSeen and OwnAnswer for the answer of a    *)
(* fetch, HeldSeen for the keys that a waiting request falls back to.      *)

\* The settings of the cache.
LEMMA JwksTimes ==
    /\ CacheTTL \in Nat \ {0} /\ StaleIfError \in Nat
    /\ MinForcedRefreshInterval \in Nat /\ MaxBackoff \in Nat \ {0}
    /\ FetchTimeout \in Nat \ {0}
    /\ MaxClock \in Nat /\ MaxRotations \in Nat
  BY JwksConstants DEF Jwks!JwksAssumption

\* A request as the authenticator knows it.
CallerRecord ==
    [pc : {"idle", "call", "wait", "accepted", "rejected"}, kid : Kids,
     forced : BOOLEAN, held : SUBSET Kids, own : BOOLEAN,
     failed : BOOLEAN, since : BOOLEAN]

\* The part of the state that the arguments below do arithmetic on.  (The
\* backoff has an invariant of its own, BackoffKnown: none of them depends on it.)
Typed ==
    /\ now \in Nat
    /\ idp \subseteq Kids
    /\ lastSeen \in [Kids -> Nat]
    /\ DOMAIN cache = {"keys", "fetchedAt", "failures", "retryAt", "lastForced"}
    /\ cache.keys \subseteq Kids /\ cache.fetchedAt \in Nat
    /\ fetch \in [pc : {"none", "request", "answered"}, keys : SUBSET Kids, startedAt : Nat]
    /\ caller \in [Callers -> CallerRecord]

\* Nothing lies in the future, and a fetch runs for at most its timeout.
Times ==
    /\ \A k \in Kids : lastSeen[k] <= now
    /\ cache.fetchedAt <= now
    /\ fetch.startedAt <= now
    /\ fetch.pc # "none" => now <= fetch.startedAt + FetchTimeout

\* The provider has the key, or had it at time t.
SeenSince(k, t) == k \in idp \/ lastSeen[k] >= t

\* A cached key was at the provider when its fetch began.
KeysSeen == \A k \in cache.keys : SeenSince(k, cache.fetchedAt - FetchTimeout)

\* So was a key of the answer that is not applied yet.
AnswerSeen ==
    fetch.pc = "answered" => \A k \in fetch.keys : SeenSince(k, fetch.startedAt)

\* The keys that a waiting request held were usable when the fetch it waits
\* for was running.
HeldSeen ==
    \A c \in Callers : caller[c].pc = "wait" =>
        /\ fetch.pc # "none"
        /\ \A k \in caller[c].held :
              SeenSince(k, fetch.startedAt - CacheTTL - StaleIfError - FetchTimeout + 1)

\* The answer of the fetch that a request started itself has the request's key
\* if the provider had it all the time.
OwnAnswer ==
    \A c \in Callers :
        /\ caller[c].since => caller[c].kid \in idp
        /\ caller[c].own => caller[c].forced
        /\ caller[c].pc = "call" => ~caller[c].own
        /\ (/\ caller[c].pc = "wait" /\ caller[c].own /\ caller[c].since
            /\ fetch.pc = "answered") => caller[c].kid \in fetch.keys

TokenInv == Typed /\ Times /\ KeysSeen /\ AnswerSeen /\ HeldSeen /\ OwnAnswer /\ Jwks!RotationHonoured
\* What Authenticate makes of a request and the keys it got: it accepts only a
\* kid that the keys have, and rejects or repeats only one that they lack.
LEMMA ResolveFacts ==
    ASSUME NEW call \in CallerRecord, NEW keys \in SUBSET Kids
    PROVE  /\ Jwks!Resolve(call, keys) \in CallerRecord
           /\ \/ Jwks!Resolve(call, keys).pc = "accepted" /\ call.kid \in keys
              \/ Jwks!Resolve(call, keys).pc = "call" /\ ~call.forced
              \/ /\ Jwks!Resolve(call, keys).pc = "rejected"
                 /\ call.forced /\ call.kid \notin keys
           /\ Jwks!Resolve(call, keys).kid = call.kid
           /\ Jwks!Resolve(call, keys).own = call.own
           /\ Jwks!Resolve(call, keys).failed = call.failed
           /\ Jwks!Resolve(call, keys).since = call.since
           /\ call.forced => Jwks!Resolve(call, keys).forced
<1>1. CASE call.kid \in keys
  BY <1>1 DEF Jwks!Resolve, CallerRecord
<1>2. CASE call.kid \notin keys /\ ~call.forced
  BY <1>2 DEF Jwks!Resolve, CallerRecord
<1>3. CASE call.kid \notin keys /\ call.forced
  BY <1>3 DEF Jwks!Resolve, CallerRecord
<1> QED
  BY <1>1, <1>2, <1>3

\* A fetch that succeeded ends every wait with its keys.
LEMMA ReturnFetchedFacts ==
    ASSUME NEW call \in CallerRecord, fetch.keys \in SUBSET Kids
    PROVE  /\ Jwks!ReturnFetched(call) \in CallerRecord
           /\ call.pc # "wait" => Jwks!ReturnFetched(call) = call
           /\ call.pc = "wait" =>
                 \/ Jwks!ReturnFetched(call).pc = "accepted" /\ call.kid \in fetch.keys
                 \/ Jwks!ReturnFetched(call).pc = "call" /\ ~call.forced
                 \/ Jwks!ReturnFetched(call).pc = "rejected" /\ call.kid \notin fetch.keys
           /\ Jwks!ReturnFetched(call).kid = call.kid
           /\ Jwks!ReturnFetched(call).own = call.own
           /\ Jwks!ReturnFetched(call).failed = call.failed
           /\ Jwks!ReturnFetched(call).since = call.since
           /\ call.forced => Jwks!ReturnFetched(call).forced
  BY ResolveFacts DEF Jwks!ReturnFetched

\* A fetch that failed ends every wait with the keys that were held, or none.
LEMMA ReturnFailedFacts ==
    ASSUME NEW call \in CallerRecord
    PROVE  /\ Jwks!ReturnFailed(call) \in CallerRecord
           /\ call.pc # "wait" => Jwks!ReturnFailed(call) = call
           /\ call.pc = "wait" =>
                 /\ \/ Jwks!ReturnFailed(call).pc = "accepted" /\ call.kid \in call.held
                    \/ Jwks!ReturnFailed(call).pc = "call" /\ ~call.forced
                    \/ Jwks!ReturnFailed(call).pc = "rejected"
                 /\ Jwks!ReturnFailed(call).failed
           /\ Jwks!ReturnFailed(call).kid = call.kid
           /\ Jwks!ReturnFailed(call).own = call.own
           /\ Jwks!ReturnFailed(call).since = call.since
           /\ call.forced => Jwks!ReturnFailed(call).forced
<1> DEFINE failed == [call EXCEPT !.failed = TRUE]
<1>1. /\ failed \in CallerRecord
      /\ failed.kid = call.kid /\ failed.own = call.own /\ failed.since = call.since
      /\ failed.forced = call.forced /\ failed.failed
      /\ call.held \in SUBSET Kids
  BY DEF CallerRecord
<1>2. CASE call.pc = "wait" /\ call.held # {}
  <2>1. Jwks!ReturnFailed(call) = Jwks!Resolve(failed, call.held)
    BY <1>2 DEF Jwks!ReturnFailed
  <2> HIDE DEF failed
  <2> QED
    BY <1>1, <1>2, <2>1, ResolveFacts
<1>3. CASE call.pc # "wait"
  BY <1>3 DEF Jwks!ReturnFailed
<1>4. CASE call.pc = "wait" /\ call.held = {}
  BY <1>4 DEF Jwks!ReturnFailed, CallerRecord
<1> QED
  BY <1>2, <1>3, <1>4

-----------------------------------------------------------------------------
\* The invariant holds before the first request.
LEMMA TokenInvStarts == Jwks!Init => TokenInv
<1> SUFFICES ASSUME Jwks!Init PROVE TokenInv
  OBVIOUS
<1>1. PICK k0 \in Kids : idp = {k0}
  BY DEF Jwks!Init
<1>2. (CHOOSE k \in Kids : TRUE) \in Kids
  BY <1>1
<1>3. Typed
  BY <1>1, <1>2 DEF Jwks!Init, Typed, Jwks!NoFetch, Jwks!NewCall, CallerRecord
<1>4. now = 0 /\ fetch = Jwks!NoFetch /\ cache.fetchedAt = 0 /\ cache.keys = {}
  BY DEF Jwks!Init
<1>5. Times
  <2>1. \A k \in Kids : lastSeen[k] = 0
    BY DEF Jwks!Init
  <2>2. fetch.startedAt = 0 /\ fetch.pc = "none"
    BY <1>4 DEF Jwks!NoFetch
  <2> QED
    BY <1>4, <2>1, <2>2 DEF Times
<1> QED
  BY <1>3, <1>5 DEF Jwks!Init, TokenInv, KeysSeen, AnswerSeen, HeldSeen, OwnAnswer,
                    Jwks!RotationHonoured, Jwks!NoFetch, Jwks!NewCall

\* A new request.
LEMMA AuthenticateKeeps ==
    ASSUME TokenInv, NEW c \in Callers, NEW kid \in Kids, Jwks!Authenticate(c, kid)
    PROVE  TokenInv'
<1> USE DEF TokenInv, Jwks!Authenticate, Jwks!providerVars
<1>1. Jwks!NewCall(kid) \in CallerRecord
  BY DEF Jwks!NewCall, CallerRecord
<1>2. Typed'
  BY <1>1 DEF Typed
<1>3. Times' /\ KeysSeen' /\ AnswerSeen'
  BY DEF Times, KeysSeen, AnswerSeen, SeenSince
<1>4. HeldSeen' /\ OwnAnswer' /\ Jwks!RotationHonoured'
  BY DEF Typed, Jwks!NewCall, HeldSeen, OwnAnswer, Jwks!RotationHonoured, SeenSince
<1> QED
  BY <1>2, <1>3, <1>4

\* Starting a fetch, or finding one that runs, leaves a fetch that runs and that
\* began no later than now.
LEMMA StartFetchFacts ==
    ASSUME Typed, Times, Jwks!startFetchLocked
    PROVE  /\ fetch' \in [pc : {"none", "request", "answered"},
                          keys : SUBSET Kids, startedAt : Nat]
           /\ fetch'.pc # "none"
           /\ fetch'.startedAt <= now /\ now <= fetch'.startedAt + FetchTimeout
           /\ fetch.pc # "none" => fetch' = fetch
           /\ fetch.pc = "none" => fetch'.pc = "request"
<1>1. CASE fetch.pc # "none"
  BY <1>1 DEF Jwks!startFetchLocked, Typed, Times
<1>2. CASE fetch.pc = "none"
  <2>1. fetch' = [pc |-> "request", keys |-> {}, startedAt |-> now]
    BY <1>2 DEF Jwks!startFetchLocked, Jwks!NoFetch
  <2> QED
    BY <1>2, <2>1, JwksTimes DEF Typed
<1> QED
  BY <1>1, <1>2

\* A usable key was at the provider less than the cache's lifetime and grace,
\* and one fetch, ago.
LEMMA UsableFacts ==
    ASSUME TokenInv
    PROVE  /\ Jwks!Usable \subseteq cache.keys /\ Jwks!Usable \subseteq Kids
           /\ \A k \in Jwks!Usable :
                 SeenSince(k, now - CacheTTL - StaleIfError - FetchTimeout + 1)
  BY JwksTimes DEF TokenInv, Typed, KeysSeen, SeenSince, Jwks!Usable, Jwks!Age

\* A request that uses the cached keys, and may start a refresh behind them.
LEMMA UseKeysKeeps ==
    ASSUME TokenInv, NEW c \in Callers, Jwks!UseKeys(c)
    PROVE  TokenInv'
<1> USE DEF TokenInv, Jwks!providerVars
<1> DEFINE call == caller[c]
<1>1. call \in CallerRecord /\ Jwks!Usable \in SUBSET Kids
  BY UsableFacts DEF Typed
<1>2. caller' = [caller EXCEPT ![c] = Jwks!Resolve(caller[c], Jwks!Usable)]
  BY DEF Jwks!UseKeys
<1>3. /\ fetch' \in [pc : {"none", "request", "answered"},
                     keys : SUBSET Kids, startedAt : Nat]
      /\ fetch'.startedAt <= now
      /\ fetch'.pc # "none" => now <= fetch'.startedAt + FetchTimeout
      /\ \/ fetch' = fetch
         \/ fetch.pc = "none" /\ fetch'.pc = "request"
  <2>1. CASE UNCHANGED fetch
    BY <2>1 DEF Typed, Times
  <2>2. CASE Jwks!startFetchLocked
    BY <2>2, StartFetchFacts
  <2> QED
    BY <2>1, <2>2 DEF Jwks!UseKeys
<1>4. UNCHANGED <<now, idp, lastSeen, cache>>
  BY DEF Jwks!UseKeys
<1>5. Typed'
  BY <1>1, <1>2, <1>3, <1>4, ResolveFacts DEF Typed
<1>6. Times' /\ KeysSeen' /\ AnswerSeen'
  BY <1>3, <1>4 DEF Typed, Times, KeysSeen, AnswerSeen, SeenSince
<1>7. call.pc = "call"
  BY DEF Jwks!UseKeys
<1>8. HeldSeen' /\ OwnAnswer' /\ Jwks!RotationHonoured'
  BY <1>1, <1>2, <1>3, <1>4, <1>7, ResolveFacts
     DEF Typed, HeldSeen, OwnAnswer, Jwks!RotationHonoured, SeenSince
<1> QED
  BY <1>5, <1>6, <1>8

\* A request that begins to wait for a fetch, with the usable keys in hand.
LEMMA WaitKeeps ==
    ASSUME TokenInv, NEW c \in Callers, caller[c].pc = "call", Jwks!Wait(c)
    PROVE  TokenInv'
<1> USE DEF TokenInv, Jwks!providerVars
<1>1. caller[c] \in CallerRecord /\ Jwks!Usable \in SUBSET Kids
  BY UsableFacts DEF Typed
<1>2. /\ fetch' \in [pc : {"none", "request", "answered"},
                     keys : SUBSET Kids, startedAt : Nat]
      /\ fetch'.pc # "none"
      /\ fetch'.startedAt <= now /\ now <= fetch'.startedAt + FetchTimeout
      /\ fetch.pc # "none" => fetch' = fetch
      /\ fetch.pc = "none" => fetch'.pc = "request"
  BY StartFetchFacts DEF Jwks!Wait
<1>3. UNCHANGED <<now, idp, lastSeen>>
  BY DEF Jwks!Wait
<1>4. /\ DOMAIN cache' = DOMAIN cache
      /\ cache'.keys = Jwks!Usable /\ cache'.fetchedAt = cache.fetchedAt
  BY DEF Jwks!Wait, Typed
<1>5. caller' = [caller EXCEPT ![c].pc = "wait", ![c].held = Jwks!Usable,
                               ![c].own = caller[c].forced /\ fetch.pc = "none"]
  BY DEF Jwks!Wait
<1>6. /\ caller'[c] \in CallerRecord
      /\ caller'[c].pc = "wait" /\ caller'[c].held = Jwks!Usable
      /\ caller'[c].own <=> caller[c].forced /\ fetch.pc = "none"
      /\ caller'[c].kid = caller[c].kid /\ caller'[c].since = caller[c].since
      /\ caller'[c].forced = caller[c].forced
  BY <1>1, <1>5 DEF Typed, CallerRecord
<1>7. /\ caller' \in [Callers -> CallerRecord]
      /\ \A d \in Callers \ {c} : caller'[d] = caller[d]
  BY <1>5, <1>6 DEF Typed
<1>8. Typed'
  BY <1>1, <1>2, <1>3, <1>4, <1>7 DEF Typed
<1>9. Times' /\ KeysSeen' /\ AnswerSeen'
  BY <1>2, <1>3, <1>4, UsableFacts DEF Typed, Times, KeysSeen, AnswerSeen, SeenSince
<1>10. HeldSeen'
  BY <1>2, <1>3, <1>6, <1>7, UsableFacts, JwksTimes DEF Typed, HeldSeen, SeenSince
<1>11. OwnAnswer' /\ Jwks!RotationHonoured'
  BY <1>2, <1>3, <1>6, <1>7 DEF OwnAnswer, Jwks!RotationHonoured, HeldSeen
<1> QED
  BY <1>8, <1>9, <1>10, <1>11

\* A request that finds nothing usable while the provider is backed off from.
LEMMA FailFastKeeps ==
    ASSUME TokenInv, NEW c \in Callers, Jwks!FailFast(c)
    PROVE  TokenInv'
<1> USE DEF TokenInv, Jwks!FailFast, Jwks!providerVars
<1>1. DOMAIN cache' = DOMAIN cache /\ cache'.keys = {} /\ cache'.fetchedAt = cache.fetchedAt
  BY DEF Typed
<1>2. /\ caller'[c] \in CallerRecord
      /\ caller'[c].pc = "rejected" /\ caller'[c].failed
      /\ caller'[c].kid = caller[c].kid /\ caller'[c].since = caller[c].since
      /\ caller'[c].own = caller[c].own /\ caller'[c].forced = caller[c].forced
  BY DEF Typed, CallerRecord
<1>3. /\ caller' \in [Callers -> CallerRecord]
      /\ \A d \in Callers \ {c} : caller'[d] = caller[d]
  BY <1>2 DEF Typed
<1>4. Typed'
  BY <1>1, <1>3 DEF Typed
<1>5. Times' /\ KeysSeen' /\ AnswerSeen'
  BY <1>1 DEF Times, KeysSeen, AnswerSeen, SeenSince
<1>6. HeldSeen' /\ OwnAnswer' /\ Jwks!RotationHonoured'
  BY <1>2, <1>3 DEF HeldSeen, OwnAnswer, Jwks!RotationHonoured, SeenSince
<1> QED
  BY <1>4, <1>5, <1>6

\* A waiting request whose context ends.
LEMMA CanceledKeeps ==
    ASSUME TokenInv, NEW c \in Callers, Jwks!Canceled(c)
    PROVE  TokenInv'
<1> USE DEF TokenInv, Jwks!Canceled, Jwks!providerVars
<1>1. /\ caller'[c] \in CallerRecord
      /\ caller'[c].pc = "rejected" /\ caller'[c].failed
      /\ caller'[c].kid = caller[c].kid /\ caller'[c].since = caller[c].since
      /\ caller'[c].own = caller[c].own /\ caller'[c].forced = caller[c].forced
  BY DEF Typed, CallerRecord
<1>2. /\ caller' \in [Callers -> CallerRecord]
      /\ \A d \in Callers \ {c} : caller'[d] = caller[d]
  BY <1>1 DEF Typed
<1>3. Typed'
  BY <1>2 DEF Typed
<1>4. Times' /\ KeysSeen' /\ AnswerSeen'
  BY DEF Times, KeysSeen, AnswerSeen, SeenSince
<1>5. HeldSeen' /\ OwnAnswer' /\ Jwks!RotationHonoured'
  BY <1>1, <1>2 DEF HeldSeen, OwnAnswer, Jwks!RotationHonoured, SeenSince
<1> QED
  BY <1>3, <1>4, <1>5

\* The provider's answer arrives.
LEMMA AnswerKeeps ==
    ASSUME TokenInv, Jwks!Answer
    PROVE  TokenInv'
<1> USE DEF TokenInv, Jwks!Answer, Jwks!providerVars
<1>1. Typed' /\ Times' /\ KeysSeen'
  BY DEF Typed, Times, KeysSeen, SeenSince
<1>2. AnswerSeen' /\ HeldSeen' /\ OwnAnswer' /\ Jwks!RotationHonoured'
  BY DEF Typed, AnswerSeen, HeldSeen, OwnAnswer, Jwks!RotationHonoured, SeenSince
<1> QED
  BY <1>1, <1>2

\* The answer becomes the key set and ends every wait.
LEMMA FetchSucceedsKeeps ==
    ASSUME TokenInv, Jwks!FetchSucceeds
    PROVE  TokenInv'
<1> USE DEF TokenInv, Jwks!providerVars
<1>1. UNCHANGED <<now, idp, lastSeen>> /\ fetch.pc = "answered"
  BY DEF Jwks!FetchSucceeds
<1>2. /\ DOMAIN cache' = DOMAIN cache
      /\ cache'.keys = fetch.keys /\ cache'.fetchedAt = now
  BY DEF Jwks!FetchSucceeds, Typed
<1>3. /\ fetch' \in [pc : {"none", "request", "answered"},
                     keys : SUBSET Kids, startedAt : Nat]
      /\ fetch'.pc = "none" /\ fetch'.startedAt = 0
  BY DEF Jwks!FetchSucceeds, Jwks!NoFetch
<1>4. fetch.keys \in SUBSET Kids
  BY DEF Typed
<1>5. /\ caller' \in [Callers -> CallerRecord]
      /\ \A d \in Callers : caller'[d] = Jwks!ReturnFetched(caller[d])
  BY <1>4, ReturnFetchedFacts DEF Typed, Jwks!FetchSucceeds
<1>6. Typed'
  BY <1>1, <1>2, <1>3, <1>4, <1>5 DEF Typed
<1>7. Times' /\ KeysSeen' /\ AnswerSeen'
  BY <1>1, <1>2, <1>3, JwksTimes DEF Typed, Times, KeysSeen, AnswerSeen, SeenSince
<1>8. ASSUME NEW d \in Callers
      PROVE  /\ caller'[d].pc # "wait"
             /\ caller'[d].since => caller'[d].kid \in idp'
             /\ caller'[d].own => caller'[d].forced
             /\ caller'[d].pc = "call" => ~caller'[d].own
             /\ (caller'[d].pc = "rejected" /\ caller'[d].own /\ ~caller'[d].failed =>
                   ~caller'[d].since)
  <2>1. caller[d] \in CallerRecord
    BY DEF Typed
  <2> QED
    BY <1>1, <1>4, <1>5, <2>1, ReturnFetchedFacts DEF OwnAnswer, Jwks!RotationHonoured
<1>9. HeldSeen' /\ OwnAnswer' /\ Jwks!RotationHonoured'
  BY <1>8 DEF HeldSeen, OwnAnswer, Jwks!RotationHonoured
<1> QED
  BY <1>6, <1>7, <1>9

\* A fetch that fails ends every wait too.
LEMMA FetchFailsKeeps ==
    ASSUME TokenInv, Jwks!FetchFails
    PROVE  TokenInv'
<1> USE DEF TokenInv, Jwks!providerVars
<1>1. UNCHANGED <<now, idp, lastSeen>>
  BY DEF Jwks!FetchFails
<1>2. /\ DOMAIN cache' = DOMAIN cache
      /\ cache'.keys = cache.keys /\ cache'.fetchedAt = cache.fetchedAt
  BY DEF Jwks!FetchFails, Typed
<1>3. /\ fetch' \in [pc : {"none", "request", "answered"},
                     keys : SUBSET Kids, startedAt : Nat]
      /\ fetch'.pc = "none" /\ fetch'.startedAt = 0
  BY DEF Jwks!FetchFails, Jwks!NoFetch
<1>4. /\ caller' \in [Callers -> CallerRecord]
      /\ \A d \in Callers : caller'[d] = Jwks!ReturnFailed(caller[d])
  BY ReturnFailedFacts DEF Typed, Jwks!FetchFails
<1>5. Typed'
  BY <1>1, <1>2, <1>3, <1>4 DEF Typed
<1>6. Times' /\ KeysSeen' /\ AnswerSeen'
  BY <1>1, <1>2, <1>3 DEF Typed, Times, KeysSeen, AnswerSeen, SeenSince
<1>7. ASSUME NEW d \in Callers
      PROVE  /\ caller'[d].pc # "wait"
             /\ caller'[d].since => caller'[d].kid \in idp'
             /\ caller'[d].own => caller'[d].forced
             /\ caller'[d].pc = "call" => ~caller'[d].own
             /\ (caller'[d].pc = "rejected" /\ caller'[d].own /\ ~caller'[d].failed =>
                   ~caller'[d].since)
  <2>1. caller[d] \in CallerRecord
    BY DEF Typed
  <2> QED
    BY <1>1, <1>4, <2>1, ReturnFailedFacts DEF OwnAnswer, Jwks!RotationHonoured
<1>8. HeldSeen' /\ OwnAnswer' /\ Jwks!RotationHonoured'
  BY <1>7 DEF HeldSeen, OwnAnswer, Jwks!RotationHonoured
<1> QED
  BY <1>5, <1>6, <1>8

\* The provider changes its keys: what it drops it had until now.
LEMMA RotateKeeps ==
    ASSUME TokenInv, NEW keys \in (SUBSET Kids) \ {{}}, Jwks!Rotate(keys)
    PROVE  TokenInv'
<1> USE DEF TokenInv, Jwks!providerVars
<1>1. UNCHANGED <<now, cache, fetch>> /\ idp' = keys
  BY DEF Jwks!Rotate
<1>2. /\ lastSeen' \in [Kids -> Nat]
      /\ \A k \in Kids : lastSeen'[k] = IF k \in idp THEN now ELSE lastSeen[k]
  BY DEF Jwks!Rotate, Typed
<1>3. ASSUME NEW d \in Callers
      PROVE  /\ caller'[d] \in CallerRecord
             /\ caller'[d] = [caller[d] EXCEPT !.since = @ /\ caller[d].kid \in keys]
             /\ caller'[d].since <=> caller[d].since /\ caller[d].kid \in keys
             /\ caller'[d].pc = caller[d].pc /\ caller'[d].kid = caller[d].kid
             /\ caller'[d].held = caller[d].held /\ caller'[d].own = caller[d].own
             /\ caller'[d].forced = caller[d].forced
             /\ caller'[d].failed = caller[d].failed
  BY DEF Jwks!Rotate, Typed, CallerRecord
<1>4. caller' \in [Callers -> CallerRecord]
  <2>1. caller' = [d \in Callers |-> caller'[d]]
    BY DEF Jwks!Rotate
  <2> QED
    BY <1>3, <2>1
<1>5. Typed'
  BY <1>1, <1>2, <1>4 DEF Typed
<1>6. Times'
  BY <1>1, <1>2 DEF Typed, Times
<1>7. KeysSeen'
  BY <1>1, <1>2, JwksTimes DEF Typed, Times, KeysSeen, SeenSince
<1>8. AnswerSeen'
  BY <1>1, <1>2 DEF Typed, Times, AnswerSeen, SeenSince
<1>9. HeldSeen'
  <2> SUFFICES ASSUME NEW d \in Callers, caller'[d].pc = "wait"
               PROVE  /\ fetch'.pc # "none"
                      /\ \A k \in caller'[d].held :
                           SeenSince(k, fetch.startedAt - CacheTTL - StaleIfError
                                            - FetchTimeout + 1)'
    BY <1>1 DEF HeldSeen
  <2>1. caller[d].pc = "wait" /\ caller'[d].held = caller[d].held
             /\ caller[d].held \subseteq Kids
    BY <1>3 DEF Typed, CallerRecord
  <2> QED
    BY <1>1, <1>2, <2>1, JwksTimes DEF Typed, Times, HeldSeen, SeenSince
<1>10. OwnAnswer' /\ Jwks!RotationHonoured'
  BY <1>1, <1>3 DEF OwnAnswer, Jwks!RotationHonoured
<1> QED
  BY <1>5, <1>6, <1>7, <1>8, <1>9, <1>10

\* The clock, which does not pass the timeout of a running fetch.
LEMMA TickKeeps ==
    ASSUME TokenInv, Jwks!Tick
    PROVE  TokenInv'
<1> USE DEF TokenInv, Jwks!Tick, Jwks!providerVars
<1>1. Typed' /\ Times'
  BY JwksTimes DEF Typed, Times
<1>2. KeysSeen' /\ AnswerSeen' /\ HeldSeen' /\ OwnAnswer' /\ Jwks!RotationHonoured'
  BY DEF KeysSeen, AnswerSeen, HeldSeen, OwnAnswer, Jwks!RotationHonoured, SeenSince
<1> QED
  BY <1>1, <1>2

\* Every step keeps the invariant.
LEMMA TokenInvKept == TokenInv /\ [Jwks!Next]_(Jwks!vars) => TokenInv'
<1> SUFFICES ASSUME TokenInv, [Jwks!Next]_(Jwks!vars) PROVE TokenInv'
  OBVIOUS
<1>1. ASSUME NEW c \in Callers, Jwks!currentKeys(c) PROVE TokenInv'
  BY <1>1, UseKeysKeeps, WaitKeeps, FailFastKeeps DEF Jwks!currentKeys, Jwks!ForceRefresh, Jwks!ColdFetch
<1>2. CASE Jwks!runFetch
  BY <1>2, AnswerKeeps, FetchSucceedsKeeps, FetchFailsKeeps DEF Jwks!runFetch
<1>3. CASE UNCHANGED Jwks!vars
  BY <1>3 DEF Jwks!vars, TokenInv, Typed, Times, KeysSeen, AnswerSeen, HeldSeen, OwnAnswer,
              Jwks!RotationHonoured, SeenSince
<1> QED
  BY <1>1, <1>2, <1>3, AuthenticateKeeps, CanceledKeeps, RotateKeeps, TickKeeps DEF Jwks!Next

\* Every behaviour of the authenticator satisfies the invariant.
THEOREM TokenKeysInvariance == JwksSpec => []TokenInv
<1> QED
  BY TokenInvStarts, TokenInvKept, PTL DEF JwksSpec, Jwks!Spec

\* A rotation of the provider's keys is honoured: a request whose own forced
\* fetch succeeded is never rejected for a kid that the provider had ever since
\* the request began, whatever other fetches, rotations and requests ran
\* meanwhile.
THEOREM RotationIsHonoured == JwksSpec => []RotationHonoured
<1>1. TokenInv => RotationHonoured
  BY DEF TokenInv, RotationHonoured
<1> QED
  BY <1>1, TokenKeysInvariance, PTL

\* Nobody waits for ever on a fetch that has gone: a request waits only while the
\* fetch that will close call.done runs, also when the request that started it
\* was canceled or the fetch failed.
THEOREM WaitersHaveFetch == JwksSpec => []Jwks!WaitsForRunningFetch
<1>1. TokenInv => Jwks!WaitsForRunningFetch
  BY DEF TokenInv, HeldSeen, Jwks!WaitsForRunningFetch
<1> QED
  BY <1>1, TokenKeysInvariance, PTL

\* Who accepts a token does so with a key that the provider has, or had less
\* than the lifetime, the grace and two fetches ago.
LEMMA AcceptsSeenKeys ==
    ASSUME TokenInv, [Jwks!Next]_(Jwks!vars), NEW c \in Callers,
           caller'[c].pc = "accepted", caller[c].pc # "accepted"
    PROVE  SeenSince(caller[c].kid,
                     now - CacheTTL - StaleIfError - 2 * FetchTimeout + 1)
<1> USE DEF TokenInv
<1>1. caller[c] \in CallerRecord /\ caller[c].kid \in Kids
  BY DEF Typed, CallerRecord
<1>2. CASE Jwks!UseKeys(c)
  <2>1. caller'[c] = Jwks!Resolve(caller[c], Jwks!Usable)
    BY <1>2 DEF Jwks!UseKeys, Typed
  <2>2. caller[c].kid \in Jwks!Usable
    BY <1>1, <2>1, ResolveFacts, UsableFacts
  <2> QED
    BY <1>1, <2>2, UsableFacts, JwksTimes DEF SeenSince, Typed
<1>3. CASE Jwks!FetchSucceeds
  <2>1. caller'[c] = Jwks!ReturnFetched(caller[c]) /\ fetch.keys \in SUBSET Kids
    BY <1>3 DEF Jwks!FetchSucceeds, Typed
  <2>2. caller[c].kid \in fetch.keys
    BY <1>1, <2>1, ReturnFetchedFacts
  <2> QED
    BY <1>1, <1>3, <2>2, JwksTimes DEF Jwks!FetchSucceeds, AnswerSeen, SeenSince, Typed, Times
<1>4. CASE Jwks!FetchFails
  <2>1. caller'[c] = Jwks!ReturnFailed(caller[c])
    BY <1>4 DEF Jwks!FetchFails
  <2>2. caller[c].pc = "wait" /\ caller[c].kid \in caller[c].held
    BY <1>1, <2>1, ReturnFailedFacts
  <2> QED
    BY <1>1, <1>4, <2>2, JwksTimes DEF Jwks!FetchFails, HeldSeen, SeenSince, Typed, Times
<1>5. ASSUME ~Jwks!UseKeys(c), ~Jwks!FetchSucceeds, ~Jwks!FetchFails PROVE FALSE
  <2>1. ASSUME NEW d \in Callers, NEW kid \in Kids, Jwks!Authenticate(d, kid) PROVE FALSE
    BY <2>1 DEF Jwks!Authenticate, Jwks!NewCall, Typed
  <2>2. ASSUME NEW d \in Callers, Jwks!UseKeys(d) PROVE FALSE
    BY <1>5, <2>2 DEF Jwks!UseKeys, Typed
  <2>3. ASSUME NEW d \in Callers, Jwks!Wait(d) \/ Jwks!FailFast(d) \/ Jwks!Canceled(d) PROVE FALSE
    BY <2>3 DEF Jwks!Wait, Jwks!FailFast, Jwks!Canceled, Typed, CallerRecord
  <2>4. ASSUME NEW keys \in (SUBSET Kids) \ {{}}, Jwks!Rotate(keys) PROVE FALSE
    BY <2>4 DEF Jwks!Rotate, Typed, CallerRecord
  <2> QED
    BY <1>5, <2>1, <2>2, <2>3, <2>4
       DEF Jwks!Next, Jwks!vars, Jwks!currentKeys, Jwks!ForceRefresh, Jwks!ColdFetch, Jwks!runFetch, Jwks!Answer, Jwks!Tick
<1> QED
  BY <1>2, <1>3, <1>4, <1>5

\* A removed key ends: no token is accepted with a key that the provider dropped
\* longer ago than the cache's lifetime, its grace and two fetches.
THEOREM RemovedKeysEnd == JwksSpec => RemovedKeyEnds
<1>1. ASSUME TokenInv, [Jwks!Next]_(Jwks!vars), NEW c \in Callers,
             caller'[c].pc = "accepted", caller[c].pc # "accepted"
      PROVE  \/ caller[c].kid \in idp
             \/ now - lastSeen[caller[c].kid] <
                    CacheTTL + StaleIfError + 2 * FetchTimeout
  <2>1. caller[c].kid \in Kids /\ lastSeen[caller[c].kid] \in Nat /\ now \in Nat
    BY <1>1 DEF TokenInv, Typed, CallerRecord
  <2> QED
    BY <1>1, <2>1, AcceptsSeenKeys, JwksTimes DEF SeenSince
<1>2. TokenInv /\ [Jwks!Next]_(Jwks!vars) =>
         [\A c \in Callers :
             caller'[c].pc = "accepted" /\ caller[c].pc # "accepted" =>
                 \/ caller[c].kid \in idp
                 \/ now - lastSeen[caller[c].kid] <
                        CacheTTL + StaleIfError + 2 * FetchTimeout]_(Jwks!vars)
  BY <1>1
<1> QED
  BY <1>2, TokenKeysInvariance, PTL DEF JwksSpec, Jwks!Spec, RemovedKeyEnds, Jwks!RemovedKeyEnds

\* The backoff is a time, so that being past it and backing off exclude each
\* other.  (2^n is an integer for every natural n, and more is not needed: the
\* guards compare with whatever time the last failure set.)
BackoffKnown ==
    /\ now \in Nat
    /\ DOMAIN cache = {"keys", "fetchedAt", "failures", "retryAt", "lastForced"}
    /\ cache.failures \in Nat /\ cache.retryAt \in Int

\* The backoff after a number of failures.
LEMMA BackoffIsTime ==
    ASSUME NEW failures \in Nat \ {0}
    PROVE  Jwks!jwksBackoff(failures) \in Int
<1>1. failures - 1 \in Nat
  OBVIOUS
<1>2. 2^(failures - 1) \in Int
  BY <1>1
<1> QED
  BY <1>2, JwksTimes DEF Jwks!jwksBackoff

LEMMA BackoffKnownStarts == Jwks!Init => BackoffKnown
<1> SUFFICES ASSUME Jwks!Init PROVE BackoffKnown
  OBVIOUS
<1>1. /\ now = 0
      /\ cache = [keys |-> {}, fetchedAt |-> 0, failures |-> 0, retryAt |-> 0,
                  lastForced |-> 0 - MinForcedRefreshInterval]
  BY DEF Jwks!Init
<1> QED
  BY <1>1 DEF BackoffKnown

\* A failed fetch sets the backoff, a successful one clears it; a request that
\* waits changes other fields of the cache.
LEMMA BackoffKnownKept == BackoffKnown /\ [Jwks!Next]_(Jwks!vars) => BackoffKnown'
<1> SUFFICES ASSUME BackoffKnown, [Jwks!Next]_(Jwks!vars) PROVE BackoffKnown'
  OBVIOUS
<1> USE DEF BackoffKnown, Jwks!providerVars
<1>1. CASE UNCHANGED <<now, cache>>
  BY <1>1
<1>2. ASSUME NEW c \in Callers, Jwks!currentKeys(c) PROVE BackoffKnown'
  <2>1. CASE Jwks!UseKeys(c)
    BY <2>1, <1>1 DEF Jwks!UseKeys
  <2>2. CASE Jwks!ForceRefresh(c) \/ Jwks!ColdFetch(c)
    BY <2>2 DEF Jwks!ForceRefresh, Jwks!ColdFetch, Jwks!Wait
  <2>3. CASE Jwks!FailFast(c)
    BY <2>3 DEF Jwks!FailFast
  <2> QED
    BY <1>2, <2>1, <2>2, <2>3 DEF Jwks!currentKeys
<1>3. CASE Jwks!FetchSucceeds
  BY <1>3 DEF Jwks!FetchSucceeds
<1>4. CASE Jwks!FetchFails
  <2> DEFINE failures == IF cache.failures < MaxBackoff THEN cache.failures + 1
                         ELSE MaxBackoff
  <2>1. failures \in Nat \ {0}
    BY JwksTimes
  <2>2. /\ cache' = [cache EXCEPT !.failures = failures,
                                  !.retryAt = now + Jwks!jwksBackoff(failures)]
        /\ now' = now
    BY <1>4 DEF Jwks!FetchFails
  <2>3. Jwks!jwksBackoff(failures) \in Int
    BY <2>1, BackoffIsTime
  <2> HIDE DEF failures
  <2> QED
    BY <2>1, <2>2, <2>3
<1>5. CASE Jwks!Answer
  BY <1>5 DEF Jwks!Answer
<1>6. CASE Jwks!Tick
  BY <1>6 DEF Jwks!Tick
<1>7. ASSUME NEW c \in Callers, Jwks!Canceled(c) PROVE BackoffKnown'
  BY <1>7 DEF Jwks!Canceled
<1>8. ASSUME NEW c \in Callers, NEW kid \in Kids, Jwks!Authenticate(c, kid)
      PROVE  BackoffKnown'
  BY <1>8 DEF Jwks!Authenticate
<1>9. ASSUME NEW keys \in (SUBSET Kids) \ {{}}, Jwks!Rotate(keys) PROVE BackoffKnown'
  BY <1>9 DEF Jwks!Rotate
<1> QED
  BY <1>1, <1>2, <1>3, <1>4, <1>5, <1>6, <1>7, <1>8, <1>9 DEF Jwks!Next, Jwks!runFetch, Jwks!vars

\* Only a request starts a fetch, and none does so while it backs off.
LEMMA StartsAfterBackoff ==
    ASSUME BackoffKnown, [Jwks!Next]_(Jwks!vars), fetch.pc = "none", fetch'.pc # "none"
    PROVE  now >= cache.retryAt
<1>1. ~Jwks!BackingOff => now >= cache.retryAt
  BY DEF BackoffKnown, Jwks!BackingOff
<1>2. ASSUME NEW c \in Callers, Jwks!currentKeys(c) PROVE ~Jwks!BackingOff
  BY <1>2 DEF Jwks!currentKeys, Jwks!UseKeys, Jwks!ForceRefresh, Jwks!ColdFetch,
              Jwks!FailFast, Jwks!ForcedAllowed
<1>3. CASE Jwks!runFetch
  BY <1>3 DEF Jwks!runFetch, Jwks!Answer, Jwks!FetchSucceeds, Jwks!FetchFails, Jwks!NoFetch
<1>4. CASE fetch' = fetch
  BY <1>4
<1> QED
  BY <1>1, <1>2, <1>3, <1>4 DEF Jwks!Next, Jwks!vars, Jwks!Authenticate, Jwks!Canceled,
       Jwks!Rotate, Jwks!Tick

\* "after a failed fetch no new fetch starts for jwksInitialBackoff, doubling
\* per consecutive failure" (jwks_cache.go): no request starts a fetch before
\* the backoff of the last failure is over, cold, stale or forced.
THEOREM BackoffIsKept == JwksSpec => Jwks!NoFetchInBackoff
<1>1. BackoffKnown /\ [Jwks!Next]_(Jwks!vars) =>
        [fetch.pc = "none" /\ fetch'.pc # "none" => now >= cache.retryAt]_(Jwks!vars)
  BY StartsAfterBackoff
<1> QED
  BY <1>1, BackoffKnownStarts, BackoffKnownKept, PTL DEF JwksSpec, Jwks!Spec, Jwks!NoFetchInBackoff
=============================================================================
