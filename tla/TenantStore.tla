---------------------------- MODULE TenantStore -----------------------------
(***************************************************************************)
(* The tables of the control plane and the statements on them              *)
(* (internal/store: store.go, tenant_scope.go, tenant_logs.go,             *)
(* prompt_labels.go).  One operator stands for one statement or            *)
(* transaction; id is the identity whose tenant the statement filters by.  *)
(***************************************************************************)
EXTENDS Identity, FiniteSets, FiniteSetsExt

CONSTANTS
    KeyIds, WorkspaceIds, OrgIds, Users, LabelKeys,
    Keys0, Workspaces0, Members0, Prompts0, Logs0, Feedback0    \* the tables at the start

VARIABLES
    apiKeys,        \* key -> row, with the identity that created it
    orgs, workspaces,   \* workspace -> organization, "" when there is none
    users,          \* email -> stored name, "" when there is none
    members,        \* <<workspace, user>> -> role, "" when there is none
    prompts,        \* sequence of [ws, name, version], by id
    labels,         \* <<workspace, name, label>> -> prompt id, 0 when there is none
    logs, feedback  \* request_logs and feedback rows

tables == <<apiKeys, orgs, workspaces, users, members, prompts, labels, logs, feedback>>

\* A key's row; state is "absent", "enabled", "disabled" or "expired".
KeyRow(state, ws, role, models, by) ==
    [state |-> state, ws |-> ws, role |-> role, models |-> models, by |-> by]

\* Ids, roles and models are strings, None and the four roles among them.
Names == STRING \cup {None, "owner", "admin", "member", "viewer"}

Identities ==
    [key : Names, ws : WorkspaceIds \cup {None}, org : OrgIds \cup {None}, role : Names, models : SUBSET Names]

KeyRows ==
    [state : {"absent", "enabled", "disabled", "expired"}, ws : WorkspaceIds \cup {None},
     role : Names, models : SUBSET Names, by : Identities]

PromptRows == [ws : WorkspaceIds \cup {None}, name : Names, version : Nat]

\* The rows of the same prompt among the first n.
SamePrompt(rows, ws, name, n) == {j \in 1..n : rows[j].ws = ws /\ rows[j].name = name}

\* The versions of every prompt count 1, 2, ... in the order of the rows.
VersionsCount(rows) ==
    \A i \in DOMAIN rows : rows[i].version = Cardinality(SamePrompt(rows, rows[i].ws, rows[i].name, i))

\* The tables at the start: nobody knows who made their keys, their logs are
\* those of keys that exist and were held to their models, and the versions of
\* their prompts count.
ASSUME TablesAssumption ==
    /\ KeyIds \subseteq Names /\ None \notin KeyIds /\ None \notin WorkspaceIds /\ None \notin OrgIds
    /\ Workspaces0 \in [WorkspaceIds -> OrgIds \cup {None}]
    /\ Keys0 \in [KeyIds -> KeyRows] /\ \A k \in KeyIds : Keys0[k].by = Anonymous
    /\ \A l \in Logs0 : l.key \in KeyIds =>
          /\ Keys0[l.key].state # "absent"
          /\ Keys0[l.key].models = {} \/ l.model \in Keys0[l.key].models
    /\ DOMAIN Members0 = WorkspaceIds \X Users
    /\ Prompts0 \in Seq(PromptRows) /\ VersionsCount(Prompts0)

TablesOK ==
    /\ apiKeys \in [KeyIds -> KeyRows]
    /\ orgs \subseteq OrgIds /\ workspaces \in [WorkspaceIds -> OrgIds \cup {None}]
    /\ \A l \in LabelKeys : labels[l] \in 0..Len(prompts)

TablesInit ==
    /\ apiKeys = Keys0
    /\ orgs = {Workspaces0[w] : w \in WorkspaceIds} \ {None}
    /\ workspaces = Workspaces0
    /\ members = Members0
    /\ users = [u \in Users |-> IF \E w \in WorkspaceIds : Members0[<<w, u>>] # None THEN "u" ELSE None]
    /\ prompts = Prompts0 /\ labels = [l \in LabelKeys |-> 0]
    /\ logs = Logs0 /\ feedback = Feedback0

-----------------------------------------------------------------------------
(* api_keys.                                                               *)

Stored(k) == k \in KeyIds /\ apiKeys[k].state # "absent"

GetAPIKeyByHash(k) == {apiKeys[j] : j \in {i \in KeyIds : i = k /\ Stored(i)}}

\* The stored keys of the workspaces that the condition selects.
listAPIKeys(where) == {k \in KeyIds : Stored(k) /\ apiKeys[k].ws \in where}

\* Whether a workspace's row is in the tenant that the filter names.
memberTenantCondition(id, ws) ==
    IF id.ws # None THEN ws = id.ws ELSE ws # None /\ workspaces[ws] = id.org

ListAPIKeysForTenant(id) ==
    listAPIKeys({ws \in WorkspaceIds \cup {None} : Global(id) \/ memberTenantCondition(id, ws)})

InsertAPIKey(k, row) ==
    /\ apiKeys' = [apiKeys EXCEPT ![k] = row]
    /\ UNCHANGED <<orgs, workspaces, users, members, prompts, labels, logs, feedback>>

\* DeleteAPIKey disables the key.
DisableAPIKey(k) == InsertAPIKey(k, [apiKeys[k] EXCEPT !.state = IF @ = "expired" THEN @ ELSE "disabled"])

-----------------------------------------------------------------------------
(* organizations and workspaces.                                           *)

InsertOrganization(o) ==
    /\ orgs' = orgs \cup {o}
    /\ UNCHANGED <<apiKeys, workspaces, users, members, prompts, labels, logs, feedback>>

\* A workspace's filter reads the organization that owns the workspace.
ListOrganizationsForTenant(id) ==
    {o \in orgs : \/ Global(id)
                  \/ id.ws # None /\ workspaces[id.ws] = o
                  \/ id.ws = None /\ o = id.org}

InsertWorkspace(w, org) ==
    /\ workspaces' = [workspaces EXCEPT ![w] = org]
    /\ UNCHANGED <<apiKeys, orgs, users, members, prompts, labels, logs, feedback>>

ListWorkspaces(org) == {w \in WorkspaceIds : workspaces[w] # None /\ org \in {None, workspaces[w]}}

ListWorkspacesForTenant(id, org) ==
    {w \in ListWorkspaces(org) : Global(id) \/ memberTenantCondition(id, w)}

\* The workspace's organization, none when there is no such workspace.
GetWorkspaceByID(w) == {workspaces[v] : v \in ListWorkspaces(None) \cap {w}}

-----------------------------------------------------------------------------
(* users and workspace_members.                                            *)

ListUsers == {u \in Users : users[u] # None}

MemberOf(u) == {w \in WorkspaceIds : members[<<w, u>>] # None}

ListUsersForTenant(id) ==
    {u \in ListUsers : Global(id) \/ \E w \in MemberOf(u) : memberTenantCondition(id, w)}

\* By email; the id of a user is not told apart from its email.
getUser(u) == ListUsers \cap {u}

UpsertUser(u, name) ==
    /\ users' = [users EXCEPT ![u] = name]
    /\ UNCHANGED <<apiKeys, orgs, workspaces, members, prompts, labels, logs, feedback>>

ListWorkspaceMembers(ws) == {m \in WorkspaceIds \X Users : members[m] # None /\ ws \in {None, m[1]}}

ListWorkspaceMembersForTenant(id, ws) ==
    {m \in ListWorkspaceMembers(ws) : Global(id) \/ memberTenantCondition(id, m[1])}

GetWorkspaceMember(ws, u) == {members[m] : m \in ListWorkspaceMembers(ws) \cap {<<ws, u>>}}

UpsertMember(ws, u, role) ==
    /\ members' = [members EXCEPT ![<<ws, u>>] = role]
    /\ UNCHANGED <<apiKeys, orgs, workspaces, users, prompts, labels, logs, feedback>>

\* One transaction: a new email is inserted, an existing user is left as it is,
\* and the role is set whatever it is by now.
AddUserToWorkspace(ws, u, name, role) ==
    /\ users' = IF users[u] = None THEN [users EXCEPT ![u] = name] ELSE users
    /\ members' = [members EXCEPT ![<<ws, u>>] = role]
    /\ UNCHANGED <<apiKeys, orgs, workspaces, prompts, labels, logs, feedback>>

-----------------------------------------------------------------------------
(* prompts and prompt_labels.                                              *)

\* Mutant: the version is counted over every workspace.
NextVersionShared(ws, name) ==
    1 + Max({0} \cup {prompts[i].version : i \in {j \in DOMAIN prompts : prompts[j].name = name}})

\* COALESCE(MAX(version), 0) + 1, computed inside the INSERT, which the single
\* writer or the advisory lock keeps apart from others of the same name.
NextVersion(ws, name) ==
    1 + Max({0} \cup {prompts[i].version : i \in {j \in DOMAIN prompts :
                                              prompts[j].ws = ws /\ prompts[j].name = name}})

CreatePromptVersion(ws, name) ==
    /\ prompts' = Append(prompts, [ws |-> ws, name |-> name, version |-> NextVersion(ws, name)])
    /\ UNCHANGED <<apiKeys, orgs, workspaces, users, members, labels, logs, feedback>>

ListWorkspacePrompts(ws) == {i \in DOMAIN prompts : prompts[i].ws = ws}

GetWorkspacePrompt(ws, i) == ListWorkspacePrompts(ws) \cap {i}

GetWorkspacePromptByLabel(ws, name, label) == GetWorkspacePrompt(ws, labels[<<ws, name, label>>])

ListWorkspacePromptLabels(ws, name) == {l \in LabelKeys : l[1] = ws /\ l[2] = name /\ labels[l] # 0}

\* The prompt that SetPromptLabel's INSERT selects.
LabelTarget(ws, name, i) == GetWorkspacePrompt(ws, i) # {} /\ prompts[i].name = name

SetPromptLabel(ws, name, label, i) ==
    /\ LabelTarget(ws, name, i)
    /\ labels' = [labels EXCEPT ![<<ws, name, label>>] = i]
    /\ UNCHANGED <<apiKeys, orgs, workspaces, users, members, prompts, logs, feedback>>

-----------------------------------------------------------------------------
(* request_logs and feedback.                                              *)

InsertLog(id, trace, model) ==
    /\ logs' = logs \cup {[id |-> Cardinality(logs) + 1, trace |-> trace, key |-> id.key,
                           ws |-> id.ws, org |-> id.org, model |-> model]}
    /\ UNCHANGED <<apiKeys, orgs, workspaces, users, members, prompts, labels, feedback>>

\* LogScope.tenantOnly, and LogScope.where with the condition on the key.
tenantOnly(id, row) ==
    /\ id.ws # None => row.ws = id.ws
    /\ (id.ws = None /\ id.org # None) => row.org = id.org

where(id, key, row) == tenantOnly(id, row) /\ (key # None => row.key = key)

listLogs(id, key) == {l \in logs : where(id, key, l)}

\* getMetrics and getProviderMetrics aggregate the logs in scope, as one group
\* and per group; so does getCostAnalytics.
getMetrics(id, key) == {listLogs(id, key)}

getCostAnalytics(id, key) ==
    LET rows == listLogs(id, key) IN {{l \in rows : l.key = k} : k \in {l.key : l \in rows}}

listFeedback(id, trace) == {f \in feedback : trace \in {None, f.trace} /\ tenantOnly(id, f)}

\* The logs of the trace in scope, with the guardrail events and shadow requests
\* of those logs, and the trace's feedback in the tenant; nothing without a log.
getTrace(id, key, trace) ==
    LET seen == {l \in listLogs(id, key) : l.trace = trace}
    IN  [logs |-> seen, feedback |-> IF seen = {} THEN {} ELSE listFeedback(id, trace)]

logExists(id, trace) == \E l \in listLogs(id, None) : l.trace = trace

InsertFeedback(id, trace) ==
    /\ feedback' = feedback \cup {[trace |-> trace, ws |-> id.ws, org |-> id.org]}
    /\ UNCHANGED <<apiKeys, orgs, workspaces, users, members, prompts, labels, logs>>

\* ExpiresAt of an enabled key passes.
KeyExpires(k) ==
    /\ apiKeys[k].state = "enabled"
    /\ InsertAPIKey(k, [apiKeys[k] EXCEPT !.state = "expired"])
=============================================================================
