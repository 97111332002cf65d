---------------------------- MODULE ControlPlane ----------------------------
(***************************************************************************)
(* The control plane of a gateway that several tenants share: API keys,    *)
(* organizations, workspaces, users and memberships, prompts and labels,   *)
(* feedback and the dashboard's reads (internal/admin, org, prompt,        *)
(* feedback, vault and dashboard on top of TenantStore).                   *)
(*                                                                         *)
(* A request is authenticated, authorized and rate limited, and then runs  *)
(* its handler; what it read of its key, of a workspace or of a membership *)
(* may have changed when the handler uses it.                              *)
(***************************************************************************)
EXTENDS TenantStore

CONSTANTS
    Threads,            \* requests, all in flight at once or one after the other
    Calls,              \* request -> what its client may ask: [who, method, path, model, arg]
    Tokens,             \* token -> identity that its claims give
    Expiring,           \* keys with an expires_at
    Rules,              \* effects of the authorization rules
    AuthModes           \* settings.authEnabled

\* Clients name workspaces, organizations and models by their ids; a key that
\* expires is a key, and the subject of a token is not the id of one.
ASSUME CallsAssumption ==
    /\ \A t \in Threads : \A call \in Calls[t] :
          /\ call.arg.ws \in WorkspaceIds \cup {None} /\ call.arg.org \in OrgIds \cup {None}
          /\ call.arg.role \in Names /\ call.arg.name \in Names /\ call.arg.models \in SUBSET Names
    /\ Expiring \subseteq KeyIds
    /\ \A who \in DOMAIN Tokens : Tokens[who] \in Identities /\ Tokens[who].key \notin KeyIds

VARIABLES
    authEnabled,
    thread,         \* requests in flight
    effect          \* what the last step showed or changed, and for whom

vars == <<authEnabled, tables, thread, effect>>

\* A request that is not read yet, or is over.
Unread(pc) == [pc |-> pc, call |-> <<>>, id |-> Anonymous]

NoEffect == [by |-> Anonymous, rows |-> {}]

TypeOK ==
    /\ authEnabled \in AuthModes /\ TablesOK
    /\ \A t \in Threads : thread[t].pc \in {"new", "handle", "write", "done"}

Init ==
    /\ authEnabled \in AuthModes /\ TablesInit
    /\ thread = [t \in Threads |-> Unread("new")]
    /\ effect = NoEffect

-----------------------------------------------------------------------------
(* Middleware.                                                             *)

Done(t) == thread' = [thread EXCEPT ![t] = Unread("done")]

Refused(t) == Done(t) /\ effect' = NoEffect /\ UNCHANGED tables

\* The handler has checked the request and goes on to write.
Checked(t) ==
    /\ thread' = [thread EXCEPT ![t].pc = "write"]
    /\ effect' = NoEffect /\ UNCHANGED tables

\* The identity of a key's row; the organization is that of its workspace, and
\* stays empty when the workspace cannot be read.
KeyIdentity(k, row, found) ==
    Caller(k, row.ws, IF found /\ row.ws # None THEN workspaces[row.ws] ELSE None,
           normalizeRole(row.role), row.models)

\* AuthorizationMiddleware, for what its rules and the external authorizer may say.
Authorize(id, call) ==
    \E results \in [DOMAIN Rules -> {"true", "false", "error"}], answer \in Answers :
        Authorized(id, call, Rules, results, answer)

\* A key that is unknown, or cannot be read, is tried as a bearer token; a
\* disabled or expired one is refused.
Authenticate(call) ==
    {KeyIdentity(call.who, row, found) :
        row \in {r \in GetAPIKeyByHash(call.who) : r.state = "enabled"}, found \in BOOLEAN}
    \cup {Tokens[k] : k \in DOMAIN Tokens \cap {call.who}}

\* Without authentication there is no identity, and nothing is authorized.
\* Between authentication and the handler a request shares nothing but the rate
\* limiter, which may refuse it; so may every check before.
Admit(t) ==
    /\ thread[t].pc = "new"
    /\ \/ \E call \in Calls[t] : \E id \in IF authEnabled THEN Authenticate(call) ELSE {Anonymous} :
             /\ authEnabled => Authorize(id, call)
             /\ thread' = [thread EXCEPT ![t] = [pc |-> "handle", call |-> call, id |-> id]]
       \/ Done(t)
    /\ effect' = NoEffect
    /\ UNCHANGED <<authEnabled, tables>>

-----------------------------------------------------------------------------
(* Handlers.  Each is guarded by the endpoint it serves.                   *)

Handles(t, method, path) ==
    /\ thread[t].pc = "handle" /\ UNCHANGED authEnabled
    /\ thread[t].call.method = method /\ thread[t].call.path = path

\* The request ends; rows are what it showed or changed.
Touch(t, rows) ==
    /\ Done(t)
    /\ effect' = [by |-> thread[t].id, rows |-> rows]

Show(t, rows) == Touch(t, rows) /\ UNCHANGED tables

\* What a row belongs to: workspaces, an organization, and a key for a log.
Row(wss, org, key) == [ws |-> wss \ {None}, org |-> org, key |-> key]
InWorkspace(ws) == Row({ws}, None, None)
Shared == Row({}, None, None)

\* Mutant: an organization's caller sees the keys of every workspace.
keyInScopeLoose(id, ws) == Global(id) \/ (ws # None /\ (id.ws # None => ws = id.ws))

keyInScope(id, ws) ==
    \/ Global(id)
    \/ /\ ws # None
       /\ IF id.ws # None THEN ws = id.ws ELSE \E org \in GetWorkspaceByID(ws) : Allows(id, ws, org)

ListAPIKeys(t) ==
    /\ Handles(t, "GET", "/api/keys")
    /\ Show(t, {InWorkspace(apiKeys[k].ws) : k \in ListAPIKeysForTenant(thread[t].id)})

\* Whether the caller may make this key, and the row it makes: an empty model
\* list inherits the caller's, an empty workspace the caller's workspace.
MayCreateKey(id, arg) ==
    \/ id = Anonymous
    \/ /\ id.models # {} => arg.models \subseteq id.models
       /\ roleRank(arg.role) <= roleRank(id.role)
       /\ id.ws # None => arg.ws \in {None, id.ws}
       /\ (id.ws = None /\ ~Global(id)) => arg.ws # None /\ keyInScope(id, arg.ws)

\* Mutant: a key made without a model list is unrestricted.
NewKeyUnlisted(id, arg) ==
    KeyRow("enabled", IF id.ws # None THEN id.ws ELSE arg.ws, arg.role, arg.models, id)

NewKey(id, arg) ==
    KeyRow("enabled", IF id.ws # None THEN id.ws ELSE arg.ws, arg.role,
           IF arg.models = {} THEN id.models ELSE arg.models, id)

CreateAPIKey(t) ==
    LET id == thread[t].id  arg == thread[t].call.arg IN
    /\ Handles(t, "POST", "/api/keys")
    /\ \E k \in {j \in KeyIds : ~Stored(j)} :
          IF MayCreateKey(id, arg)
          THEN InsertAPIKey(k, NewKey(id, arg)) /\ Touch(t, {InWorkspace(NewKey(id, arg).ws)})
          ELSE Refused(t)

\* The row is read and the key is disabled in two statements, but the tenant
\* and the role of a key never change, so nothing can come between.
DeleteAPIKey(t) ==
    LET id == thread[t].id  k == thread[t].call.arg.key IN
    /\ Handles(t, "DELETE", "/api/keys")
    /\ IF Stored(k) /\ (id # Anonymous => /\ keyInScope(id, apiKeys[k].ws)
                                          /\ roleRank(apiKeys[k].role) <= roleRank(id.role))
       THEN DisableAPIKey(k) /\ Touch(t, {InWorkspace(apiKeys[k].ws)})
       ELSE Refused(t)

-----------------------------------------------------------------------------
(* Organizations, workspaces, users and memberships.                       *)

CreateOrganization(t) ==
    /\ Handles(t, "POST", "/api/orgs")
    /\ \E o \in OrgIds \ orgs :
          IF Global(thread[t].id) THEN InsertOrganization(o) /\ Touch(t, {Row({}, o, None)})
          ELSE Refused(t)

ListOrganizations(t) ==
    /\ Handles(t, "GET", "/api/orgs")
    /\ Show(t, {Row({w \in WorkspaceIds : workspaces[w] = o}, o, None) :
                   o \in ListOrganizationsForTenant(thread[t].id)})

CreateWorkspace(t) ==
    LET id == thread[t].id
        asked == thread[t].call.arg.org
        org == IF Global(id) THEN asked ELSE id.org
    IN  /\ Handles(t, "POST", "/api/workspaces")
        /\ \E w \in {v \in WorkspaceIds : workspaces[v] = None} :
              IF id.ws = None /\ org # None /\ asked \in {None, org}
              THEN InsertWorkspace(w, org) /\ Touch(t, {Row({w}, org, None)})
              ELSE Refused(t)

ListWorkspacesOf(t) ==
    /\ Handles(t, "GET", "/api/workspaces")
    /\ Show(t, {InWorkspace(w) : w \in ListWorkspacesForTenant(thread[t].id, thread[t].call.arg.org)})

ListUsersOf(t) ==
    /\ Handles(t, "GET", "/api/users")
    /\ Show(t, {Row(MemberOf(u), None, None) : u \in ListUsersForTenant(thread[t].id)})

ListMembers(t) ==
    /\ Handles(t, "GET", "/api/workspace-members")
    /\ Show(t, {InWorkspace(m[1]) : m \in ListWorkspaceMembersForTenant(thread[t].id, thread[t].call.arg.ws)})

memberRole(role) == IF role = None THEN "viewer" ELSE role

\* Mutant: the role asked for is not compared with the caller's.
authorizeMembershipLoose(id, ws, user, role) ==
    /\ \E org \in GetWorkspaceByID(ws) : Allows(id, ws, org)
    /\ \A had \in GetWorkspaceMember(ws, user) : roleRank(had) <= roleRank(id.role)

\* The existing membership is looked up for a user that exists.
authorizeMembership(id, ws, user, role) ==
    /\ \E org \in GetWorkspaceByID(ws) : Allows(id, ws, org)
    /\ roleRank(memberRole(role)) <= roleRank(id.role)
    /\ \A u \in getUser(user) : \A had \in GetWorkspaceMember(ws, u) :
          roleRank(had) <= roleRank(id.role)

\* The workspace of a scoped CreateUser: the one asked for, or the caller's own.
UserWorkspace(t) ==
    IF thread[t].call.arg.ws = None THEN thread[t].id.ws ELSE thread[t].call.arg.ws

\* A scoped caller is checked against what is stored now, and writes later.
createScopedUser(t) ==
    LET arg == thread[t].call.arg  ws == UserWorkspace(t) IN
    IF ws # None /\ authorizeMembership(thread[t].id, ws, arg.user, arg.role) THEN Checked(t)
    ELSE Refused(t)

\* A global caller creates or renames the user, then adds the membership.
CreateUser(t) ==
    LET id == thread[t].id  arg == thread[t].call.arg IN
    /\ Handles(t, "POST", "/api/users")
    /\ IF ~Global(id) THEN createScopedUser(t)
       ELSE /\ UpsertUser(arg.user, arg.name)
            /\ thread' = [thread EXCEPT ![t] = IF arg.ws = None THEN Unread("done")
                                               ELSE [@ EXCEPT !.pc = "write"]]
            /\ effect' = [by |-> id, rows |-> {Shared}]

UpsertWorkspaceMember(t) ==
    LET id == thread[t].id  arg == thread[t].call.arg
        allowed == authorizeMembership(id, arg.ws, arg.user, arg.role) /\ getUser(arg.user) # {}
    IN  /\ Handles(t, "POST", "/api/workspace-members")
        /\ IF arg.ws # None /\ (Global(id) \/ allowed) THEN Checked(t) ELSE Refused(t)

\* The write of CreateUser and UpsertWorkspaceMember.
WriteMember(t) ==
    LET id == thread[t].id  arg == thread[t].call.arg  ws == UserWorkspace(t) IN
    /\ thread[t].pc = "write" /\ UNCHANGED authEnabled
    /\ IF thread[t].call.path = "/api/users" /\ ~Global(id)
       THEN AddUserToWorkspace(ws, arg.user, arg.name, memberRole(arg.role))
       ELSE UpsertMember(ws, arg.user, memberRole(arg.role))
    /\ Touch(t, {InWorkspace(ws)})

-----------------------------------------------------------------------------
(* Prompts.                                                                *)

\* The namespace a request works in; none when it is refused.
resolveWorkspace(id, requested) ==
    CASE Global(id) -> {requested}
      [] id.ws # None -> {w \in {id.ws} : requested \in {None, w}}
      [] OTHER -> {w \in WorkspaceIds \cap {requested} :
                      \E org \in GetWorkspaceByID(w) : Allows(id, w, org)}

Namespace(t) == resolveWorkspace(thread[t].id, thread[t].call.arg.ws)

CreatePrompt(t) ==
    /\ Handles(t, "POST", "/api/prompts")
    /\ \/ Namespace(t) = {} /\ Refused(t)
       \/ \E ws \in Namespace(t) :
             CreatePromptVersion(ws, thread[t].call.arg.name) /\ Touch(t, {InWorkspace(ws)})

\* ListPrompts and ListPromptVersions, which narrows the list to one name.
ListPrompts(t) ==
    /\ Handles(t, "GET", "/api/prompts")
    /\ Show(t, {InWorkspace(prompts[i].ws) : i \in UNION {ListWorkspacePrompts(ws) : ws \in Namespace(t)}})

\* By name and label, by id for a global caller, by id in the namespace.
RenderPrompt(t) ==
    LET id == thread[t].id  arg == thread[t].call.arg
        found == CASE arg.prompt = 0 -> UNION {GetWorkspacePromptByLabel(ws, arg.name, arg.label) :
                                                  ws \in Namespace(t)}
                   [] arg.prompt # 0 /\ Global(id) /\ arg.ws = None -> DOMAIN prompts \cap {arg.prompt}
                   [] OTHER -> UNION {GetWorkspacePrompt(ws, arg.prompt) : ws \in Namespace(t)}
    IN  /\ Handles(t, "POST", "/api/prompts/render")
        /\ Show(t, {InWorkspace(prompts[i].ws) : i \in found})

Labels(t) ==
    LET arg == thread[t].call.arg IN
    \/ /\ Handles(t, "GET", "/api/prompts/labels")
       /\ Show(t, {InWorkspace(l[1]) : l \in UNION {ListWorkspacePromptLabels(ws, arg.name) :
                                                       ws \in Namespace(t)}})
    \/ /\ Handles(t, "POST", "/api/prompts/labels")
       /\ \/ /\ \A ws \in Namespace(t) : ~LabelTarget(ws, arg.name, arg.prompt)
             /\ Refused(t)
          \/ \E ws \in Namespace(t) :
                SetPromptLabel(ws, arg.name, arg.label, arg.prompt) /\ Touch(t, {InWorkspace(ws)})

-----------------------------------------------------------------------------
(* Inference, feedback and the dashboard.                                  *)

\* Mutant: the handler relies on the middleware's check of the model.
ModelAdmittedLoose(id, model) == TRUE

\* ChatCompletions checks the model again, whatever endpoint it was reached by.
ModelAdmitted(id, model) == AllowsModel(id, model)

\* A request that reaches the pipeline is logged with its tenant.
Infer(t) ==
    LET id == thread[t].id  call == thread[t].call IN
    /\ \E path \in {"/v1/chat/completions", "/a2a"} : Handles(t, "POST", path)
    /\ IF ModelAdmitted(id, call.model) THEN InsertLog(id, call.arg.trace, call.model) /\ Touch(t, {})
       ELSE Refused(t)

\* Callers below admin read the logs of their own key.
scopedAPIKeyID(id) == IF id.role \in {"admin", "owner"} THEN None ELSE id.key

LogRows(ls) == {Row({l.ws}, l.org, l.key) : l \in ls}
FeedbackRows(fs) == {Row({f.ws}, f.org, None) : f \in fs}

getLogs(t) ==
    /\ Handles(t, "GET", "/api/logs")
    /\ Show(t, LogRows(listLogs(thread[t].id, scopedAPIKeyID(thread[t].id))))

\* The metrics, the metrics by provider and the cost analytics.
readMetrics(t) ==
    LET id == thread[t].id  key == scopedAPIKeyID(id) IN
    /\ Handles(t, "GET", "/api/metrics")
    /\ \E groups \in {getMetrics(id, key), getCostAnalytics(id, key)} : Show(t, LogRows(UNION groups))

readTrace(t) ==
    LET id == thread[t].id
        detail == getTrace(id, scopedAPIKeyID(id), thread[t].call.arg.trace)
    IN  /\ Handles(t, "GET", "/api/traces")
        /\ Show(t, LogRows(detail.logs) \cup FeedbackRows(detail.feedback))

referencesInScope(id, trace) == Global(id) \/ logExists(id, trace)

CreateFeedback(t) ==
    LET id == thread[t].id  trace == thread[t].call.arg.trace IN
    /\ Handles(t, "POST", "/api/feedback")
    /\ IF referencesInScope(id, trace)
       THEN InsertFeedback(id, trace) /\ Touch(t, {Row({id.ws}, id.org, None)})
       ELSE Refused(t)

ListFeedback(t) ==
    /\ Handles(t, "GET", "/api/feedback")
    /\ Show(t, FeedbackRows(listFeedback(thread[t].id, None)))

\* Virtual keys, stored configs, the config file and /metrics belong to no tenant.
globalOnly(t) ==
    /\ \E path \in {"/api/configs", "/api/config/raw", "/api/virtual-keys", "/metrics"} :
          Handles(t, "GET", path)
    /\ IF Global(thread[t].id) THEN Show(t, {Shared}) ELSE Refused(t)

-----------------------------------------------------------------------------

Handler(t) ==
    \/ ListAPIKeys(t) \/ CreateAPIKey(t) \/ DeleteAPIKey(t)
    \/ CreateOrganization(t) \/ ListOrganizations(t) \/ CreateWorkspace(t) \/ ListWorkspacesOf(t)
    \/ CreateUser(t) \/ ListUsersOf(t) \/ UpsertWorkspaceMember(t) \/ WriteMember(t) \/ ListMembers(t)
    \/ CreatePrompt(t) \/ ListPrompts(t) \/ RenderPrompt(t) \/ Labels(t)
    \/ Infer(t) \/ getLogs(t) \/ readMetrics(t) \/ readTrace(t) \/ CreateFeedback(t) \/ ListFeedback(t)
    \/ globalOnly(t)

Expire(k) == KeyExpires(k) /\ effect' = NoEffect /\ UNCHANGED <<authEnabled, thread>>

Next == (\E t \in Threads : Admit(t) \/ Handler(t)) \/ (\E k \in Expiring : Expire(k))

Spec == Init /\ [][Next]_vars

-----------------------------------------------------------------------------
(* Properties.                                                             *)

\* Whether a row belongs to what the caller may see, by the tables as they are.
Belongs(id, row) ==
    \/ Global(id)
    \/ id.ws # None /\ id.ws \in row.ws
    \/ id.ws = None /\ (row.org = id.org \/ \E w \in row.ws : workspaces[w] = id.org)

\* No handler shows or changes a row of another tenant, and a caller below
\* admin sees no log of another key, whatever path, filter or failed lookup
\* led to the row (the rules of internal/org/tenant.go and tenant_logs.go).
TenantIsolation ==
    \A row \in effect.rows :
        /\ Belongs(effect.by, row)
        /\ (row.key # None /\ effect.by.key # None /\ roleRank(effect.by.role) < 3)
              => row.key = effect.by.key

\* A key never exceeds the identity that made it, in role, models or tenant, so
\* that no chain of keys leads out of where it began (CreateAPIKey).
KeysWithinCreator ==
    \A k \in KeyIds : LET row == apiKeys[k]  by == row.by IN
        (row.state # "absent" /\ by # Anonymous) =>
            /\ roleRank(row.role) <= roleRank(by.role)
            /\ by.models # {} => row.models # {} /\ row.models \subseteq by.models
            /\ Belongs(by, InWorkspace(row.ws))

\* A scoped caller sets no membership above its own role, and changes no user
\* that exists already, also when the user or the membership appeared between
\* the check and the write (createScopedUser, AddUserToWorkspace).
MembershipWithinRole ==
    [][~Global(effect'.by) =>
          /\ \A m \in WorkspaceIds \X Users :
                members'[m] # members[m] => roleRank(members'[m]) <= roleRank(effect'.by.role)
          /\ \A u \in Users : users[u] # None => users'[u] = users[u]]_vars

\* Versions of a prompt count 1, 2, ... per workspace, and a label names a
\* version of its own prompt in its own workspace (CreatePromptVersion, SetPromptLabel).
PromptsConsistent ==
    /\ VersionsCount(prompts)
    /\ \A l \in DOMAIN labels : labels[l] # 0 => /\ prompts[labels[l]].ws = l[1]
                                                 /\ prompts[labels[l]].name = l[2]

\* A key with a model list reaches no other model, by any endpoint (Authorize,
\* ChatCompletions).
ModelsRespected ==
    \A l \in logs : l.key \in KeyIds => LET models == apiKeys[l.key].models IN
                       models = {} \/ l.model \in models

\* What internal/org/tenant.go says of memberships: a scoped caller does not
\* change one that already holds a role above its own.
HigherMembersKept ==
    [][\A m \in WorkspaceIds \X Users :
          (members'[m] # members[m] /\ ~Global(effect'.by))
              => roleRank(members[m]) <= roleRank(effect'.by.role)]_vars
=============================================================================
