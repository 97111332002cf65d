------------------------------ MODULE Identity ------------------------------
(***************************************************************************)
(* Who a caller is and what it may do: roles, tenant scope, model lists,   *)
(* the role each endpoint requires, authorization rules and the external   *)
(* authorizer (internal/gateway: middleware.go, tenant.go,                 *)
(* authorization.go, external_authorization.go).                           *)
(***************************************************************************)
EXTENDS Integers, Sequences

\* The empty string: no name, no workspace, no organization, no role.
None == ""

normalizeRole(role) ==
    CASE role \in {"owner", "admin"} -> role
      [] role \in {"member", "editor"} -> "member"
      [] OTHER -> "viewer"

roleRank(role) ==
    CASE normalizeRole(role) = "owner" -> 4
      [] normalizeRole(role) = "admin" -> 3
      [] normalizeRole(role) = "member" -> 2
      [] OTHER -> 1

\* What authentication attaches to a request; models = {} allows every model.
Caller(key, ws, org, role, models) ==
    [key |-> key, ws |-> ws, org |-> org, role |-> role, models |-> models]

\* No identity: authentication is off.
Anonymous == Caller(None, None, None, None, {})

Global(id) == id.ws = None /\ id.org = None

\* TenantScope.Allows, for a record of a workspace and the organization that owns it.
Allows(id, ws, org) ==
    \/ Global(id)
    \/ id.ws # None /\ ws = id.ws
    \/ id.ws = None /\ org = id.org

AllowsModel(id, model) == id.models = {} \/ model \in id.models

-----------------------------------------------------------------------------
(* Endpoints.                                                              *)

isReadMethod(method) == method \in {"GET", "HEAD", "OPTIONS"}

\* Inference and MCP requests are open to every valid key.
Open == {"/v1/chat/completions", "/v1/mcp/tools/call", "/mcp", "/api/health"}

Dashboard == {"/", "/a2a", "/metrics"}     \* served outside /api/

requiredRole(method, path) ==
    CASE path \in Open -> None
      [] path \in Dashboard -> "viewer"
      [] path \in {"/api/keys", "/api/virtual-keys", "/api/virtual-keys/rotate", "/api/users",
                   "/api/workspace-members", "/api/configs", "/api/config/raw"} -> "admin"
      [] path \in {"/api/prompts", "/api/prompts/versions", "/api/prompts/render",
                   "/api/prompts/labels", "/api/evals/policy"} ->
            IF isReadMethod(method) THEN "viewer" ELSE "member"
      [] path = "/api/feedback" -> "viewer"
      [] OTHER -> IF isReadMethod(method) THEN "viewer" ELSE "admin"

-----------------------------------------------------------------------------
(* Authorization rules: results[i] is what the expression of rules[i]      *)
(* evaluates to.                                                           *)

Denies(rule, result) == result = "error" \/ (result = "true" /\ rule = "deny")

Evaluate(rules, results) ==
    /\ \A i \in DOMAIN rules : ~Denies(rules[i], results[i])
    /\ (\E i \in DOMAIN rules : rules[i] = "allow") =>
          \E i \in DOMAIN rules : rules[i] = "allow" /\ results[i] = "true"

\* The external authorizer: only an explicit true of a good answer allows.
externalAllows(answer) == answer = "allowed"

Answers == {"allowed", "denied", "unavailable"}

\* The AllowedModels list is compared for POSTs under /v1/ only.
modelChecked(id, method, path) ==
    id.models # {} /\ method = "POST" /\ path \in {"/v1/chat/completions", "/v1/mcp/tools/call"}

\* Authorize: the model list, the rules, the role, and the external authorizer.
Authorized(id, call, rules, results, answer) ==
    /\ modelChecked(id, call.method, call.path) => AllowsModel(id, call.model)
    /\ Evaluate(rules, results)
    /\ requiredRole(call.method, call.path) # None =>
          roleRank(id.role) >= roleRank(requiredRole(call.method, call.path))
    /\ externalAllows(answer)
=============================================================================
