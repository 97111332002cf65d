----------------------------- MODULE ToolPolicy -----------------------------
(***************************************************************************)
(* What the MCP gateway reads in a message, what it tells the policy about *)
(* a tool call, and what the policy says (internal/adapter/mcp/adapter.go, *)
(* internal/policy/engine.go and args.go, internal/spec/policy.go).        *)
(*                                                                         *)
(* A JSON object is the sequence of its members, <<name, value>>.  A name  *)
(* is <<folded name, spelling>>, with the spelling "" for the protocol's   *)
(* own.  The gateway reads names exactly; a server may read them by any    *)
(* case, the first or the last of several.                                 *)
(***************************************************************************)
EXTENDS Integers, Sequences, FiniteSets

CONSTANTS
    DestructiveVerbs,   \* operations whose first word is delete, drop, ...
    EnvOf,              \* value -> the environment that its text contains
    Structured          \* values that are lists, objects or null

\* A text that names production says so.
ASSUME EnvAssumption == "production" \in DOMAIN EnvOf => EnvOf["production"] = "production"

Empty == ""

Exact(name) == <<name, Empty>>
Respelled(name) == <<name, "^">>

foldName(member) == member[1]

Get(object, name) == {object[i][2] : i \in {j \in DOMAIN object : object[j][1] = Exact(name)}}

\* The members whose name folds to this one: at most one in what Parse accepts.
GetFolded(object, name) == {object[i][2] : i \in {j \in DOMAIN object : foldName(object[j][1]) = name}}

\* The member by exact name, or else by folded name; none when there is none.
lookupFolded(object, name) ==
    IF Get(object, name) # {} THEN Get(object, name)
    ELSE GetFolded(object, name)

-----------------------------------------------------------------------------
(* Parse.                                                                  *)

\* Mutant: names are compared as they are spelled.
checkDuplicateKeysExact(object) ==
    \A i, j \in DOMAIN object : object[i][1] = object[j][1] => i = j

checkDuplicateKeys(object) ==
    \A i, j \in DOMAIN object : foldName(object[i][1]) = foldName(object[j][1]) => i = j

topLevelMembers == {"jsonrpc", "id", "method", "params", "result", "error"}
paramMembers == {"name", "arguments", "_meta", "requestId", "cursor", "uri"}

checkReservedNames(object, reserved) ==
    \A i \in DOMAIN object :
        foldName(object[i][1]) \in reserved => object[i][1] = Exact(foldName(object[i][1]))

hasID(msg) == Get(msg.top, "id") # {}

\* Whether a message is accepted; a tool call must name its tool.
Parse(msg) ==
    /\ checkDuplicateKeys(msg.top) /\ checkDuplicateKeys(msg.params) /\ checkDuplicateKeys(msg.args)
    /\ checkReservedNames(msg.top, topLevelMembers)
    /\ Get(msg.top, "method") = {} => hasID(msg) /\ Get(msg.top, "result") \cup Get(msg.top, "error") # {}
    /\ checkReservedNames(msg.params, paramMembers)
    /\ Get(msg.top, "method") = {"tools/call"} => Get(msg.params, "name") # {}

-----------------------------------------------------------------------------
(* BuildToolRequest.  A tool's name is [prefix, tool, op], for             *)
(* "prefix__tool.op"; tool is "" in a name without a dot.                  *)

\* Whether the first word of the operation is a destructive verb: it is the
\* prefix's, when a prefix was left in place and no dot separates it.
IsDestructiveVerb(name) == name.op \in DestructiveVerbs /\ (name.prefix = Empty \/ name.tool # Empty)

inferAction(name, httpMethod) ==
    IF IsDestructiveVerb(name) \/ httpMethod = "DELETE" THEN "delete"
    ELSE CASE httpMethod \in {"GET", "HEAD"} -> "read"
           [] httpMethod = "POST" -> "create"
           [] httpMethod \in {"PUT", "PATCH"} -> "update"
           [] OTHER -> IF name.tool = Empty THEN "call" ELSE name.op

resourceKeys == <<"repo", "repository", "table", "database", "resource", "name">>

\* The least of some indices.
First(indices) == CHOOSE i \in indices : \A j \in indices : i <= j

\* The text of an argument; there is none of a list, an object or null.
stringify(args, key) == lookupFolded(args, key) \ Structured

\* The first of the keys that has a text, "" when none has.
firstString(args, keys) ==
    LET present == {i \in DOMAIN keys : stringify(args, keys[i]) # {}}
    IN  IF present = {} THEN Empty ELSE CHOOSE v \in stringify(args, keys[First(present)]) : TRUE

inferEnvironment(value) == IF value \in DOMAIN EnvOf THEN EnvOf[value] ELSE "unknown"

normalizeEnvironment(value) ==
    IF inferEnvironment(value) # "unknown" THEN inferEnvironment(value) ELSE value

\* "production" when any candidate says so, else the first that is known.
resolveEnvironment(candidates) ==
    LET known == {i \in DOMAIN candidates : candidates[i] \notin {Empty, "unknown"}}
    IN  CASE known = {} -> "unknown"
          [] \E i \in known : candidates[i] = "production" -> "production"
          [] OTHER -> candidates[First(known)]

\* Mutant: only the resource that names the call is looked at.
environmentCandidatesOne(args, target) ==
    <<normalizeEnvironment(target.environment), inferEnvironment(firstString(args, resourceKeys)),
      inferEnvironment(target.name), normalizeEnvironment(firstString(args, <<"environment", "env">>))>>

\* The operator's metadata, every argument that names a resource, the target,
\* and the environment that the arguments claim.
environmentCandidates(args, target) ==
    <<normalizeEnvironment(target.environment)>>
    \o [i \in DOMAIN resourceKeys |-> inferEnvironment(firstString(args, <<resourceKeys[i]>>))]
    \o <<inferEnvironment(target.name), normalizeEnvironment(firstString(args, <<"environment", "env">>))>>

\* The tool of a name, with the prefix that was left in place.
splitToolName(name) ==
    LET tool == IF name.tool = Empty THEN name.op ELSE name.tool
    IN  IF name.prefix = Empty THEN tool ELSE name.prefix \o "__" \o tool

\* What the policy is told; the first of action and operation in the arguments can
\* only make a call destructive.
BuildToolRequest(name, args, target, httpMethod, role) ==
    [role |-> role, tool |-> splitToolName(name), target |-> target.name,
     action |-> IF firstString(args, <<"action", "operation">>) \in DestructiveVerbs
                THEN "delete" ELSE inferAction(name, httpMethod),
     resource |-> firstString(args, resourceKeys),
     environment |-> resolveEnvironment(environmentCandidates(args, target)),
     args |-> args]

-----------------------------------------------------------------------------
(* The policy.  A rule is [match, arg]: the fields that its match names,   *)
(* and at most one <<name, value>> that its expression asks of args.       *)

Matches(rule, req) == \A field \in DOMAIN rule.match : req[field] = rule.match[field]

\* The argument that an expression reads, by exact name before folded name.
foldedMap(args, name) == IF Get(args, name) # {} THEN Get(args, name) ELSE GetFolded(args, name)

\* What the rule's expression evaluates to: a missing argument is an error.
RuleResult(rule, req) ==
    IF ~Matches(rule, req) THEN "false"
    ELSE IF rule.arg = <<>> THEN "true"
    ELSE IF foldedMap(req.args, rule.arg[1]) = {} THEN "error"
    ELSE IF foldedMap(req.args, rule.arg[1]) = {rule.arg[2]} THEN "true" ELSE "false"

\* A rule that matches, or fails, denies.
Evaluate(rules, req) == \A r \in {req} : \A i \in DOMAIN rules : RuleResult(rules[i], r) = "false"
=============================================================================
