----------------------------- MODULE McpGateway -----------------------------
(***************************************************************************)
(* The MCP gateway (internal/proxy/handler.go, openapi.go,                 *)
(* openapi_handler.go, token_exchange.go): it parses a message, asks the   *)
(* policy about tool calls, and forwards to named targets, over HTTP with  *)
(* the caller's or an exchanged token, or through the StdioBridge.         *)
(*                                                                         *)
(* A message is [who, session, top, params, args], see ToolPolicy; who is  *)
(* the authenticated caller, [key, role, token], with token = "" for a     *)
(* caller that authenticated with an API key.                              *)
(***************************************************************************)
EXTENDS ToolPolicy, StdioBridge

CONSTANTS
    Batches,            \* what may come in at a time: request -> its message, or NoMessage
    Targets,            \* name -> [name, stdio, rules, environment, tools, forward, exchange]
    targetOrder,        \* names of the targets; the first is the default
    UnsafePath,         \* argument values that no path may contain
    MaxListPages,       \* maxListPages
    Leavers,            \* requests whose client may leave before the answer
    MaxCachedTokens     \* maxCachedTokens

defaultName == targetOrder[1]

\* LoadPolicy and compileRule: a rule without a condition is refused at the start.
Validate(rule) == DOMAIN rule.match # {} \/ rule.arg # <<>>

\* A rule that targets may have, for any tool: the one that comes with the gateway
\* asks for a repository besides.
ProtectProduction == [match |-> [action |-> "delete", environment |-> "production"], arg |-> <<>>]

\* An operation: the placeholders of its path, and the arguments it requires.
buildTool(o) == o.name # Empty /\ o.method \in {"GET", "PUT", "POST", "DELETE", "PATCH"}

parseOpenAPISpec(tools) == \A o, p \in tools : buildTool(o) /\ (o.name = p.name => o = p)

newTarget(target) ==
    /\ \A i \in DOMAIN target.rules : Validate(target.rules[i])
    /\ parseOpenAPISpec(target.tools)

\* A gateway starts only with targets of different names that are all in order.
\* One of them has a bridge here: bridges share nothing.
NewMultiHandler ==
    /\ targetOrder # <<>> /\ \A i, j \in DOMAIN targetOrder : targetOrder[i] = targetOrder[j] => i = j
    /\ DOMAIN Targets = {targetOrder[i] : i \in DOMAIN targetOrder}
    /\ \A n \in DOMAIN Targets : Targets[n].name = n /\ newTarget(Targets[n])
    /\ Cardinality({n \in DOMAIN Targets : Targets[n].stdio}) = 1

ASSUME TargetsAssumption == NewMultiHandler

NoMessage == [who |-> [key |-> Empty, role |-> Empty, token |-> Empty], session |-> Empty, top |-> <<>>, params |-> <<>>, args |-> <<>>]

stdioScope(msg) == <<msg.who.key, msg.session>>

\* What comes in: objects with the members that are modelled, from callers and
\* with ids that the model knows.
IsMessage(msg) ==
    /\ DOMAIN msg = {"who", "session", "top", "params", "args"}
    /\ stdioScope(msg) \in Scopes
    /\ Get(msg.top, "id") \cup Get(msg.params, "requestId") \subseteq ClientIds

ASSUME MessagesAssumption ==
    /\ Nil \notin Threads /\ <<>> \notin Scopes
    /\ \A batch \in Batches, t \in Threads : batch[t] = NoMessage \/ IsMessage(batch[t])

ASSUME LimitsAssumption == MaxListPages \in Nat \ {0} /\ MaxCachedTokens \in Nat \ {0}

VARIABLES
    thread,         \* request -> [pc, msg, target, page]
    tokens,         \* tokenCache.entries: the exchanged tokens that are cached
    reached         \* history: what targets received

gatewayVars == <<thread, tokens, reached>>
vars == <<thread, tokens, reached, closed, proc, procs, startLock, nextID, inflight, call, cancels, gone>>

Fresh(pc) == [pc |-> pc, msg |-> NoMessage, target |-> Empty, page |-> 0]

Init ==
    /\ BridgeInit
    /\ \E batch \in Batches :
          thread = [t \in Threads |-> IF batch[t] = NoMessage THEN Fresh("done")
                                     ELSE [Fresh("new") EXCEPT !.msg = batch[t]]]
    /\ tokens = {} /\ reached = {}

Done(t) == thread' = [thread EXCEPT ![t] = Fresh("done")]

To(t, pc) == thread' = [thread EXCEPT ![t].pc = pc]

Method(msg) == IF Get(msg.top, "method") = {} THEN Empty ELSE CHOOSE m \in Get(msg.top, "method") : TRUE

clientID(msg) == CHOOSE id \in Get(msg.top, "id") : TRUE

-----------------------------------------------------------------------------
(* Tool calls.                                                             *)

ToolName(msg) == CHOOSE n \in Get(msg.params, "name") : TRUE

\* targetForTool: a prefix that names a target selects it and is taken off.
targetForTool(name) ==
    IF name.prefix \in DOMAIN Targets THEN [target |-> name.prefix, name |-> [name EXCEPT !.prefix = Empty]]
    ELSE [target |-> defaultName, name |-> name]

\* The OpenAPI operation of that name, none when the tool is the server's own.
findOpenAPITool(target, name) == {o \in Targets[target].tools : o.name = name.op /\ name.prefix = Empty /\ name.tool = Empty}

httpMethod(target, name) ==
    IF findOpenAPITool(target, name) = {} THEN Empty
    ELSE (CHOOSE o \in findOpenAPITool(target, name) : TRUE).method

\* What the policy of the tool's target says of a call.
Allowed(msg) ==
    LET at == targetForTool(ToolName(msg))  target == Targets[at.target] IN
    Evaluate(target.rules, BuildToolRequest(at.name, msg.args, target, httpMethod(at.target, at.name), msg.who.role))

\* The message for the target: the tool's name replaced, everything else as it came.
forwardBody(msg, name) ==
    [msg EXCEPT !.params = [i \in DOMAIN @ |-> IF @[i][1] = Exact("name") THEN <<@[i][1], name>> ELSE @[i]]]

\* A tool call is judged, and denied or forwarded; an error of the policy, a
\* canceled request included, denies.  The row that goes to the audit log in
\* between decides nothing: when it cannot be written the call goes on.
handleToolCall(t, msg) ==
    LET at == targetForTool(ToolName(msg)) IN
    \E canceled \in BOOLEAN :
        LET allowed == Allowed(msg) /\ ~canceled
            pc == IF findOpenAPITool(at.target, at.name) = {} THEN "forward" ELSE "openapi"
        IN  /\ thread' = [thread EXCEPT ![t] =
                  IF allowed THEN [pc |-> pc, msg |-> forwardBody(msg, at.name), target |-> at.target, page |-> 0]
                  ELSE Fresh("done")]
            /\ UNCHANGED call

\* Where an argument of an operation goes; none of the declared ones may be
\* missing when it is required, nor a path value be unsafe or left open.
executeOpenAPICall(o, args) ==
    LET value(p) == Get(args, p) IN
    /\ \A p \in o.required \cup o.path : value(p) # {}
    /\ \A p \in o.path : value(p) \cap UnsafePath = {}

\* The operation's HTTP request, with the operator's headers and no token.
handleOpenAPICall(t) ==
    LET th == thread[t]
        o == CHOOSE x \in findOpenAPITool(th.target, ToolName(th.msg)) : TRUE
    IN  /\ th.pc = "openapi" /\ Done(t)
        /\ reached' = IF executeOpenAPICall(o, th.msg.args)
                      THEN reached \cup {[request |-> t, target |-> th.target, msg |-> th.msg, bearer |-> <<>>, session |-> Empty]}
                      ELSE reached
        /\ UNCHANGED <<tokens, bridgeVars>>

-----------------------------------------------------------------------------
(* Everything that is not a tool call or a listing goes to the default     *)
(* target; the bridge answers some of it by itself.                        *)

Answered == {Empty, "notifications/initialized"}

handlePassthrough(t, msg) ==
    LET stdio == Targets[defaultName].stdio
        id == Get(msg.params, "requestId")
        cancel == Method(msg) = "notifications/cancelled" /\ ~hasID(msg) /\ (id # {} \/ stdio)
    IN  CASE cancel /\ id = {} -> Done(t) /\ UNCHANGED call
          [] cancel /\ id # {} ->
               /\ thread' = [thread EXCEPT ![t] = [pc |-> "cancel", msg |-> msg, target |-> defaultName, page |-> 0]]
               /\ Begin(t, "cancel", stdioScope(msg), CHOOSE i \in id : TRUE)
          [] ~cancel /\ stdio /\ Method(msg) \in Answered -> Done(t) /\ UNCHANGED call
          [] ~cancel /\ stdio /\ Method(msg) = "initialize" /\ hasID(msg) ->
               /\ thread' = [thread EXCEPT ![t] = [pc |-> "bridge", msg |-> msg, target |-> defaultName, page |-> 0]]
               /\ Begin(t, "init", <<>>, Nil)
          [] OTHER ->
               /\ thread' = [thread EXCEPT ![t] = [pc |-> "forward", msg |-> msg, target |-> defaultName, page |-> 0]]
               /\ UNCHANGED call

\* A cancellation that no call of the stdio target answers to is dropped, or
\* goes on to a default target that speaks HTTP.
forwardStdioCancellation(t) ==
    /\ thread[t].pc = "cancel" /\ call[t].pc = "back"
    /\ IF call[t].got = "none" /\ ~Targets[defaultName].stdio THEN To(t, "forward") ELSE Done(t)
    /\ call' = [call EXCEPT ![t] = NoCall]
    /\ UNCHANGED <<tokens, reached, closed, proc, procs, startLock, nextID, inflight, cancels>>

-----------------------------------------------------------------------------
(* Listing: one target after the other, page by page.                      *)

\* What the policy says of listing a target, or an operation of it.
listAllowed(msg, target, tool) ==
    Evaluate(target.rules, [role |-> msg.who.role, tool |-> tool, target |-> target.name, action |-> "list",
                            resource |-> Empty, environment |-> Empty, args |-> <<>>])

\* A notification has no answer, and nothing is asked for.
handleToolList(t, msg) ==
    /\ thread' = [thread EXCEPT ![t] = IF hasID(msg) THEN [pc |-> "list", msg |-> msg, target |-> defaultName, page |-> 0]
                                       ELSE Fresh("done")]
    /\ UNCHANGED call

\* The targets after n in the order.
After(n) ==
    LET i == CHOOSE j \in DOMAIN targetOrder : targetOrder[j] = n
    IN  IF i = Len(targetOrder) THEN {} ELSE {targetOrder[i + 1]}

nextTarget(t) ==
    LET th == thread[t]  after == After(th.target) IN
    thread' = [thread EXCEPT ![t] = IF after = {} THEN Fresh("done")
                                    ELSE [th EXCEPT !.pc = "list", !.target = CHOOSE n \in after : TRUE, !.page = 0]]

\* Mutant: pages are not counted.
pageReadUncounted(t, more) == IF more THEN To(t, "page") ELSE nextTarget(t)

\* After a page: the next one while the cursor moves, up to the limit.
pageRead(t, more) ==
    IF more /\ thread[t].page + 1 < MaxListPages
    THEN thread' = [thread EXCEPT ![t].page = @ + 1, ![t].pc = "page"]
    ELSE nextTarget(t)

\* The target's turn in the listing; a canceled request is refused.
listTarget(t) ==
    LET th == thread[t] IN
    /\ th.pc = "list"
    /\ \E canceled \in BOOLEAN :
          IF listAllowed(th.msg, Targets[th.target], th.target) /\ ~canceled THEN To(t, "page") ELSE nextTarget(t)
    /\ UNCHANGED <<tokens, reached, bridgeVars>>

\* A page is asked for through the bridge, or as any other HTTP request.
listTargetTools(t) ==
    /\ thread[t].pc = "page"
    /\ IF Targets[thread[t].target].stdio THEN To(t, "listed") /\ Begin(t, "call", <<>>, Nil)
       ELSE To(t, "forward") /\ UNCHANGED call
    /\ UNCHANGED <<tokens, reached, closed, proc, procs, startLock, nextID, inflight, cancels>>

stdioPage(t) ==
    /\ thread[t].pc = "listed" /\ call[t].pc = "back"
    /\ \E more \in BOOLEAN : (more => call[t].ok) /\ pageRead(t, more)
    /\ call' = [call EXCEPT ![t] = NoCall]
    /\ UNCHANGED <<tokens, reached, closed, proc, procs, startLock, nextID, inflight, cancels>>

-----------------------------------------------------------------------------
(* Forwarding.                                                             *)

Received(t, bearer) ==
    LET th == thread[t] IN
    [request |-> t, target |-> th.target, msg |-> th.msg, bearer |-> bearer,
     session |-> IF th.target = defaultName THEN th.msg.session ELSE Empty]

\* To a stdio target: a call that waits, or a notification.
forwardToStdio(t) ==
    LET th == thread[t] IN
    /\ th.pc = "forward" /\ Targets[th.target].stdio
    /\ To(t, "bridge")
    /\ IF hasID(th.msg) THEN Begin(t, "call", stdioScope(th.msg), clientID(th.msg))
       ELSE Begin(t, "notify", <<>>, Nil)
    /\ reached' = reached \cup {Received(t, <<>>)}
    /\ UNCHANGED <<tokens, closed, proc, procs, startLock, nextID, inflight, cancels>>

bridgeBack(t) ==
    /\ thread[t].pc = "bridge" /\ call[t].pc = "back"
    /\ Done(t) /\ call' = [call EXCEPT ![t] = NoCall]
    /\ UNCHANGED <<tokens, reached, closed, proc, procs, startLock, nextID, inflight, cancels>>

\* Mutant: callers of one target share its token.
tokenCacheKeyShared(target, subject) == <<target>>

tokenCacheKey(target, subject) == <<target, subject>>

\* The Authorization header: the caller's own bearer token when the target asks
\* for it, replaced by the exchanged one.
bearer(th, exchanged) ==
    IF exchanged # <<>> THEN exchanged
    ELSE IF Targets[th.target].forward /\ th.msg.who.token # Empty THEN <<"own", th.msg.who.token>> ELSE <<>>

\* After an HTTP request, sent or failed: a page is read within callTimeout; a
\* forwarded request gets its headers within it, or fails.
Replied(t, sent) ==
    IF Method(thread[t].msg) = "tools/list" THEN \E more \in BOOLEAN : (more => sent) /\ pageRead(t, more)
    ELSE Done(t) \/ (sent /\ To(t, "relay"))

\* The body is relayed until the target ends it, or the client is gone.
streamTargetResponse(t) ==
    /\ thread[t].pc = "relay" /\ Done(t)
    /\ UNCHANGED <<tokens, reached, bridgeVars>>

\* targetRequest: a caller with a token gets it exchanged, from the cache when
\* it is there.  An expired entry is taken out and exchanged again.
targetRequest(t) ==
    LET th == thread[t]  target == Targets[th.target]
        cached == {e \in tokens : e.key = tokenCacheKey(th.target, th.msg.who.token)}
    IN  /\ th.pc = "forward" /\ ~target.stdio
        /\ IF target.exchange /\ th.msg.who.token # Empty
           THEN \/ /\ \E e \in cached : ~e.expired /\ reached' = reached \cup {Received(t, bearer(th, e.token))}
                   /\ Replied(t, TRUE) /\ UNCHANGED tokens
                \/ /\ \A e \in cached : e.expired
                   /\ To(t, "exchange") /\ tokens' = tokens \ cached /\ UNCHANGED reached
           ELSE /\ Replied(t, TRUE) /\ reached' = reached \cup {Received(t, bearer(th, <<>>))} /\ UNCHANGED tokens
        /\ UNCHANGED bridgeVars

\* tokenCache.put: at the limit expired entries go first, then all.
put(entry) ==
    LET live == {e \in tokens : ~e.expired}
        kept == CASE Cardinality(tokens) < MaxCachedTokens -> tokens
                  [] Cardinality(live) < MaxCachedTokens -> live
                  [] OTHER -> {}
    IN  {e \in kept : e.key # entry.key} \cup {entry}

\* The token endpoint answers for the caller's token, with a lifetime that may
\* be too short to keep, or fails.
exchangeToken(t) ==
    LET th == thread[t]
        token == <<"exchanged", th.target, th.msg.who.token>>
        entry == [key |-> tokenCacheKey(th.target, th.msg.who.token), token |-> token, expired |-> FALSE]
    IN  /\ th.pc = "exchange"
        /\ \/ /\ Replied(t, TRUE) /\ reached' = reached \cup {Received(t, bearer(th, token))}
              /\ \E keep \in BOOLEAN : tokens' = IF keep THEN put(entry) ELSE tokens
           \/ Replied(t, FALSE) /\ UNCHANGED <<tokens, reached>>
        /\ UNCHANGED bridgeVars

tokenExpires ==
    /\ \E e \in tokens : ~e.expired /\ tokens' = (tokens \ {e}) \cup {[e EXCEPT !.expired = TRUE]}
    /\ UNCHANGED <<thread, reached, bridgeVars, gone>>

-----------------------------------------------------------------------------

ServeHTTP(t) ==
    /\ thread[t].pc = "new"
    /\ LET msg == thread[t].msg IN
          CASE ~Parse(msg) -> Done(t) /\ UNCHANGED call
            [] Parse(msg) /\ Method(msg) = "tools/call" -> handleToolCall(t, msg)
            [] Parse(msg) /\ Method(msg) = "tools/list" -> handleToolList(t, msg)
            [] OTHER -> handlePassthrough(t, msg)
    /\ UNCHANGED <<tokens, reached, closed, proc, procs, startLock, nextID, inflight, cancels>>

RequestStep(t) ==
    /\ \/ ServeHTTP(t) \/ handleOpenAPICall(t) \/ forwardStdioCancellation(t) \/ forwardToStdio(t) \/ bridgeBack(t)
       \/ targetRequest(t) \/ exchangeToken(t) \/ streamTargetResponse(t)
       \/ listTarget(t) \/ listTargetTools(t) \/ stdioPage(t)
       \/ BridgeStep(t) /\ UNCHANGED gatewayVars
    /\ UNCHANGED gone

\* A client goes away: it matters where the request waits, now or later.
ClientLeaves(t) ==
    /\ t \in Leavers \ gone /\ thread[t].pc \in {"bridge", "cancel", "listed", "relay"}
    /\ gone' = gone \cup {t}
    /\ UNCHANGED <<gatewayVars, bridgeVars>>

Next ==
    \/ \E t \in Threads : RequestStep(t) \/ ClientLeaves(t)
    \/ ServerStep /\ UNCHANGED <<gatewayVars, gone>>
    \/ tokenExpires

\* Where nothing but the client's leaving is sure to end a wait.
HeldUp(t) == Blocked(t) \/ (thread[t].pc = "relay" /\ t \notin gone)

\* Elsewhere a request computes, or waits under a timeout.  What servers, token
\* endpoints, clients and operators do is never promised.
Spec == Init /\ [][Next]_vars /\ \A t \in Threads : WF_vars(~HeldUp(t) /\ RequestStep(t))

-----------------------------------------------------------------------------
(* Properties.                                                             *)

\* What a server finds under a name: by the exact name, or by any case.
ServerReads(object, name) ==
    {Get(object, name), GetFolded(object, name)}

Read(object, name) == UNION ServerReads(object, name)

\* Whatever a target takes for a tool call, however it reads names, was judged
\* by that target's policy with the values the target reads (Parse, targetForTool,
\* forwardBody, handleToolCall).
JudgedAsRead ==
    \A r \in reached : "tools/call" \in Read(r.msg.top, "method") =>
        /\ \A name \in Read(r.msg.params, "name") :
              Evaluate(Targets[r.target].rules,
                       BuildToolRequest(name, r.msg.args, Targets[r.target], httpMethod(r.target, name), r.msg.who.role))
        /\ \A i \in DOMAIN r.msg.args : lookupFolded(r.msg.args, foldName(r.msg.args[i][1])) = {r.msg.args[i][2]}

\* The texts, numbers and truth values that a target finds under a name.
Scalars(msg, name) == Read(msg.args, name) \ Structured

\* A call that deletes as the policy reads it: its tool says so, or its `action`,
\* or, when that is no scalar, its `operation`.
Deletes(msg) ==
    \/ \E name \in Read(msg.params, "name") : IsDestructiveVerb(name)
    \/ Scalars(msg, "action") \cap DestructiveVerbs # {}
    \/ Scalars(msg, "action") = {} /\ Scalars(msg, "operation") \cap DestructiveVerbs # {}

\* A call that touches production: its target, or any resource that it names.
NamesProduction(msg, target) ==
    \/ target.environment = "production"
    \/ \E i \in DOMAIN resourceKeys : \E v \in Scalars(msg, resourceKeys[i]) : inferEnvironment(v) = "production"

Protected(r) ==
    /\ "tools/call" \in Read(r.msg.top, "method")
    /\ \E i \in DOMAIN Targets[r.target].rules : Targets[r.target].rules[i] = ProtectProduction

\* No tool call that deletes, by its name or by the verb that the gateway takes
\* from its arguments, reaches a target whose policy protects production when
\* the target or any resource named by a scalar is production, whichever other
\* resources stand before it (BuildToolRequest, firstString).
ProductionKept == \A r \in reached : Protected(r) /\ Deletes(r.msg) => ~NamesProduction(r.msg, Targets[r.target])

\* The whole of "arguments can only make a request look more sensitive, never less"
\* (BuildToolRequest): no argument hides a verb or a resource from the policy.
\* It does not hold: a harmless `action` hides a destructive `operation`, and a
\* list hides what it contains.
DecoysHideNothing ==
    \A r \in reached :
        /\ Protected(r)
        /\ (Read(r.msg.args, "action") \cup Read(r.msg.args, "operation")) \cap DestructiveVerbs # {}
        => \A i \in DOMAIN resourceKeys : \A v \in Read(r.msg.args, resourceKeys[i]) : inferEnvironment(v) # "production"

\* A target receives only the token of the caller, or one exchanged for this
\* caller and this target, and only the default target learns the session
\* (targetRequest, exchangeToken).
CredentialsOwn ==
    \A r \in reached :
        /\ r.bearer \in {<<>>, <<"own", r.msg.who.token>>, <<"exchanged", r.target, r.msg.who.token>>}
        /\ r.bearer # <<>> => r.msg.who.token # Empty
        /\ r.session # Empty => r.target = defaultName

\* Every request ends, whatever servers, processes and token endpoints do, unless
\* its client waits for ever at one of the three places where the code sets no
\* deadline: a line that is not a call and that the server does not take, the
\* lock of somebody who is at such a line, or a body that the target does not end
\* (callTimeout, maxListPages, startLock, withHeaderDeadline).
EveryRequestEnds ==
    \A t \in Threads :
        \/ <>(thread[t].pc = "done")
        \/ <>[](HeldUp(t) /\ (call[t].pc = "ensure" => Blocked(startLock)))
=============================================================================
