---------------------------- MODULE ChatPipeline ----------------------------
(***************************************************************************)
(* The request pipeline of internal/gateway: ChatCompletions with its      *)
(* streaming half, Embeddings and Rerank, and Moderations.  A request runs *)
(*                                                                         *)
(*   new -> input -> cache -> [recheck] -> call -> judge -> finish -> done *)
(*                                          ^        |                     *)
(*                                          +--retry-+                     *)
(*                                                                         *)
(* with one step wherever it reads or writes what requests share: the      *)
(* guardrail engine (an atomic pointer that a reload swaps), the settings  *)
(* (a snapshot taken once), the response cache, the log and the spend.     *)
(***************************************************************************)
EXTENDS Guardrails, FiniteSets, FiniteSetsExt

CONSTANTS
    Requests,
    Keys,
    Workspace, Organization,    \* of each API key
    Asks,               \* request -> what it may ask: [kind, key, prompt, hint]
    Answers,            \* messages that a provider may return
    Escaped,            \* marks that the escapes of a JSON encoding break up
    Model, Shadow,      \* the model asked for, the shadow provider
    Providers,
    Engines,            \* engines a reload may install, <<>> for none
    Settings,           \* [buffer, cache, scope, shadow] snapshots
    ShadowSlots,        \* cap(h.shadowSlots)
    MaxReloads,         \* bound: reloads in a behaviour
    Fallible            \* bound: request -> the writes of its logRequest that may fail

\* Something to embed, or the query or a document to rerank: the marks of the
\* string, or of an object's text (else content) member, and those of its other
\* members; encoded says that it is an object with neither, or a list.
Document(text, rest, encoded) == [text |-> text, rest |-> rest, encoded |-> encoded]

Documents == [text : SUBSET STRING, rest : SUBSET STRING, encoded : BOOLEAN]

Kinds == {"chat", "stream", "embed", "rerank", "moderate"}

\* The endpoints without cache, output guardrails and shadow copy.
Plain(kind) == kind \in {"embed", "rerank"}

ASSUME PipelineAssumption ==
    /\ Workspace \in [Keys -> STRING] /\ Organization \in [Keys -> STRING]
    /\ \A r \in Requests : Asks[r] # {} /\ \A a \in Asks[r] : a.kind \in Kinds /\ a.key \in Keys
    /\ Answers \subseteq Messages
    /\ \A r \in Requests : \A a \in Asks[r] : \A i \in DOMAIN a.prompt :
          a.prompt[i] \in IF Plain(a.kind) THEN Documents ELSE Messages
    /\ ShadowSlots \in Nat /\ MaxReloads \in Nat /\ Fallible \in [Requests -> SUBSET {"log", "spend"}]
    /\ Settings \subseteq [buffer : BOOLEAN, cache : BOOLEAN, shadow : BOOLEAN,
                           scope : {"global", "organization", "workspace", "api_key"}]

\* Engines are lists of checks, none of which fires on the text that replaces a
\* redacted one (redactedContent).
ASSUME EnginesAssumption ==
    \A e \in Engines :
        /\ Len(e) \in Nat /\ DOMAIN e = 1..Len(e)
        /\ \A i \in DOMAIN e : /\ e[i].kind \in {"builtin", "rule", "tool", "webhook", "judge"}
                                /\ e[i].needs # {}

VARIABLES
    engine,     \* h.guardrails
    settings,   \* h.settings
    req,        \* request -> its locals
    cache,      \* semantic_cache
    log,        \* request_logs: request -> its rows
    spend,      \* api_keys.spend
    shadows,    \* requests whose shadow call holds a slot
    reloads,
    sent,       \* history: what left the gateway
    billed,     \* history: what providers charged for the request
    failed,     \* history: the writes of logRequest that failed
    out         \* history: what the client got

vars == <<engine, settings, req, cache, log, spend, shadows, reloads, sent, billed, failed, out>>

Pcs == {"new", "input", "cache", "recheck", "call", "judge", "finish", "done"}

NoMessage == Message({}, {})

NoOut == [status |-> "none", answer |-> NoMessage, judge |-> <<>>, checked |-> FALSE,
          from |-> "none", by |-> Unset]

\* The most attempts that any check's max_retries asks for; one retry is the default.
MaxAttempts ==
    Max({2} \cup UNION {{1 + e[i].retries : i \in DOMAIN e} : e \in Engines})

TypeOK ==
    /\ engine \in Engines /\ settings \in Settings
    /\ \A r \in Requests :
          /\ req[r].pc \in Pcs /\ req[r].kind \in Kinds /\ req[r].key \in Keys
          /\ req[r].attempt < req[r].max /\ req[r].max <= MaxAttempts
          /\ Len(log[r]) <= 1 /\ failed[r] \subseteq Fallible[r]
    /\ shadows \subseteq Requests
    /\ reloads \in 0..MaxReloads
    /\ \A k \in Keys : spend[k] \in Nat

Unstarted ==
    [pc |-> "new", kind |-> "chat", key |-> CHOOSE k \in Keys : TRUE,
     messages |-> <<>>, hint |-> Unset, model |-> Model, cfg |-> settings, redacted |-> FALSE,
     buffer |-> FALSE, attempt |-> 0, max |-> 1, disp |-> NoDisposition,
     answer |-> NoMessage, provider |-> Unset, cost |-> 0, judge |-> <<>>, cacheKey |-> <<>>]

Init ==
    /\ engine \in Engines /\ settings \in Settings
    /\ req = [r \in Requests |-> Unstarted]
    /\ cache = {}
    /\ log = [r \in Requests |-> <<>>]
    /\ spend = [k \in Keys |-> 0]
    /\ shadows = {} /\ reloads = 0
    /\ sent = {}
    /\ billed = [r \in Requests |-> 0]
    /\ failed = [r \in Requests |-> {}]
    /\ out = [r \in Requests |-> NoOut]

-----------------------------------------------------------------------------
(* Steps that end a request.                                               *)

\* Nothing but its key and its settings outlives a handler.
Ended(r) == [Unstarted EXCEPT !.pc = "done", !.key = req[r].key, !.cfg = req[r].cfg]

\* Mutant: the totals are those of the last attempt.
lastCost(r, cost) == cost

\* attemptTotals.add: the totals cover every attempt of the request.
addCost(r, cost) == req[r].cost + cost

\* logRequest: one row, and the key is charged for what was not cached.  Either
\* write may fail, which nothing but the process's own log tells.
logRequest(r, status, cost, cached) ==
    LET charges == ~cached /\ req[r].key # Unset /\ cost > 0
        row == [status |-> status, cost |-> cost, cached |-> cached]
    IN  \E lost \in SUBSET (IF charges THEN Fallible[r] ELSE Fallible[r] \ {"spend"}) :
            /\ log' = IF "log" \in lost THEN log ELSE [log EXCEPT ![r] = Append(@, row)]
            /\ spend' = IF charges /\ "spend" \notin lost
                        THEN [spend EXCEPT ![req[r].key] = @ + cost] ELSE spend
            /\ failed' = [failed EXCEPT ![r] = lost]

\* The request ends without an answer for the client.
Reject(r, status, cost, cached) ==
    /\ req' = [req EXCEPT ![r] = Ended(r)]
    /\ logRequest(r, status, cost, cached)
    /\ out' = [out EXCEPT ![r].status = IF @ = "partial" THEN @ ELSE status]

EndUnlogged(r, status) ==
    /\ req' = [req EXCEPT ![r] = Ended(r)]
    /\ out' = [out EXCEPT ![r].status = status]
    /\ UNCHANGED <<log, spend, failed>>

-----------------------------------------------------------------------------
(* Entry, budget and input guardrails.                                     *)

\* Decoding, the model check, the route's transformation and the budget: the
\* request goes on with a snapshot of the settings, is refused before anything
\* is logged, or is refused by the budget, which only the chat endpoint logs.
Enter(r) ==
    /\ req[r].pc = "new"
    /\ \E ask \in Asks[r] :
          req' = [req EXCEPT ![r] = [Unstarted EXCEPT !.pc = "input", !.kind = ask.kind,
                       !.key = ask.key, !.messages = ask.prompt, !.hint = ask.hint]]
    /\ UNCHANGED <<engine, settings, cache, log, spend, shadows, reloads, sent, billed, failed, out>>

Refuse(r) ==
    /\ req[r].pc = "new"
    /\ EndUnlogged(r, "refused")
    /\ UNCHANGED <<engine, settings, cache, shadows, reloads, sent, billed>>

BudgetRejects(r) ==
    /\ req[r].pc = "input" /\ req[r].kind # "moderate"
    /\ IF Plain(req[r].kind) THEN EndUnlogged(r, "denied") ELSE Reject(r, "denied", 0, FALSE)
    /\ UNCHANGED <<engine, settings, cache, shadows, reloads, sent, billed>>

\* The request after the input results: redacted messages, and the hint and
\* model of the first reroute and the first fallback.
AfterInput(r, results, down) ==
    LET redacts == HasAction(results, "redact")
        reroute == FirstReroute(results)
        fallback == FirstFallback(results)
        hint == IF reroute.provider # Unset THEN reroute.provider ELSE req[r].hint
    IN  [req[r] EXCEPT
            !.pc = "cache", !.judge = engine, !.redacted = redacts,
            !.messages = IF redacts THEN redactInputMessages(engine, req[r].messages, down)
                         ELSE req[r].messages,
            !.hint = IF fallback.provider # Unset THEN fallback.provider ELSE hint,
            !.model = IF fallback.model # Unset THEN fallback.model ELSE req[r].model]

\* Input guardrails of a chat request.
ChatInput(r) ==
    /\ req[r].pc = "input" /\ req[r].kind \in {"chat", "stream"}
    /\ \E down \in Outages(engine) :
          LET results == EvaluateInput(engine, req[r].messages, down)
          IN  IF HasAction(results, "deny") THEN Reject(r, "denied", 0, FALSE)
              ELSE /\ req' = [req EXCEPT ![r] = AfterInput(r, results, down)]
                   /\ UNCHANGED <<log, spend, failed, out>>
    /\ UNCHANGED <<engine, settings, cache, shadows, reloads, sent, billed>>

Encoded(marks) == marks \ Escaped

\* The text to judge: the JSON encoding of the whole input to embed, ...
embeddingText(inputs) ==
    Message(Encoded(UNION {inputs[i].text \cup inputs[i].rest : i \in DOMAIN inputs}), {})

\* ... or, of a document, one member if it has it, and its JSON encoding if not.
rerankDocumentText(d) == IF d.encoded THEN Encoded(d.text \cup d.rest) ELSE d.text

rerankGuardrailText(documents) ==
    Message(UNION {rerankDocumentText(documents[i]) : i \in DOMAIN documents}, {})

\* The messages that the input guardrails are given of a request.
InputMessages(kind, messages) ==
    CASE kind = "embed" -> <<embeddingText(messages)>>
      [] kind = "rerank" -> <<rerankGuardrailText(messages)>>
      [] OTHER -> messages

\* Of the input results only a denial counts.
DenyOnly(r) ==
    /\ req[r].pc = "input"
    /\ \E down \in Outages(engine) :
          IF HasAction(EvaluateInput(engine, InputMessages(req[r].kind, req[r].messages), down), "deny")
          THEN Reject(r, "denied", 0, FALSE)
          ELSE /\ req' = [req EXCEPT ![r].pc = "call", ![r].judge = engine]
               /\ UNCHANGED <<log, spend, failed, out>>
    /\ UNCHANGED <<engine, settings, cache, shadows, reloads, sent, billed>>

Embeddings(r) == req[r].kind = "embed" /\ DenyOnly(r)

Rerank(r) == req[r].kind = "rerank" /\ DenyOnly(r)

\* Moderations: the text is judged here and sent nowhere.
Moderate(r) ==
    /\ req[r].pc = "input" /\ req[r].kind = "moderate"
    /\ \E down \in Outages(engine) :
          EndUnlogged(r, IF Triggered(EvaluateInput(engine, req[r].messages, down))
                         THEN "flagged" ELSE "ok")
    /\ UNCHANGED <<engine, settings, cache, shadows, reloads, sent, billed>>

-----------------------------------------------------------------------------
(* The response cache.                                                     *)

Scope(of, name) == [of |-> of, name |-> name]

\* Mutant: keys without a workspace share one.
tenantCacheScopeOpen(key, scope) ==
    CASE scope = "global" -> Scope("global", Unset)
      [] scope = "organization" /\ Organization[key] # Unset -> Scope("organization", Organization[key])
      [] scope = "workspace" -> Scope("workspace", Workspace[key])
      [] OTHER -> IF key = Unset THEN Scope("anonymous", Unset) ELSE Scope("api_key", key)

\* The tenant whose requests share answers; without a key the caller is unauthenticated.
tenantCacheScope(key, scope) ==
    CASE scope = "global" -> Scope("global", Unset)
      [] scope = "organization" /\ Organization[key] # Unset -> Scope("organization", Organization[key])
      [] scope = "workspace" /\ Workspace[key] # Unset -> Scope("workspace", Workspace[key])
      [] OTHER -> IF key = Unset THEN Scope("anonymous", Unset) ELSE Scope("api_key", key)

\* KeyWithScope: the scope and everything the request asks.
KeyWithScope(r) ==
    [scope |-> tenantCacheScope(req[r].key, req[r].cfg.scope), provider |-> req[r].hint,
     model |-> req[r].model, messages |-> req[r].messages]

\* semanticCacheScope: everything but the messages.
semanticCacheScope(key) == <<key.scope, key.provider, key.model>>

\* Prompts whose vectors are similar enough: here, those with the same marks.
Similar(m, n) == extractText(m) = extractText(n)

\* An exact entry, or else one of the same scope with a similar prompt.
Hits(key) ==
    LET exact == {e \in cache : e.key = key}
    IN  IF exact # {} THEN exact
        ELSE {e \in cache : /\ semanticCacheScope(e.key) = semanticCacheScope(key)
                            /\ Similar(e.key.messages, key.messages)}

\* cachedResponse: a failed lookup is a miss.  The key is kept for the store.
CacheLookup(r) ==
    LET key == KeyWithScope(r)
    IN  /\ req[r].pc = "cache"
        /\ \/ req' = [req EXCEPT ![r].pc = "call", ![r].cacheKey = key]
           \/ /\ req[r].cfg.cache
              /\ \E e \in Hits(key) :
                    req' = [req EXCEPT ![r].pc = "recheck", ![r].cacheKey = key,
                                       ![r].answer = e.answer, ![r].provider = e.by]
        /\ UNCHANGED <<engine, settings, cache, log, spend, shadows, reloads, sent, billed, failed, out>>

Answered(answer, from, by) ==
    [status |-> "ok", answer |-> answer, judge |-> engine, checked |-> TRUE,
     from |-> from, by |-> by]

\* What the engine makes of an answer.
Judged(disp, answer) == IF disp.redacted THEN Redacted(answer) ELSE answer

\* Mutant: what was fit to be stored is served.
RecheckTrusting(r) ==
    /\ req[r].pc = "recheck"
    /\ req' = [req EXCEPT ![r] = Ended(r)]
    /\ logRequest(r, "ok", 0, TRUE)
    /\ out' = [out EXCEPT ![r] = Answered(req[r].answer, "cache", req[r].provider)]
    /\ UNCHANGED <<engine, settings, cache, shadows, reloads, sent, billed>>

\* The engine in force judges a cached answer again: a denial ends the request,
\* another violation makes the hit a miss.
Recheck(r) ==
    /\ req[r].pc = "recheck"
    /\ \E disp \in outputGuardrailDisposition(engine, req[r].answer) :
              \/ /\ disp.denied
                 /\ Reject(r, "denied", 0, TRUE)
              \/ /\ ~disp.denied /\ violation(disp)
                 /\ req' = [req EXCEPT ![r].pc = "call", ![r].answer = NoMessage]
                 /\ UNCHANGED <<log, spend, failed, out>>
              \/ /\ ~disp.denied /\ ~violation(disp)
                 /\ req' = [req EXCEPT ![r] = Ended(r)]
                 /\ logRequest(r, "ok", 0, TRUE)
                 /\ out' = [out EXCEPT ![r] = Answered(Judged(disp, req[r].answer),
                                                       "cache", req[r].provider)]
    /\ UNCHANGED <<engine, settings, cache, shadows, reloads, sent, billed>>

\* storeCache: under the key of the lookup, whatever a retry asked for.
storeCache(r, answer) ==
    cache' = IF ~req[r].cfg.cache THEN cache
             ELSE {e \in cache : e.key # req[r].cacheKey}
                  \cup {[key |-> req[r].cacheKey, answer |-> answer, by |-> req[r].key]}

\* An entry passes its expiry; PurgeExpiredCache removes it later.
Expire ==
    /\ \E e \in cache : cache' = cache \ {e}
    /\ UNCHANGED <<engine, settings, req, log, spend, shadows, reloads, sent, billed, failed, out>>

-----------------------------------------------------------------------------
(* Provider calls.                                                         *)

Send(r) ==
    sent' = sent \cup {[request |-> r, kind |-> req[r].kind,
                        messages |-> req[r].messages, judge |-> req[r].judge]}

\* bufferOutput is decided once, before the first attempt.
bufferOutput(r) ==
    IF req[r].attempt > 0 THEN req[r].buffer
    ELSE req[r].cfg.buffer /\ engine # <<>>

\* The router finds no provider that answers.
CallFails(r) ==
    /\ req[r].pc = "call"
    /\ Send(r)
    /\ Reject(r, "error", addCost(r, 0), FALSE)
    /\ UNCHANGED <<engine, settings, cache, shadows, reloads, billed>>

\* Execute, or a stream read to its end: the answer is billed.  Without a
\* buffer the client already has it.
CallAnswers(r) ==
    /\ req[r].pc = "call"
    /\ \E p \in Providers, answer \in Answers :
          LET buffer == bufferOutput(r)
              forward == req[r].kind = "stream" /\ ~buffer
          IN  /\ Send(r)
              /\ req' = [req EXCEPT ![r].pc = IF forward \/ Plain(req[r].kind)
                                              THEN "finish" ELSE "judge",
                                    ![r].answer = answer, ![r].provider = p,
                                    ![r].buffer = buffer, ![r].cost = addCost(r, 1)]
              /\ out' = IF ~forward THEN out
                        ELSE [out EXCEPT ![r] = [Answered(answer, "provider", Unset)
                                                 EXCEPT !.checked = FALSE]]
    /\ billed' = [billed EXCEPT ![r] = @ + 1]
    /\ UNCHANGED <<engine, settings, cache, log, spend, failed, shadows, reloads>>

\* A stream breaks off, or its client leaves: what was produced is billed, and
\* nothing that was buffered is replayed.
StreamBreaks(r) ==
    /\ req[r].pc = "call" /\ req[r].kind = "stream"
    /\ Send(r)
    /\ req' = [req EXCEPT ![r] = Ended(r)]
    /\ logRequest(r, "error", addCost(r, 1), FALSE)
    /\ billed' = [billed EXCEPT ![r] = @ + 1]
    /\ out' = [out EXCEPT ![r].status = IF bufferOutput(r) THEN "error" ELSE "partial"]
    /\ UNCHANGED <<engine, settings, cache, shadows, reloads>>

\* What follows from a disposition: deny, ask again while attempts are left, or
\* go on with the answer.
Verdict(r, disp) ==
    IF disp.denied THEN "deny"
    ELSE IF ~violation(disp) THEN "allow"
    ELSE IF req[r].attempt + 1 < retryAttempts(req[r].max, disp) THEN "again" ELSE "deny"

\* The output guardrails of a whole or buffered answer, redacted if need be.
Judge(r) ==
    /\ req[r].pc = "judge"
    /\ \E disp \in outputGuardrailDisposition(engine, req[r].answer) :
          LET next == applyRetryTarget(disp, req[r].hint, req[r].model)
              answer == Judged(disp, req[r].answer)
          IN  \/ /\ Verdict(r, disp) = "again"
                 /\ req' = [req EXCEPT ![r].pc = "call", ![r].attempt = @ + 1,
                                       ![r].max = retryAttempts(@, disp),
                                       ![r].hint = next.hint, ![r].model = next.model]
                 /\ UNCHANGED <<log, spend, failed, out>>
              \/ /\ Verdict(r, disp) = "deny"
                 /\ Reject(r, "denied", req[r].cost, FALSE)
              \/ /\ Verdict(r, disp) = "allow"
                 /\ req' = [req EXCEPT ![r].pc = "finish", ![r].disp = disp,
                                       ![r].answer = answer]
                 /\ out' = [out EXCEPT ![r] = Answered(answer, "provider", Unset)]
                 /\ UNCHANGED <<log, spend, failed>>
    /\ UNCHANGED <<engine, settings, cache, shadows, reloads, sent, billed>>

\* shadow: a copy of the request for the shadow provider, while slots are free.
shadow(r) ==
    IF /\ req[r].cfg.shadow /\ req[r].provider # Shadow
       /\ Cardinality(shadows) < ShadowSlots
    THEN shadows' = shadows \cup {r} /\ Send(r)
    ELSE UNCHANGED <<shadows, sent>>

\* The answer is stored and logged, the shadow call started, the client answered.
Finish(r) ==
    /\ req[r].pc = "finish"
    /\ req' = [req EXCEPT ![r] = Ended(r)]
    /\ logRequest(r, IF req[r].redacted \/ req[r].disp.redacted THEN "redacted" ELSE "ok",
                  req[r].cost, FALSE)
    /\ IF Plain(req[r].kind)
       THEN /\ out' = [out EXCEPT ![r].status = "ok"]
            /\ UNCHANGED <<cache, shadows, sent>>
       ELSE /\ storeCache(r, req[r].answer)
            /\ shadow(r)
            /\ UNCHANGED out
    /\ UNCHANGED <<engine, settings, reloads, billed>>

\* The shadow call ended and its row is written.
ShadowDone(r) ==
    /\ r \in shadows
    /\ shadows' = shadows \ {r}
    /\ UNCHANGED <<engine, settings, req, cache, log, spend, reloads, sent, billed, failed, out>>

-----------------------------------------------------------------------------
(* A configuration reload swaps the engine and the settings one after the  *)
(* other.                                                                  *)

SetGuardrails ==
    /\ reloads < MaxReloads /\ reloads' = reloads + 1
    /\ engine' \in Engines \ {engine}
    /\ UNCHANGED <<settings, req, cache, log, spend, shadows, sent, billed, failed, out>>

updateSettings ==
    /\ reloads < MaxReloads /\ reloads' = reloads + 1
    /\ settings' \in Settings \ {settings}
    /\ UNCHANGED <<engine, req, cache, log, spend, shadows, sent, billed, failed, out>>

Step(r) ==
    \/ BudgetRejects(r) \/ ChatInput(r) \/ Embeddings(r) \/ Rerank(r) \/ Moderate(r)
    \/ CacheLookup(r) \/ Recheck(r)
    \/ CallFails(r) \/ CallAnswers(r) \/ StreamBreaks(r) \/ Judge(r) \/ Finish(r)

Next ==
    \/ \E r \in Requests : Enter(r) \/ Refuse(r) \/ Step(r) \/ ShadowDone(r)
    \/ Expire \/ SetGuardrails \/ updateSettings

Spec == Init /\ [][Next]_vars

-----------------------------------------------------------------------------
(* Properties.                                                             *)

\* An answer that fires no check of the engine; "redact" cannot take back a tool
\* call, so tool rules are held to their other actions.
OutputClean(judge, answer) ==
    \A c \in Enforced(judge, "output") :
        (c.kind = "tool" /\ c.action = "redact") \/ ~Fires(c, answer)

\* No answer that the client got whole, replayed from the buffer or from the
\* cache fires a check of the engine that judged it last, whatever was
\* reloaded since it was produced or stored.
NoViolatingOutput ==
    \A r \in Requests : out[r].status = "ok" /\ out[r].checked => OutputClean(out[r].judge, out[r].answer)

\* What the handler reads of the messages fires no deny check of the engine and,
\* in a chat request, no message fires a redact check.
InputClean(judge, kind, messages) ==
    \A c \in Enforced(judge, "input") :
        /\ c.action = "deny" =>
              (c.kind = "tool" \/ ~Fires(c, extractText(InputMessages(kind, messages))))
        /\ c.action = "redact" /\ c.kind # "tool" /\ kind \in {"chat", "stream"} =>
              \A i \in DOMAIN messages : ~Fires(c, messages[i])

\* What reached a provider, on the first attempt, on any retry and in the shadow
\* copy, passed the engine that judged the request: chat messages as they were
\* sent, the redacted ones included; of embeddings and rerank, the text that the
\* handler reads of them (the rest is WholeInputJudged).
InputJudged == \A s \in sent : InputClean(s.judge, s.kind, s.messages)

\* Whatever a provider billed is in the one log row of the request, unless writing
\* it failed: denied, broken and retried requests included, cached ones never.
LoggedOnce ==
    \A r \in Requests :
        req[r].pc = "done" /\ billed[r] > 0 =>
            IF "log" \in failed[r] THEN log[r] = <<>>
            ELSE Len(log[r]) = 1 /\ log[r][1].cost = billed[r] /\ ~log[r][1].cached

\* The requests of the key that ended and whose charge was written.
ChargedTo(k) == {r \in Requests : req[r].pc = "done" /\ req[r].key = k /\ "spend" \notin failed[r]}

\* Whatever a provider billed is charged to the key exactly once and is in the one
\* log row of the request; a write that fails loses its own half and no other.
BilledIsCharged ==
    /\ LoggedOnce
    /\ \A k \in Keys \ {Unset} : spend[k] = SumFunctionOnSet(billed, ChargedTo(k))

\* A cached answer was produced for a caller that shares the cache scope of the
\* request's own settings, whatever the scope was when it was stored.
CacheWithinScope ==
    \A r \in Requests :
        out[r].from = "cache" =>
            \/ out[r].by = req[r].key
            \/ req[r].cfg.scope = "global"
            \/ /\ req[r].cfg.scope = "organization" /\ Organization[req[r].key] # Unset
               /\ Organization[out[r].by] = Organization[req[r].key]
            \/ /\ req[r].cfg.scope = "workspace" /\ Workspace[req[r].key] # Unset
               /\ Workspace[out[r].by] = Workspace[req[r].key]

\* The whole text of what was sent.
WholeText(s) ==
    LET whole(m) == IF Plain(s.kind) THEN m.text \cup m.rest ELSE m.text
    IN  Message(UNION {whole(s.messages[i]) : i \in DOMAIN s.messages}, {})

\* Nothing that reached a provider fires a check with the action.
Withheld(action) ==
    \A s \in sent : \A c \in Enforced(s.judge, "input") :
        c.action = action /\ c.kind # "tool" => ~Fires(c, WholeText(s))

\* Redaction is enforced on every request path.  Refuted: Embeddings and Rerank
\* look for denials only.
RedactIsEnforced == Withheld("redact")

\* Everything that reached a provider was judged.  Refuted: Rerank reads one member
\* of a document, Embeddings a JSON encoding, and the provider gets the whole.
WholeInputJudged == Withheld("deny")

\* Every check acts as configured.  Refuted: validAction lets a respelled action
\* pass, which no handler looks for.
ActionsAct == \A i \in DOMAIN engine : engine[i].action \in Actions
=============================================================================
