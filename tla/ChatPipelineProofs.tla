------------------------- MODULE ChatPipelineProofs -------------------------
(***************************************************************************)
(* Proofs about ChatPipeline: what leaves the gateway passed its checks,   *)
(* the cache stays within its scope, what was billed is logged once and    *)
(* charged to its key, and a failed write loses only its own half of that. *)
(***************************************************************************)
EXTENDS ChatPipeline, SumTheorems

-----------------------------------------------------------------------------
(* The inductive invariant.                                                *)

Fields == {"pc", "kind", "key", "messages", "hint", "model", "cfg", "redacted", "buffer", "attempt", "max",
           "disp", "answer", "provider", "cost", "judge", "cacheKey"}

OutFields == {"status", "answer", "judge", "checked", "from", "by"}

\* The points at which the request passed the input guardrails, and those at
\* which it looked the cache up.
PassedInput == {"cache", "recheck", "call", "judge", "finish"}
LookedUp == {"recheck", "call", "judge", "finish"}

\* An answer made for this key may be stored under the scope.
ScopeFits(scope, by) ==
    \/ scope.of = "global"
    \/ scope.of = "organization" /\ scope.name = Organization[by]
    \/ scope.of = "workspace" /\ scope.name = Workspace[by]
    \/ scope.of = "anonymous" /\ by = Unset
    \/ scope.of = "api_key" /\ scope.name = by

\* The key's request may be answered with what was made for the other.
Shares(key, scope, by) ==
    \/ by = key
    \/ scope = "global"
    \/ scope = "organization" /\ Organization[key] # Unset /\ Organization[by] = Organization[key]
    \/ scope = "workspace" /\ Workspace[key] # Unset /\ Workspace[by] = Workspace[key]

\* What a request that ended left in the log.
Recorded(rows, bill, lost) ==
    IF "log" \in lost THEN rows = <<>> ELSE Len(rows) = 1 /\ rows[1].cost = bill /\ ~rows[1].cached

\* A request's locals, what its client got, its rows in the log, its bill and the
\* writes that failed.
RequestOK(q, o, rows, bill, lost) ==
    /\ DOMAIN q = Fields /\ DOMAIN o = OutFields /\ q.pc \in Pcs
    /\ q.pc \notin {"new", "done"} /\ ~Plain(q.kind) => \A i \in DOMAIN q.messages : q.messages[i] \in Messages
    /\ q.answer \in Messages
    /\ q.pc \in PassedInput => InputClean(q.judge, q.kind, q.messages)
    /\ q.pc \in {"cache", "recheck"} => q.kind \in {"chat", "stream"}
    /\ q.pc \in LookedUp /\ ~Plain(q.kind) => q.cacheKey.scope = tenantCacheScope(q.key, q.cfg.scope)
    /\ q.pc = "recheck" => ScopeFits(tenantCacheScope(q.key, q.cfg.scope), q.provider)
    /\ o.from = "cache" => q.pc = "done" /\ Shares(q.key, q.cfg.scope, o.by)
    /\ o.checked => OutputClean(o.judge, o.answer)
    /\ bill \in Nat
    /\ q.pc # "done" => rows = <<>> /\ q.cost = bill
    /\ q.pc \in {"new", "input", "cache", "recheck"} => bill = 0
    /\ q.pc = "done" /\ bill > 0 => Recorded(rows, bill, lost)

Entries ==
    /\ DOMAIN req = Requests /\ DOMAIN out = Requests /\ DOMAIN log = Requests
    /\ DOMAIN billed = Requests /\ DOMAIN failed = Requests

CacheOK == \A e \in cache : ScopeFits(e.key.scope, e.by) /\ e.answer \in Messages

Inv ==
    /\ Entries /\ engine \in Engines /\ CacheOK /\ InputJudged
    /\ \A r \in Requests : RequestOK(req[r], out[r], log[r], billed[r], failed[r])

-----------------------------------------------------------------------------
(* What an evaluation finds.                                               *)

LEMMA FirstIsOne ==
    ASSUME NEW results, NEW T, T \subseteq Nat, T # {} PROVE \E i \in T : FirstOf(results, T) = results[i]
<1>1. \E i \in T : \A j \in T : i <= j
  BY HasLeast
<1>2. Min(T) \in T
  BY <1>1 DEF Min
<1> QED
  BY <1>2 DEF FirstOf

\* A check of the engine's own that fires has its result in the list.
LEMMA FiringIsFound ==
    ASSUME NEW e \in Engines, NEW stage, NEW m, NEW down \in Outages(e), NEW c \in Enforced(e, stage), Fires(c, m),
           NEW results, results = evaluate(e, stage, m, down)
    PROVE  \E i \in DOMAIN results : results[i] = Result(c)
<1>1. PICK j \in DOMAIN e : c = e[j] /\ appliesTo(e[j], stage) /\ ~External(e[j])
  BY DEF Enforced
<1>2. j \notin down
  BY <1>1 DEF Outages
<1>3. results[j] = Result(e[j]) /\ j \in DOMAIN results
  BY <1>1, <1>2 DEF evaluate, checkResult
<1> QED
  BY <1>1, <1>3

\* Which checks can be enforced at all.
LEMMA EnforcedKinds ==
    ASSUME NEW e \in Engines, NEW stage, NEW c \in Enforced(e, stage)
    PROVE  c.kind \in {"builtin", "rule", "tool"} /\ c.needs # {}
<1>1. PICK j \in DOMAIN e : c = e[j] /\ ~External(e[j])
  BY DEF Enforced
<1> QED
  BY <1>1, EnginesAssumption DEF External

\* What fires on less fires on more; nothing fires on a text without marks.
LEMMA FiresMore ==
    ASSUME NEW c, c.kind \in {"builtin", "rule", "tool"}, NEW m, NEW n,
           m.text \subseteq n.text, m.calls \subseteq n.calls, Fires(c, m)
    PROVE  Fires(c, n)
  BY DEF Fires, builtinCheck, ruleMatches, compiledToolRuleMatches

LEMMA FiresOnText ==
    ASSUME NEW c, c.kind \in {"builtin", "rule"}, NEW m PROVE Fires(c, m) <=> c.needs \subseteq m.text
  BY DEF Fires, builtinCheck, ruleMatches

LEMMA RedactedFields ==
    ASSUME NEW m \in Messages PROVE Redacted(m) \in Messages /\ Redacted(m).text = {} /\ Redacted(m).calls = m.calls
  BY DEF Messages, Redacted

-----------------------------------------------------------------------------
(* Output.                                                                 *)

\* What the disposition of an answer lets through.
LEMMA AllowedIsClean ==
    ASSUME NEW e \in Engines, NEW m \in Messages, NEW disp \in outputGuardrailDisposition(e, m),
           ~disp.denied, ~violation(disp)
    PROVE  OutputClean(e, Judged(disp, m)) /\ Judged(disp, m) \in Messages
<1>1. PICK down \in Outages(e) : disp = disposition(evaluate(e, "output", m, down))
  BY DEF outputGuardrailDisposition, EvaluateOutputMessage
<1>2. PICK results : results = evaluate(e, "output", m, down)
  OBVIOUS
<1>3. /\ disp.denied = HasAction(results, "deny") /\ disp.redacted = HasAction(results, "redact")
      /\ disp.retry = HasAction(results, "retry") /\ disp.reroute = FirstReroute(results).provider
      /\ disp.fallback = FirstFallback(results)
  BY <1>1, <1>2 DEF disposition
<1>4. DOMAIN results \subseteq Nat
  BY <1>2, EnginesAssumption DEF evaluate
<1>5. ~\E i \in DOMAIN results : results[i].action = "reroute" /\ results[i].provider # Unset
  <2>1. PICK T : T = {i \in DOMAIN results : results[i].action = "reroute" /\ results[i].provider # Unset}
    OBVIOUS
  <2>2. T # {} => FirstReroute(results).provider # Unset
    BY <1>4, <2>1, FirstIsOne DEF FirstReroute
  <2> QED
    BY <1>3, <2>1, <2>2 DEF violation
<1>6. ~\E i \in DOMAIN results : results[i].action = "fallback" /\ (results[i].provider # Unset \/ results[i].model # Unset)
  <2>1. PICK T : T = {i \in DOMAIN results : results[i].action = "fallback" /\
                                            (results[i].provider # Unset \/ results[i].model # Unset)}
    OBVIOUS
  <2>2. T # {} => FirstFallback(results).action = "fallback"
    BY <1>4, <2>1, FirstIsOne DEF FirstFallback
  <2> QED
    BY <1>3, <2>1, <2>2 DEF violation
<1>7. ASSUME NEW c \in Enforced(e, "output"), Fires(c, m) PROVE c.action = "redact" /\ disp.redacted
  <2>1. PICK i \in DOMAIN results : results[i] = Result(c)
    BY <1>2, <1>7, FiringIsFound
  <2>2. results[i].action = c.action /\ results[i].provider = c.provider /\ results[i].model = c.model
    BY <2>1 DEF Result
  <2>3. c.action # "deny" /\ c.action # "retry"
    BY <1>3, <2>2 DEF HasAction, violation
  <2>4. c.action = "redact"
    BY <1>5, <1>6, <2>2, <2>3 DEF Enforced
  <2> QED
    BY <1>3, <2>2, <2>4 DEF HasAction
<1>8. CASE ~disp.redacted
  <2>1. Judged(disp, m) = m
    BY <1>8 DEF Judged
  <2> QED
    BY <1>7, <1>8, <2>1 DEF OutputClean
<1>9. CASE disp.redacted
  <2>1. PICK n : n = Judged(disp, m)
    OBVIOUS
  <2>2. n \in Messages /\ n.text = {} /\ n.calls = m.calls
    BY <1>9, <2>1, RedactedFields DEF Judged
  <2>3. ASSUME NEW c \in Enforced(e, "output"), Fires(c, n) PROVE c.kind = "tool" /\ c.action = "redact"
    <3>1. c.kind \in {"builtin", "rule", "tool"} /\ c.needs # {}
      BY EnforcedKinds
    <3>2. c.kind = "tool"
      BY <2>2, <2>3, <3>1, FiresOnText
    <3>3. Fires(c, m)
      BY <2>2, <2>3, <3>1, FiresMore
    <3> QED
      BY <1>7, <3>2, <3>3
  <2> QED
    BY <2>1, <2>2, <2>3 DEF OutputClean
<1> QED
  BY <1>8, <1>9

-----------------------------------------------------------------------------
(* Input.                                                                  *)

\* A text that is not denied fires no deny check.
LEMMA NotDenied ==
    ASSUME NEW e \in Engines, NEW messages, NEW down \in Outages(e), NEW action,
           ~HasAction(EvaluateInput(e, messages, down), action), NEW c \in Enforced(e, "input"), c.action = action
    PROVE  ~Fires(c, extractText(messages))
<1> SUFFICES ASSUME Fires(c, extractText(messages)) PROVE FALSE
  OBVIOUS
<1>1. PICK results : results = evaluate(e, "input", extractText(messages), down)
  OBVIOUS
<1>2. PICK i \in DOMAIN results : results[i] = Result(c)
  BY <1>1, FiringIsFound
<1> QED
  BY <1>1, <1>2 DEF HasAction, EvaluateInput, Result

LEMMA TextFields ==
    ASSUME NEW messages
    PROVE  extractText(messages).text = UNION {messages[i].text : i \in DOMAIN messages} /\ extractText(messages).calls = {}
  BY DEF extractText, Message

\* A single message is its own text.
LEMMA SingleText == ASSUME NEW m PROVE extractText(<<m>>).text = m.text
<1>1. PICK s : s = <<m>>
  OBVIOUS
<1>2. DOMAIN s = {1} /\ s[1] = m
  BY <1>1
<1>3. PICK T : T = {s[i].text : i \in DOMAIN s}
  OBVIOUS
<1>4. T = {m.text}
  BY <1>2, <1>3
<1>5. extractText(s).text = UNION T
  BY <1>3, TextFields
<1>6. UNION T = m.text
  BY <1>4
<1> QED
  BY <1>1, <1>5, <1>6

\* Of a chat request the guardrails are given all messages.
LEMMA ChatInputMessages ==
    ASSUME NEW kind \in {"chat", "stream"}, NEW messages PROVE InputMessages(kind, messages) = messages
  BY DEF InputMessages

\* What embeddings and rerank send fires no deny check on the text read of it.
LEMMA PlainIsClean ==
    ASSUME NEW e \in Engines, NEW kind, Plain(kind), NEW messages, NEW down \in Outages(e),
           ~HasAction(EvaluateInput(e, InputMessages(kind, messages), down), "deny")
    PROVE  InputClean(e, kind, messages)
<1>1. PICK read : read = InputMessages(kind, messages)
  OBVIOUS
<1>2. \A c \in Enforced(e, "input") : c.action = "deny" => ~Fires(c, extractText(read))
  BY <1>1, NotDenied
<1> QED
  BY <1>1, <1>2 DEF InputClean, Plain

\* A chat's messages after the input guardrails.
LEMMA RedactedIsClean ==
    ASSUME NEW e \in Engines, NEW kind \in {"chat", "stream"}, NEW messages, NEW down \in Outages(e),
           \A i \in DOMAIN messages : messages[i] \in Messages,
           ~HasAction(EvaluateInput(e, messages, down), "deny")
    PROVE  LET after == IF HasAction(EvaluateInput(e, messages, down), "redact")
                        THEN redactInputMessages(e, messages, down) ELSE messages
           IN  InputClean(e, kind, after) /\ \A i \in DOMAIN after : after[i] \in Messages
<1>1. CASE ~HasAction(EvaluateInput(e, messages, down), "redact")
  <2>1. ASSUME NEW c \in Enforced(e, "input"), c.action = "redact", c.kind # "tool", NEW i \in DOMAIN messages
        PROVE  ~Fires(c, messages[i])
    <3>1. c.kind \in {"builtin", "rule"}
      BY <2>1, EnforcedKinds
    <3>2. ~Fires(c, extractText(messages))
      BY <1>1, <2>1, NotDenied
    <3>3. messages[i].text \subseteq extractText(messages).text
      BY TextFields
    <3> QED
      BY <3>1, <3>2, <3>3, FiresOnText
  <2> QED
    BY <1>1, <2>1, NotDenied, ChatInputMessages DEF InputClean
<1>2. CASE HasAction(EvaluateInput(e, messages, down), "redact")
  <2>1. PICK after : after = redactInputMessages(e, messages, down)
    OBVIOUS
  <2>2. PICK hits : hits = {i \in DOMAIN messages : messageHasText(messages[i]) /\
                              HasAction(EvaluateInput(e, <<messages[i]>>, down), "redact")}
    OBVIOUS
  <2>3. PICK targets : targets = IF hits = {} THEN DOMAIN messages ELSE hits
    OBVIOUS
  <2>4. after = [i \in DOMAIN messages |-> IF i \in targets THEN Redacted(messages[i]) ELSE messages[i]]
    BY <2>1, <2>2, <2>3 DEF redactInputMessages
  <2>5. ASSUME NEW i \in DOMAIN messages
        PROVE  after[i] \in Messages /\ after[i].text \subseteq messages[i].text /\ (i \in targets => after[i].text = {})
    BY <2>4, RedactedFields
  <2>6. extractText(after).text \subseteq extractText(messages).text
    <3>1. DOMAIN after = DOMAIN messages
      BY <2>4
    <3> QED
      BY <2>5, <3>1, TextFields
  <2>7. ASSUME NEW c \in Enforced(e, "input"), c.action = "deny", c.kind # "tool"
        PROVE  ~Fires(c, extractText(after))
    <3>1. c.kind \in {"builtin", "rule"} /\ ~Fires(c, extractText(messages))
      BY <2>7, EnforcedKinds, NotDenied
    <3> QED
      BY <2>6, <3>1, FiresOnText
  <2>8. ASSUME NEW c \in Enforced(e, "input"), c.action = "redact", c.kind # "tool", NEW i \in DOMAIN messages
        PROVE  ~Fires(c, after[i])
    <3>1. c.kind \in {"builtin", "rule"} /\ c.needs # {}
      BY <2>8, EnforcedKinds
    <3>2. CASE i \in targets
      BY <2>5, <3>1, <3>2, FiresOnText
    <3>3. CASE i \notin targets
      <4>1. after[i] = messages[i] /\ i \notin hits
        BY <2>3, <2>4, <3>3
      <4>2. CASE ~messageHasText(messages[i])
        BY <3>1, <4>1, <4>2, FiresOnText DEF messageHasText
      <4>3. CASE messageHasText(messages[i])
        <5>1. ~HasAction(EvaluateInput(e, <<messages[i]>>, down), "redact")
          BY <2>2, <4>1, <4>3
        <5>2. ~Fires(c, extractText(<<messages[i]>>))
          BY <2>8, <5>1, NotDenied
        <5> QED
          BY <3>1, <4>1, <5>2, SingleText, FiresOnText
      <4> QED
        BY <4>2, <4>3
    <3> QED
      BY <3>2, <3>3
  <2>9. InputClean(e, kind, after) /\ \A i \in DOMAIN after : after[i] \in Messages
    BY <2>4, <2>5, <2>7, <2>8, ChatInputMessages DEF InputClean
  <2> QED
    BY <1>2, <2>1, <2>9
<1> QED
  BY <1>1, <1>2

-----------------------------------------------------------------------------
(* Scopes.                                                                 *)

LEMMA FitsShares ==
    ASSUME NEW key, NEW scope, NEW by, ScopeFits(tenantCacheScope(key, scope), by) PROVE Shares(key, scope, by)
  BY DEF ScopeFits, tenantCacheScope, Scope, Shares

LEMMA OwnFits == ASSUME NEW key, NEW scope PROVE ScopeFits(tenantCacheScope(key, scope), key)
  BY DEF ScopeFits, tenantCacheScope, Scope

-----------------------------------------------------------------------------
(* Steps: a request changes nothing of another.                            *)

\* The step touches this request's own entries only.
Only(r) ==
    /\ DOMAIN req' = Requests /\ DOMAIN out' = Requests /\ DOMAIN log' = Requests
    /\ DOMAIN billed' = Requests /\ DOMAIN failed' = Requests
    /\ \A s \in Requests \ {r} : /\ req'[s] = req[s] /\ out'[s] = out[s] /\ log'[s] = log[s]
                                  /\ billed'[s] = billed[s] /\ failed'[s] = failed[s]

LEMMA StepKeeps ==
    ASSUME Inv, NEW r \in Requests, Only(r), engine' \in Engines, CacheOK', InputJudged',
           RequestOK(req'[r], out'[r], log'[r], billed'[r], failed'[r])
    PROVE  Inv'
<1>1. Entries'
  BY DEF Only, Entries
<1>2. ASSUME NEW s \in Requests PROVE RequestOK(req'[s], out'[s], log'[s], billed'[s], failed'[s])
  BY DEF Only, Inv
<1> QED
  BY <1>1, <1>2 DEF Inv

LEMMA UnstartedFields ==
    /\ DOMAIN Unstarted = Fields /\ Unstarted.pc = "new" /\ Unstarted.answer \in Messages /\ Unstarted.cost = 0
<1>1. Unstarted.answer = NoMessage /\ NoMessage \in Messages
  BY DEF Unstarted, NoMessage, Message, Messages
<1> QED
  BY <1>1 DEF Unstarted, Fields

LEMMA EndedFields ==
    ASSUME NEW r
    PROVE  /\ DOMAIN Ended(r) = Fields /\ Ended(r).pc = "done" /\ Ended(r).answer \in Messages
           /\ Ended(r).key = req[r].key /\ Ended(r).cfg = req[r].cfg
<1>1. PICK u : u = Unstarted
  OBVIOUS
<1>2. Ended(r) = [u EXCEPT !.pc = "done", !.key = req[r].key, !.cfg = req[r].cfg]
  BY <1>1 DEF Ended
<1>3. DOMAIN u = Fields /\ u.answer \in Messages
  BY <1>1, UnstartedFields
<1> QED
  BY <1>2, <1>3 DEF Fields

\* A request that ends with a bill must have logged it.
LEMMA EndIsOK ==
    ASSUME NEW r \in Requests, NEW o, NEW rows, NEW bill \in Nat, NEW lost, DOMAIN o = OutFields,
           o.from = "cache" => Shares(req[r].key, req[r].cfg.scope, o.by),
           o.checked => OutputClean(o.judge, o.answer),
           bill > 0 => Recorded(rows, bill, lost)
    PROVE  RequestOK(Ended(r), o, rows, bill, lost)
<1>1. PICK q : q = Ended(r)
  OBVIOUS
<1>2. DOMAIN q = Fields /\ q.pc = "done" /\ q.answer \in Messages /\ q.key = req[r].key /\ q.cfg = req[r].cfg
  BY <1>1, EndedFields
<1>3. RequestOK(q, o, rows, bill, lost)
  BY <1>2 DEF RequestOK, PassedInput, LookedUp, Pcs
<1> QED
  BY <1>1, <1>3

\* Appending to an empty log.
LEMMA OneRow == ASSUME NEW row PROVE Len(Append(<<>>, row)) = 1 /\ Append(<<>>, row)[1] = row
  OBVIOUS

\* The log and the failed writes of the others are as they were.
LogOfOthers(r) ==
    /\ DOMAIN log' = Requests /\ DOMAIN failed' = Requests
    /\ \A s \in Requests \ {r} : log'[s] = log[s] /\ failed'[s] = failed[s]

\* What logRequest writes for a request that has no row yet.
LEMMA LogsOne ==
    ASSUME Inv, NEW r \in Requests, req[r].pc # "done", NEW status, NEW cost, NEW cached, logRequest(r, status, cost, cached)
    PROVE  LogOfOthers(r) /\ (~cached => Recorded(log'[r], cost, failed'[r]))
<1>1. PICK row : row = [status |-> status, cost |-> cost, cached |-> cached]
  OBVIOUS
<1>2. PICK lost : /\ log' = IF "log" \in lost THEN log ELSE [log EXCEPT ![r] = Append(@, row)]
                  /\ failed' = [failed EXCEPT ![r] = lost]
  BY <1>1 DEF logRequest
<1>3. log[r] = <<>> /\ DOMAIN log = Requests /\ DOMAIN failed = Requests
  BY DEF Inv, RequestOK, Entries
<1>4. failed'[r] = lost /\ DOMAIN failed' = Requests /\ \A s \in Requests \ {r} : failed'[s] = failed[s]
  BY <1>2, <1>3
<1>5. CASE "log" \in lost
  BY <1>2, <1>3, <1>4, <1>5 DEF LogOfOthers, Recorded
<1>6. CASE "log" \notin lost
  <2>1. log'[r] = Append(<<>>, row) /\ DOMAIN log' = Requests /\ \A s \in Requests \ {r} : log'[s] = log[s]
    BY <1>2, <1>3, <1>6
  <2>2. Len(log'[r]) = 1 /\ log'[r][1].cost = cost /\ log'[r][1].cached = cached
    BY <1>1, <2>1, OneRow
  <2> QED
    BY <1>4, <1>6, <2>1, <2>2 DEF LogOfOthers, Recorded
<1> QED
  BY <1>5, <1>6

\* A request whose status alone the client learns.
LEMMA StatusOnly ==
    ASSUME Inv, NEW r \in Requests, NEW status, out' = [out EXCEPT ![r].status = status]
    PROVE  /\ DOMAIN out' = Requests /\ \A s \in Requests \ {r} : out'[s] = out[s]
           /\ DOMAIN out'[r] = OutFields /\ out'[r].from = out[r].from /\ out'[r].checked = out[r].checked
           /\ out'[r].judge = out[r].judge /\ out'[r].answer = out[r].answer /\ out'[r].by = out[r].by
<1>1. DOMAIN out = Requests /\ DOMAIN out[r] = OutFields
  BY DEF Inv, RequestOK, Entries
<1>2. out'[r] = [out[r] EXCEPT !.status = status] /\ DOMAIN out' = Requests /\ \A s \in Requests \ {r} : out'[s] = out[s]
  BY <1>1
<1> QED
  BY <1>1, <1>2 DEF OutFields

\* A request that ends with a status, whatever was sent, stored and billed meanwhile.
LEMMA EndsWithStatus ==
    ASSUME Inv, NEW r \in Requests, req[r].pc # "done", NEW status,
           req' = [req EXCEPT ![r] = Ended(r)], out' = [out EXCEPT ![r].status = status],
           LogOfOthers(r), DOMAIN billed' = Requests, \A s \in Requests \ {r} : billed'[s] = billed[s], billed'[r] \in Nat,
           billed'[r] > 0 => Recorded(log'[r], billed'[r], failed'[r]),
           engine' = engine, CacheOK', InputJudged'
    PROVE  Inv'
<1>1. PICK o : o = out'[r]
  OBVIOUS
<1>2. /\ DOMAIN out' = Requests /\ \A s \in Requests \ {r} : out'[s] = out[s]
      /\ DOMAIN o = OutFields /\ o.from = out[r].from /\ o.checked = out[r].checked
      /\ o.judge = out[r].judge /\ o.answer = out[r].answer /\ o.by = out[r].by
  BY <1>1, StatusOnly
<1>3. /\ out[r].from # "cache" /\ (out[r].checked => OutputClean(out[r].judge, out[r].answer))
      /\ DOMAIN req = Requests /\ engine \in Engines
  BY DEF Inv, RequestOK, Entries
<1>4. PICK rows, bill, lost : rows = log'[r] /\ bill = billed'[r] /\ lost = failed'[r]
  OBVIOUS
<1>5. RequestOK(Ended(r), o, rows, bill, lost)
  BY <1>2, <1>3, <1>4, EndIsOK
<1>6. req'[r] = Ended(r) /\ DOMAIN req' = Requests /\ \A s \in Requests \ {r} : req'[s] = req[s]
  BY <1>3
<1>7. Only(r)
  BY <1>2, <1>6 DEF Only, LogOfOthers
<1> QED
  BY <1>1, <1>3, <1>4, <1>5, <1>6, <1>7, StepKeeps

\* A request that goes on: only its own locals change.
LEMMA GoesOn ==
    ASSUME Inv, NEW r \in Requests, NEW q, req' = [req EXCEPT ![r] = q],
           UNCHANGED <<engine, cache, log, sent, billed, failed, out>>, RequestOK(q, out[r], log[r], billed[r], failed[r])
    PROVE  Inv'
<1>1. /\ DOMAIN req = Requests /\ DOMAIN out = Requests /\ DOMAIN log = Requests
      /\ DOMAIN billed = Requests /\ DOMAIN failed = Requests
  BY DEF Inv, Entries
<1>2. Only(r) /\ req'[r] = q
  BY <1>1 DEF Only
<1>3. engine' \in Engines /\ CacheOK' /\ InputJudged'
  BY DEF Inv, CacheOK, InputJudged
<1>4. RequestOK(req'[r], out'[r], log'[r], billed'[r], failed'[r])
  BY <1>2
<1> QED
  BY <1>2, <1>3, <1>4, StepKeeps

\* What sending leaves of the history: the request passed its input guardrails.
LEMMA SendsJudged ==
    ASSUME Inv, NEW r \in Requests, req[r].pc \in PassedInput, Send(r)
    PROVE  InputJudged'
<1>1. PICK m : m = [request |-> r, kind |-> req[r].kind, messages |-> req[r].messages, judge |-> req[r].judge]
  OBVIOUS
<1>2. sent' = sent \cup {m} /\ m.kind = req[r].kind /\ m.messages = req[r].messages /\ m.judge = req[r].judge
  BY <1>1 DEF Send
<1>3. InputClean(req[r].judge, req[r].kind, req[r].messages)
  BY DEF Inv, RequestOK
<1>4. ASSUME NEW s \in sent' PROVE InputClean(s.judge, s.kind, s.messages)
  BY <1>2, <1>3 DEF Inv, InputJudged
<1> QED
  BY <1>4 DEF InputJudged

\* A request refused with a row, before anything was billed.
LEMMA RejectKeeps ==
    ASSUME Inv, NEW r \in Requests, req[r].pc # "done", NEW status, NEW cost, NEW cached,
           Reject(r, status, cost, cached), UNCHANGED <<engine, cache, billed>>, InputJudged',
           billed[r] > 0 => cost = billed[r] /\ ~cached
    PROVE  Inv'
<1>1. LogOfOthers(r) /\ (~cached => Recorded(log'[r], cost, failed'[r]))
  BY LogsOne DEF Reject
<1>2. PICK code : out' = [out EXCEPT ![r].status = code]
  BY DEF Reject
<1>3. req' = [req EXCEPT ![r] = Ended(r)] /\ CacheOK'
  BY DEF Reject, Inv, CacheOK
<1>4. DOMAIN billed' = Requests /\ billed'[r] \in Nat
  BY DEF Inv, Entries, RequestOK
<1> QED
  BY <1>1, <1>2, <1>3, <1>4, EndsWithStatus

LEMMA EndUnloggedKeeps ==
    ASSUME Inv, NEW r \in Requests, req[r].pc \in {"new", "input"}, NEW status, EndUnlogged(r, status),
           UNCHANGED <<engine, cache, sent, billed>>
    PROVE  Inv'
<1>1. req' = [req EXCEPT ![r] = Ended(r)] /\ out' = [out EXCEPT ![r].status = status] /\ UNCHANGED <<log, failed>>
  BY DEF EndUnlogged
<1>2. DOMAIN log = Requests /\ DOMAIN failed = Requests /\ DOMAIN billed = Requests /\ billed[r] = 0
  BY DEF Inv, Entries, RequestOK
<1>3. CacheOK' /\ InputJudged'
  BY DEF Inv, CacheOK, InputJudged
<1>4. /\ LogOfOthers(r)
      /\ DOMAIN billed' = Requests /\ \A s \in Requests \ {r} : billed'[s] = billed[s]
      /\ billed'[r] \in Nat /\ ~(billed'[r] > 0) /\ engine' = engine /\ req[r].pc # "done"
  BY <1>1, <1>2 DEF LogOfOthers
<1> QED
  BY <1>1, <1>3, <1>4, EndsWithStatus

-----------------------------------------------------------------------------
(* One lemma per action.                                                   *)

LEMMA EnterKeeps == ASSUME Inv, NEW r \in Requests, Enter(r) PROVE Inv'
<1>1. PICK ask \in Asks[r] :
          req' = [req EXCEPT ![r] = [Unstarted EXCEPT !.pc = "input", !.kind = ask.kind,
                       !.key = ask.key, !.messages = ask.prompt, !.hint = ask.hint]]
  BY DEF Enter
<1>2. PICK u : u = Unstarted
  OBVIOUS
<1>3. PICK q : q = [u EXCEPT !.pc = "input", !.kind = ask.kind, !.key = ask.key, !.messages = ask.prompt, !.hint = ask.hint]
  OBVIOUS
<1>4. DOMAIN q = Fields /\ q.pc = "input" /\ q.kind = ask.kind /\ q.messages = ask.prompt /\ q.answer \in Messages /\ q.cost = 0
  BY <1>2, <1>3, UnstartedFields DEF Fields
<1>5. ~Plain(ask.kind) => \A i \in DOMAIN ask.prompt : ask.prompt[i] \in Messages
  BY PipelineAssumption
<1>6. req[r].pc = "new" /\ RequestOK(req[r], out[r], log[r], billed[r], failed[r])
  BY DEF Enter, Inv
<1>7. RequestOK(q, out[r], log[r], billed[r], failed[r])
  BY <1>4, <1>5, <1>6 DEF RequestOK, Pcs, PassedInput, LookedUp
<1>8. req' = [req EXCEPT ![r] = q]
  BY <1>1, <1>2, <1>3
<1> QED
  BY <1>7, <1>8, GoesOn DEF Enter

LEMMA RefuseKeeps == ASSUME Inv, NEW r \in Requests, Refuse(r) PROVE Inv'
  BY EndUnloggedKeeps DEF Refuse

LEMMA BudgetKeeps == ASSUME Inv, NEW r \in Requests, BudgetRejects(r) PROVE Inv'
<1>1. req[r].pc = "input" /\ UNCHANGED <<engine, cache, sent, billed>>
  BY DEF BudgetRejects
<1>2. CASE Plain(req[r].kind)
  BY <1>1, <1>2, EndUnloggedKeeps DEF BudgetRejects
<1>3. CASE ~Plain(req[r].kind)
  <2>1. Reject(r, "denied", 0, FALSE) /\ billed[r] = 0 /\ InputJudged'
    BY <1>1, <1>3 DEF BudgetRejects, Inv, RequestOK, InputJudged
  <2> QED
    BY <1>1, <2>1, RejectKeeps
<1> QED
  BY <1>2, <1>3

LEMMA ModerateKeeps == ASSUME Inv, NEW r \in Requests, Moderate(r) PROVE Inv'
  BY EndUnloggedKeeps DEF Moderate

\* The fields of a request that passed the input guardrails.
LEMMA AfterInputFields ==
    ASSUME NEW r, NEW results, NEW down, DOMAIN req[r] = Fields
    PROVE  LET q == AfterInput(r, results, down)
           IN  /\ DOMAIN q = Fields /\ q.pc = "cache" /\ q.judge = engine
               /\ q.messages = IF HasAction(results, "redact")
                               THEN redactInputMessages(engine, req[r].messages, down) ELSE req[r].messages
               /\ q.kind = req[r].kind /\ q.answer = req[r].answer /\ q.cost = req[r].cost
<1>1. PICK after : after = IF HasAction(results, "redact")
                           THEN redactInputMessages(engine, req[r].messages, down) ELSE req[r].messages
  OBVIOUS
<1>2. \E hint, model : AfterInput(r, results, down) =
          [req[r] EXCEPT !.pc = "cache", !.judge = engine, !.redacted = HasAction(results, "redact"),
                         !.messages = after, !.hint = hint, !.model = model]
  BY <1>1 DEF AfterInput
<1> QED
  BY <1>1, <1>2 DEF Fields

LEMMA ChatInputKeeps == ASSUME Inv, NEW r \in Requests, ChatInput(r) PROVE Inv'
<1>1. /\ req[r].pc = "input" /\ req[r].kind \in {"chat", "stream"} /\ UNCHANGED <<engine, cache, sent, billed>>
      /\ engine \in Engines /\ RequestOK(req[r], out[r], log[r], billed[r], failed[r])
  BY DEF ChatInput, Inv
<1>2. PICK down \in Outages(engine) :
          LET results == EvaluateInput(engine, req[r].messages, down)
          IN  IF HasAction(results, "deny") THEN Reject(r, "denied", 0, FALSE)
              ELSE /\ req' = [req EXCEPT ![r] = AfterInput(r, results, down)]
                   /\ UNCHANGED <<log, spend, failed, out>>
  BY DEF ChatInput
<1>3. PICK results : results = EvaluateInput(engine, req[r].messages, down)
  OBVIOUS
<1>4. CASE HasAction(results, "deny")
  <2>1. Reject(r, "denied", 0, FALSE) /\ billed[r] = 0 /\ InputJudged'
    BY <1>1, <1>2, <1>3, <1>4 DEF Inv, RequestOK, InputJudged
  <2> QED
    BY <1>1, <2>1, RejectKeeps
<1>5. CASE ~HasAction(results, "deny")
  <2>1. PICK q : q = AfterInput(r, results, down)
    OBVIOUS
  <2>2. PICK after : after = IF HasAction(results, "redact")
                             THEN redactInputMessages(engine, req[r].messages, down) ELSE req[r].messages
    OBVIOUS
  <2>3. /\ DOMAIN q = Fields /\ q.pc = "cache" /\ q.judge = engine /\ q.messages = after
        /\ q.kind = req[r].kind /\ q.answer = req[r].answer /\ q.cost = req[r].cost
    BY <1>1, <2>1, <2>2, AfterInputFields DEF RequestOK
  <2>4. \A i \in DOMAIN req[r].messages : req[r].messages[i] \in Messages
    BY <1>1 DEF RequestOK, Plain
  <2>5. InputClean(engine, q.kind, after) /\ \A i \in DOMAIN after : after[i] \in Messages
    <3>1. PICK kind \in {"chat", "stream"} : kind = req[r].kind
      BY <1>1
    <3>2. PICK messages : messages = req[r].messages
      OBVIOUS
    <3>3. InputClean(engine, kind, after) /\ \A i \in DOMAIN after : after[i] \in Messages
      BY <1>1, <1>3, <1>5, <2>2, <2>4, <3>2, RedactedIsClean
    <3> QED
      BY <2>3, <3>1, <3>3
  <2>6. RequestOK(q, out[r], log[r], billed[r], failed[r])
    BY <1>1, <2>3, <2>5 DEF RequestOK, Pcs, PassedInput, LookedUp, Plain
  <2>7. req' = [req EXCEPT ![r] = q] /\ UNCHANGED <<log, failed, out>>
    BY <1>2, <1>3, <1>5, <2>1
  <2> QED
    BY <1>1, <2>6, <2>7, GoesOn
<1> QED
  BY <1>4, <1>5

LEMMA DenyOnlyKeeps == ASSUME Inv, NEW r \in Requests, Plain(req[r].kind), DenyOnly(r) PROVE Inv'
<1>1. /\ req[r].pc = "input" /\ UNCHANGED <<engine, cache, sent, billed>>
      /\ engine \in Engines /\ RequestOK(req[r], out[r], log[r], billed[r], failed[r])
  BY DEF DenyOnly, Inv
<1>2. PICK down \in Outages(engine) :
          IF HasAction(EvaluateInput(engine, InputMessages(req[r].kind, req[r].messages), down), "deny")
          THEN Reject(r, "denied", 0, FALSE)
          ELSE /\ req' = [req EXCEPT ![r].pc = "call", ![r].judge = engine]
               /\ UNCHANGED <<log, spend, failed, out>>
  BY DEF DenyOnly
<1>3. CASE HasAction(EvaluateInput(engine, InputMessages(req[r].kind, req[r].messages), down), "deny")
  <2>1. Reject(r, "denied", 0, FALSE) /\ billed[r] = 0 /\ InputJudged'
    BY <1>1, <1>2, <1>3 DEF Inv, RequestOK, InputJudged
  <2> QED
    BY <1>1, <2>1, RejectKeeps
<1>4. CASE ~HasAction(EvaluateInput(engine, InputMessages(req[r].kind, req[r].messages), down), "deny")
  <2>1. PICK q : q = [req[r] EXCEPT !.pc = "call", !.judge = engine]
    OBVIOUS
  <2>2. /\ DOMAIN q = Fields /\ q.pc = "call" /\ q.judge = engine /\ q.messages = req[r].messages
        /\ q.kind = req[r].kind /\ q.answer = req[r].answer /\ q.cost = req[r].cost
    BY <1>1, <2>1 DEF RequestOK, Fields
  <2>3. InputClean(engine, q.kind, q.messages)
    BY <1>1, <1>4, <2>2, PlainIsClean
  <2>4. RequestOK(q, out[r], log[r], billed[r], failed[r])
    BY <1>1, <2>2, <2>3 DEF RequestOK, Pcs, PassedInput, LookedUp
  <2>5. DOMAIN req = Requests
    BY DEF Inv, Entries
  <2>6. req' = [req EXCEPT ![r] = q] /\ UNCHANGED <<log, failed, out>>
    BY <1>2, <1>4, <2>1, <2>5
  <2> QED
    BY <1>1, <2>4, <2>6, GoesOn
<1> QED
  BY <1>3, <1>4

LEMMA CacheLookupKeeps == ASSUME Inv, NEW r \in Requests, CacheLookup(r) PROVE Inv'
<1>1. PICK key : key = KeyWithScope(r)
  OBVIOUS
<1>2. /\ req[r].pc = "cache" /\ UNCHANGED <<engine, cache, log, sent, billed, failed, out>>
      /\ RequestOK(req[r], out[r], log[r], billed[r], failed[r]) /\ DOMAIN req = Requests
  BY DEF CacheLookup, Inv, Entries
<1>3. \/ req' = [req EXCEPT ![r].pc = "call", ![r].cacheKey = key]
      \/ \E e \in Hits(key) : req' = [req EXCEPT ![r].pc = "recheck", ![r].cacheKey = key,
                                                 ![r].answer = e.answer, ![r].provider = e.by]
  BY <1>1 DEF CacheLookup
<1>4. key.scope = tenantCacheScope(req[r].key, req[r].cfg.scope)
  BY <1>1 DEF KeyWithScope
<1>5. CASE req' = [req EXCEPT ![r].pc = "call", ![r].cacheKey = key]
  <2>1. PICK q : q = [req[r] EXCEPT !.pc = "call", !.cacheKey = key]
    OBVIOUS
  <2>2. /\ DOMAIN q = Fields /\ q.pc = "call" /\ q.cacheKey = key /\ q.judge = req[r].judge /\ q.messages = req[r].messages
        /\ q.kind = req[r].kind /\ q.answer = req[r].answer /\ q.cost = req[r].cost
        /\ q.key = req[r].key /\ q.cfg = req[r].cfg
    BY <1>2, <2>1 DEF RequestOK, Fields
  <2>3. RequestOK(q, out[r], log[r], billed[r], failed[r])
    BY <1>2, <1>4, <2>2 DEF RequestOK, Pcs, PassedInput, LookedUp
  <2>4. req' = [req EXCEPT ![r] = q]
    BY <1>2, <1>5, <2>1
  <2> QED
    BY <1>2, <2>3, <2>4, GoesOn
<1>6. ASSUME NEW e \in Hits(key),
             req' = [req EXCEPT ![r].pc = "recheck", ![r].cacheKey = key, ![r].answer = e.answer, ![r].provider = e.by]
      PROVE  Inv'
  <2>1. PICK q : q = [req[r] EXCEPT !.pc = "recheck", !.cacheKey = key, !.answer = e.answer, !.provider = e.by]
    OBVIOUS
  <2>2. /\ DOMAIN q = Fields /\ q.pc = "recheck" /\ q.cacheKey = key /\ q.judge = req[r].judge /\ q.messages = req[r].messages
        /\ q.kind = req[r].kind /\ q.answer = e.answer /\ q.provider = e.by /\ q.cost = req[r].cost
        /\ q.key = req[r].key /\ q.cfg = req[r].cfg
    BY <1>2, <2>1 DEF RequestOK, Fields
  <2>3. e \in cache /\ e.key.scope = key.scope
    BY DEF Hits, semanticCacheScope
  <2>4. ScopeFits(key.scope, e.by) /\ e.answer \in Messages
    BY <2>3 DEF Inv, CacheOK
  <2>5. RequestOK(q, out[r], log[r], billed[r], failed[r])
    BY <1>2, <1>4, <2>2, <2>4 DEF RequestOK, Pcs, PassedInput, LookedUp
  <2>6. req' = [req EXCEPT ![r] = q]
    BY <1>2, <1>6, <2>1
  <2> QED
    BY <1>2, <2>5, <2>6, GoesOn
<1> QED
  BY <1>3, <1>5, <1>6

LEMMA RecheckKeeps == ASSUME Inv, NEW r \in Requests, Recheck(r) PROVE Inv'
<1>1. /\ req[r].pc = "recheck" /\ UNCHANGED <<engine, cache, sent, billed>> /\ engine \in Engines
      /\ RequestOK(req[r], out[r], log[r], billed[r], failed[r]) /\ Entries
  BY DEF Recheck, Inv
<1>2. CacheOK' /\ InputJudged' /\ billed[r] = 0 /\ req[r].answer \in Messages
  BY <1>1 DEF Inv, CacheOK, InputJudged, RequestOK
<1>3. PICK disp \in outputGuardrailDisposition(engine, req[r].answer) :
              \/ /\ disp.denied
                 /\ Reject(r, "denied", 0, TRUE)
              \/ /\ ~disp.denied /\ violation(disp)
                 /\ req' = [req EXCEPT ![r].pc = "call", ![r].answer = NoMessage]
                 /\ UNCHANGED <<log, spend, failed, out>>
              \/ /\ ~disp.denied /\ ~violation(disp)
                 /\ req' = [req EXCEPT ![r] = Ended(r)]
                 /\ logRequest(r, "ok", 0, TRUE)
                 /\ out' = [out EXCEPT ![r] = Answered(Judged(disp, req[r].answer),
                                                       "cache", req[r].provider)]
  BY DEF Recheck
<1>4. CASE Reject(r, "denied", 0, TRUE)
  <2>1. ~(billed[r] > 0) /\ req[r].pc # "done"
    BY <1>1, <1>2
  <2> QED
    BY <1>1, <1>2, <1>4, <2>1, RejectKeeps
<1>5. CASE /\ req' = [req EXCEPT ![r].pc = "call", ![r].answer = NoMessage]
           /\ UNCHANGED <<log, spend, failed, out>>
  <2>1. PICK q : q = [req[r] EXCEPT !.pc = "call", !.answer = NoMessage]
    OBVIOUS
  <2>2. /\ DOMAIN q = Fields /\ q.pc = "call" /\ q.cacheKey = req[r].cacheKey /\ q.judge = req[r].judge
        /\ q.messages = req[r].messages /\ q.kind = req[r].kind /\ q.answer = NoMessage /\ q.cost = req[r].cost
        /\ q.key = req[r].key /\ q.cfg = req[r].cfg
    BY <1>1, <2>1 DEF RequestOK, Fields
  <2>3. NoMessage \in Messages
    BY DEF NoMessage, Message, Messages
  <2>4. RequestOK(q, out[r], log[r], billed[r], failed[r])
    BY <1>1, <2>2, <2>3 DEF RequestOK, Pcs, PassedInput, LookedUp
  <2>5. req' = [req EXCEPT ![r] = q]
    BY <1>1, <1>5, <2>1 DEF Entries
  <2> QED
    BY <1>1, <1>5, <2>4, <2>5, GoesOn
<1>6. CASE /\ ~disp.denied /\ ~violation(disp)
           /\ req' = [req EXCEPT ![r] = Ended(r)]
           /\ logRequest(r, "ok", 0, TRUE)
           /\ out' = [out EXCEPT ![r] = Answered(Judged(disp, req[r].answer), "cache", req[r].provider)]
  <2>1. OutputClean(engine, Judged(disp, req[r].answer))
    BY <1>1, <1>2, <1>6, AllowedIsClean
  <2>2. PICK o : o = Answered(Judged(disp, req[r].answer), "cache", req[r].provider)
    OBVIOUS
  <2>3. /\ DOMAIN o = OutFields /\ o.answer = Judged(disp, req[r].answer) /\ o.judge = engine
        /\ o.from = "cache" /\ o.by = req[r].provider
    BY <2>2 DEF Answered, OutFields
  <2>4. Shares(req[r].key, req[r].cfg.scope, req[r].provider)
    BY <1>1, FitsShares DEF RequestOK
  <2>5. LogOfOthers(r)
    BY <1>1, <1>6, LogsOne
  <2>6. PICK rows, lost : rows = log'[r] /\ lost = failed'[r]
    OBVIOUS
  <2>7. RequestOK(Ended(r), o, rows, billed[r], lost)
    <3>1. billed[r] \in Nat /\ ~(billed[r] > 0)
      BY <1>2
    <3> QED
      BY <2>1, <2>3, <2>4, <3>1, EndIsOK
  <2>8. req'[r] = Ended(r) /\ out'[r] = o /\ billed'[r] = billed[r]
    BY <1>1, <1>6, <2>2 DEF Entries
  <2>9. Only(r)
    BY <1>1, <1>6, <2>5 DEF Only, Entries, LogOfOthers
  <2> QED
    BY <1>1, <1>2, <2>6, <2>7, <2>8, <2>9, StepKeeps
<1> QED
  BY <1>3, <1>4, <1>5, <1>6

LEMMA CallFailsKeeps == ASSUME Inv, NEW r \in Requests, CallFails(r) PROVE Inv'
<1>1. /\ req[r].pc = "call" /\ UNCHANGED <<engine, cache, billed>> /\ Send(r)
      /\ Reject(r, "error", addCost(r, 0), FALSE) /\ RequestOK(req[r], out[r], log[r], billed[r], failed[r])
  BY DEF CallFails, Inv
<1>2. InputJudged'
  BY <1>1, SendsJudged DEF PassedInput
<1>3. addCost(r, 0) = billed[r]
  BY <1>1 DEF RequestOK, addCost
<1> QED
  BY <1>1, <1>2, <1>3, RejectKeeps

LEMMA StreamBreaksKeeps == ASSUME Inv, NEW r \in Requests, StreamBreaks(r) PROVE Inv'
<1>1. /\ req[r].pc = "call" /\ UNCHANGED <<engine, cache>> /\ Send(r) /\ Entries
      /\ req' = [req EXCEPT ![r] = Ended(r)] /\ logRequest(r, "error", addCost(r, 1), FALSE)
      /\ billed' = [billed EXCEPT ![r] = @ + 1] /\ RequestOK(req[r], out[r], log[r], billed[r], failed[r])
  BY DEF StreamBreaks, Inv
<1>2. PICK status : out' = [out EXCEPT ![r].status = status]
  BY DEF StreamBreaks
<1>3. InputJudged' /\ CacheOK'
  BY <1>1, SendsJudged DEF PassedInput, Inv, CacheOK
<1>4. PICK cost : cost = addCost(r, 1)
  OBVIOUS
<1>5. LogOfOthers(r) /\ Recorded(log'[r], cost, failed'[r])
  <2>1. PICK code, cached : code = "error" /\ cached = FALSE
    OBVIOUS
  <2>2. logRequest(r, code, cost, cached) /\ req[r].pc # "done" /\ ~cached
    BY <1>1, <1>4, <2>1
  <2> QED
    BY <2>2, LogsOne
<1>6. /\ DOMAIN billed' = Requests /\ \A s \in Requests \ {r} : billed'[s] = billed[s]
      /\ billed'[r] = cost /\ cost \in Nat
  BY <1>1, <1>4 DEF Entries, RequestOK, addCost
<1>7. billed'[r] \in Nat /\ Recorded(log'[r], billed'[r], failed'[r])
  BY <1>5, <1>6
<1>8. req[r].pc # "done" /\ engine' = engine
  BY <1>1
<1> QED
  BY <1>1, <1>2, <1>3, <1>5, <1>6, <1>7, <1>8, EndsWithStatus

LEMMA CallAnswersKeeps == ASSUME Inv, NEW r \in Requests, CallAnswers(r) PROVE Inv'
<1>1. /\ req[r].pc = "call" /\ UNCHANGED <<engine, cache, log, failed>> /\ Entries /\ Send(r)
      /\ billed' = [billed EXCEPT ![r] = @ + 1] /\ RequestOK(req[r], out[r], log[r], billed[r], failed[r])
  BY DEF CallAnswers, Inv
<1>2. PICK p \in Providers, answer \in Answers :
          LET buffer == bufferOutput(r)
              forward == req[r].kind = "stream" /\ ~buffer
          IN  /\ req' = [req EXCEPT ![r].pc = IF forward \/ Plain(req[r].kind)
                                              THEN "finish" ELSE "judge",
                                    ![r].answer = answer, ![r].provider = p,
                                    ![r].buffer = buffer, ![r].cost = addCost(r, 1)]
              /\ out' = IF ~forward THEN out
                        ELSE [out EXCEPT ![r] = [Answered(answer, "provider", Unset)
                                                 EXCEPT !.checked = FALSE]]
  BY DEF CallAnswers
<1>3. InputJudged' /\ CacheOK' /\ engine' \in Engines /\ answer \in Messages
  BY <1>1, SendsJudged, PipelineAssumption DEF PassedInput, Inv, CacheOK
<1>4. PICK buffer : buffer = bufferOutput(r)
  OBVIOUS
<1>5. PICK pc \in {"finish", "judge"} :
          req' = [req EXCEPT ![r].pc = pc, ![r].answer = answer, ![r].provider = p,
                             ![r].buffer = buffer, ![r].cost = addCost(r, 1)]
  BY <1>2, <1>4
<1>6. PICK q : q = [req[r] EXCEPT !.pc = pc, !.answer = answer, !.provider = p, !.buffer = buffer, !.cost = addCost(r, 1)]
  OBVIOUS
<1>7. /\ DOMAIN q = Fields /\ q.pc = pc /\ q.cacheKey = req[r].cacheKey /\ q.judge = req[r].judge
      /\ q.messages = req[r].messages /\ q.kind = req[r].kind /\ q.answer = answer /\ q.cost = addCost(r, 1)
      /\ q.key = req[r].key /\ q.cfg = req[r].cfg
  BY <1>1, <1>6 DEF RequestOK, Fields
<1>8. req'[r] = q /\ DOMAIN req' = Requests /\ \A s \in Requests \ {r} : req'[s] = req[s]
  BY <1>1, <1>5, <1>6 DEF Entries
<1>9. /\ billed[r] \in Nat /\ addCost(r, 1) = billed[r] + 1 /\ billed'[r] = billed[r] + 1
      /\ DOMAIN billed' = Requests /\ \A s \in Requests \ {r} : billed'[s] = billed[s]
  BY <1>1 DEF RequestOK, addCost, Entries
<1>10. PICK o : o = out'[r]
  OBVIOUS
<1>11. /\ DOMAIN out' = Requests /\ \A s \in Requests \ {r} : out'[s] = out[s]
       /\ DOMAIN o = OutFields /\ o.from # "cache" /\ (o.checked => OutputClean(o.judge, o.answer))
  <2>1. CASE out' = out
    BY <1>1, <1>10, <2>1 DEF RequestOK, Entries
  <2>2. CASE out' = [out EXCEPT ![r] = [Answered(answer, "provider", Unset) EXCEPT !.checked = FALSE]]
    <3>1. PICK a : a = [Answered(answer, "provider", Unset) EXCEPT !.checked = FALSE]
      OBVIOUS
    <3>2. DOMAIN a = OutFields /\ a.from = "provider" /\ ~a.checked
      BY <3>1 DEF Answered, OutFields
    <3>3. o = a /\ DOMAIN out' = Requests /\ \A s \in Requests \ {r} : out'[s] = out[s]
      BY <1>1, <1>10, <2>2, <3>1 DEF Entries
    <3> QED
      BY <3>2, <3>3
  <2> QED
    BY <1>2, <2>1, <2>2
<1>12. PICK bill : bill = billed'[r]
  OBVIOUS
<1>13. RequestOK(q, o, log[r], bill, failed[r])
  BY <1>1, <1>3, <1>7, <1>9, <1>11, <1>12 DEF RequestOK, Pcs, PassedInput, LookedUp
<1>14. Only(r)
  BY <1>1, <1>8, <1>9, <1>11 DEF Only, Entries
<1> QED
  BY <1>1, <1>3, <1>8, <1>10, <1>12, <1>13, <1>14, StepKeeps

LEMMA JudgeKeeps == ASSUME Inv, NEW r \in Requests, Judge(r) PROVE Inv'
<1>1. /\ req[r].pc = "judge" /\ UNCHANGED <<engine, cache, sent, billed>> /\ engine \in Engines /\ Entries
      /\ RequestOK(req[r], out[r], log[r], billed[r], failed[r])
  BY DEF Judge, Inv
<1>2. CacheOK' /\ InputJudged' /\ req[r].answer \in Messages /\ req[r].cost = billed[r]
  BY <1>1 DEF Inv, CacheOK, InputJudged, RequestOK
<1>3. PICK disp \in outputGuardrailDisposition(engine, req[r].answer) :
          LET next == applyRetryTarget(disp, req[r].hint, req[r].model)
              answer == Judged(disp, req[r].answer)
          IN  \/ /\ Verdict(r, disp) = "again"
                 /\ req' = [req EXCEPT ![r].pc = "call", ![r].attempt = @ + 1,
                                       ![r].max = retryAttempts(@, disp),
                                       ![r].hint = next.hint, ![r].model = next.model]
                 /\ UNCHANGED <<log, spend, failed, out>>
              \/ /\ Verdict(r, disp) = "deny"
                 /\ Reject(r, "denied", req[r].cost, FALSE)
              \/ /\ Verdict(r, disp) = "allow"
                 /\ req' = [req EXCEPT ![r].pc = "finish", ![r].disp = disp,
                                       ![r].answer = answer]
                 /\ out' = [out EXCEPT ![r] = Answered(answer, "provider", Unset)]
                 /\ UNCHANGED <<log, spend, failed>>
  BY DEF Judge
<1>4. PICK answer : answer = Judged(disp, req[r].answer)
  OBVIOUS
<1>5. CASE Reject(r, "denied", req[r].cost, FALSE)
  BY <1>1, <1>2, <1>5, RejectKeeps
<1>6. CASE Verdict(r, disp) = "allow" /\ req' = [req EXCEPT ![r].pc = "finish", ![r].disp = disp, ![r].answer = answer]
           /\ out' = [out EXCEPT ![r] = Answered(answer, "provider", Unset)] /\ UNCHANGED <<log, failed>>
  <2>1. ~disp.denied /\ ~violation(disp)
    BY <1>6 DEF Verdict
  <2>2. OutputClean(engine, answer) /\ answer \in Messages
    BY <1>1, <1>2, <1>4, <2>1, AllowedIsClean
  <2>3. PICK o : o = Answered(answer, "provider", Unset)
    OBVIOUS
  <2>4. DOMAIN o = OutFields /\ o.answer = answer /\ o.judge = engine /\ o.from = "provider"
    BY <2>3 DEF Answered, OutFields
  <2>5. PICK q : q = [req[r] EXCEPT !.pc = "finish", !.disp = disp, !.answer = answer]
    OBVIOUS
  <2>6. /\ DOMAIN q = Fields /\ q.pc = "finish" /\ q.cacheKey = req[r].cacheKey /\ q.judge = req[r].judge
        /\ q.messages = req[r].messages /\ q.kind = req[r].kind /\ q.answer = answer /\ q.cost = req[r].cost
        /\ q.key = req[r].key /\ q.cfg = req[r].cfg
    BY <1>1, <2>5 DEF RequestOK, Fields
  <2>7. RequestOK(q, o, log[r], billed[r], failed[r])
    BY <1>1, <2>2, <2>4, <2>6 DEF RequestOK, Pcs, PassedInput, LookedUp
  <2>8. req'[r] = q /\ out'[r] = o /\ log'[r] = log[r] /\ billed'[r] = billed[r] /\ failed'[r] = failed[r]
    BY <1>1, <1>6, <2>3, <2>5 DEF Entries
  <2>9. Only(r)
    BY <1>1, <1>6 DEF Only, Entries
  <2> QED
    BY <1>1, <1>2, <2>7, <2>8, <2>9, StepKeeps
<1>7. CASE Verdict(r, disp) = "again"
  <2>1. PICK next : next = applyRetryTarget(disp, req[r].hint, req[r].model)
    OBVIOUS
  <2>2. req' = [req EXCEPT ![r].pc = "call", ![r].attempt = @ + 1, ![r].max = retryAttempts(@, disp),
                           ![r].hint = next.hint, ![r].model = next.model] /\ UNCHANGED <<log, failed, out>>
    BY <1>3, <1>7, <2>1
  <2>3. PICK q : q = [req[r] EXCEPT !.pc = "call", !.attempt = @ + 1, !.max = retryAttempts(@, disp),
                                    !.hint = next.hint, !.model = next.model]
    OBVIOUS
  <2>4. req' = [req EXCEPT ![r] = q]
    BY <1>1, <2>2, <2>3 DEF Entries, RequestOK, Fields
  <2>5. /\ DOMAIN q = Fields /\ q.pc = "call" /\ q.cacheKey = req[r].cacheKey /\ q.judge = req[r].judge
        /\ q.messages = req[r].messages /\ q.kind = req[r].kind /\ q.answer = req[r].answer /\ q.cost = req[r].cost
        /\ q.key = req[r].key /\ q.cfg = req[r].cfg
    BY <1>1, <2>3 DEF RequestOK, Fields
  <2>6. RequestOK(q, out[r], log[r], billed[r], failed[r])
    BY <1>1, <2>5 DEF RequestOK, Pcs, PassedInput, LookedUp
  <2> QED
    BY <1>1, <2>2, <2>4, <2>6, GoesOn
<1> QED
  BY <1>3, <1>4, <1>5, <1>6, <1>7

LEMMA FinishKeeps == ASSUME Inv, NEW r \in Requests, Finish(r) PROVE Inv'
<1>1. /\ req[r].pc = "finish" /\ UNCHANGED <<engine, billed>> /\ engine \in Engines /\ Entries
      /\ req' = [req EXCEPT ![r] = Ended(r)] /\ RequestOK(req[r], out[r], log[r], billed[r], failed[r])
  BY DEF Finish, Inv
<1>2. PICK status : logRequest(r, status, req[r].cost, FALSE)
  BY DEF Finish
<1>3. LogOfOthers(r) /\ Recorded(log'[r], billed[r], failed'[r])
  <2>1. PICK cached : cached = FALSE
    OBVIOUS
  <2>2. logRequest(r, status, req[r].cost, cached) /\ req[r].pc # "done" /\ req[r].cost = billed[r] /\ ~cached
    BY <1>1, <1>2, <2>1 DEF RequestOK
  <2>3. LogOfOthers(r) /\ Recorded(log'[r], req[r].cost, failed'[r])
    BY <2>2, LogsOne
  <2> QED
    BY <2>2, <2>3
<1>4. CASE Plain(req[r].kind)
  <2>1. out' = [out EXCEPT ![r].status = "ok"] /\ UNCHANGED <<cache, sent>>
    BY <1>4 DEF Finish
  <2>2. CacheOK' /\ InputJudged'
    BY <2>1 DEF Inv, CacheOK, InputJudged
  <2>3. /\ DOMAIN billed' = Requests /\ \A s \in Requests \ {r} : billed'[s] = billed[s]
        /\ billed'[r] = billed[r] /\ billed[r] \in Nat
    BY <1>1 DEF Entries, RequestOK
  <2> QED
    BY <1>1, <1>3, <2>1, <2>2, <2>3, EndsWithStatus
<1>5. CASE ~Plain(req[r].kind)
  <2>1. storeCache(r, req[r].answer) /\ shadow(r) /\ UNCHANGED out
    BY <1>5 DEF Finish
  <2>2. InputJudged'
    <3>1. CASE Send(r)
      BY <1>1, <3>1, SendsJudged DEF PassedInput
    <3>2. CASE UNCHANGED sent
      BY <3>2 DEF Inv, InputJudged
    <3> QED
      BY <2>1, <3>1, <3>2 DEF shadow
  <2>3. CacheOK'
    <3>1. PICK e : e = [key |-> req[r].cacheKey, answer |-> req[r].answer, by |-> req[r].key]
      OBVIOUS
    <3>2. cache' \subseteq cache \cup {e}
      BY <2>1, <3>1 DEF storeCache
    <3>3. ScopeFits(req[r].cacheKey.scope, req[r].key) /\ req[r].answer \in Messages
      BY <1>1, <1>5, OwnFits DEF RequestOK, LookedUp
    <3>4. ScopeFits(e.key.scope, e.by) /\ e.answer \in Messages
      BY <3>1, <3>3
    <3> QED
      BY <3>2, <3>4 DEF Inv, CacheOK
  <2>4. PICK rows, lost : rows = log'[r] /\ lost = failed'[r]
    OBVIOUS
  <2>5. /\ DOMAIN out[r] = OutFields /\ out[r].from # "cache" /\ billed[r] \in Nat
        /\ (out[r].checked => OutputClean(out[r].judge, out[r].answer))
    BY <1>1 DEF RequestOK
  <2>6. RequestOK(Ended(r), out[r], rows, billed[r], lost)
    BY <1>3, <2>4, <2>5, EndIsOK
  <2>7. Only(r) /\ req'[r] = Ended(r)
    BY <1>1, <1>3, <2>1 DEF Only, Entries, LogOfOthers
  <2> QED
    BY <1>1, <2>1, <2>2, <2>3, <2>4, <2>6, <2>7, StepKeeps
<1> QED
  BY <1>4, <1>5

\* A step of no request: what the invariant speaks of can only shrink.
LEMMA QuietKeeps ==
    ASSUME Inv, UNCHANGED <<req, log, sent, billed, failed, out>>, cache' \subseteq cache, engine' \in Engines PROVE Inv'
<1>1. Entries' /\ CacheOK' /\ InputJudged'
  BY DEF Inv, Entries, CacheOK, InputJudged
<1>2. ASSUME NEW r \in Requests PROVE RequestOK(req'[r], out'[r], log'[r], billed'[r], failed'[r])
  BY DEF Inv
<1> QED
  BY <1>1, <1>2 DEF Inv

LEMMA InitIsOK == Init => Inv
<1> SUFFICES ASSUME Init PROVE Inv
  OBVIOUS
<1>1. ASSUME NEW r \in Requests PROVE RequestOK(req[r], out[r], log[r], billed[r], failed[r])
  <2>1. PICK q, o : q = Unstarted /\ o = NoOut
    OBVIOUS
  <2>2. DOMAIN q = Fields /\ q.pc = "new" /\ q.answer \in Messages /\ q.cost = 0
    BY <2>1, UnstartedFields
  <2>3. DOMAIN o = OutFields /\ ~o.checked /\ o.from = "none"
    BY <2>1 DEF NoOut, OutFields
  <2>4. RequestOK(q, o, <<>>, 0, {})
    BY <2>2, <2>3 DEF RequestOK, Pcs, PassedInput, LookedUp
  <2>5. req[r] = q /\ out[r] = o /\ log[r] = <<>> /\ billed[r] = 0 /\ failed[r] = {}
    BY <2>1 DEF Init
  <2> QED
    BY <2>4, <2>5
<1>2. Entries /\ engine \in Engines /\ CacheOK /\ InputJudged
  BY DEF Init, Entries, CacheOK, InputJudged
<1> QED
  BY <1>1, <1>2 DEF Inv

LEMMA NextKeeps == Inv /\ [Next]_vars => Inv'
<1> SUFFICES ASSUME Inv, [Next]_vars PROVE Inv'
  OBVIOUS
<1>1. engine \in Engines
  BY DEF Inv
<1>2. CASE UNCHANGED vars
  BY <1>1, <1>2, QuietKeeps DEF vars
<1>3. ASSUME NEW r \in Requests, Step(r) PROVE Inv'
  <2>1. CASE Embeddings(r) \/ Rerank(r)
    BY <2>1, DenyOnlyKeeps DEF Embeddings, Rerank, Plain
  <2> QED
    BY <1>3, <2>1, BudgetKeeps, ChatInputKeeps, ModerateKeeps, CacheLookupKeeps, RecheckKeeps, CallFailsKeeps,
       CallAnswersKeeps, StreamBreaksKeeps, JudgeKeeps, FinishKeeps DEF Step
<1>4. ASSUME NEW r \in Requests, ShadowDone(r) PROVE Inv'
  BY <1>1, <1>4, QuietKeeps DEF ShadowDone
<1>5. CASE Expire
  BY <1>1, <1>5, QuietKeeps DEF Expire
<1>6. CASE SetGuardrails \/ updateSettings
  BY <1>1, <1>6, QuietKeeps DEF SetGuardrails, updateSettings
<1> QED
  BY <1>2, <1>3, <1>4, <1>5, <1>6, EnterKeeps, RefuseKeeps DEF Next

-----------------------------------------------------------------------------
(* What the keys are charged.                                              *)

\* The finished requests of a key whose charge was written.
DoneOf(q, f, k) == {r \in Requests : q[r].pc = "done" /\ q[r].key = k /\ "spend" \notin f[r]}

\* Each key's spend is the sum of the bills of those.
Charged(q, bills, f, charged) ==
    /\ DOMAIN charged = Keys
    /\ \A k \in Keys \ {Unset} :
          IsFiniteSet(DoneOf(q, f, k)) /\ charged[k] = SumFunctionOnSet(bills, DoneOf(q, f, k))

\* What is billed to one request is no other's.
LEMMA Bills ==
    ASSUME Inv
    PROVE  /\ DOMAIN req = Requests /\ DOMAIN billed = Requests
           /\ \A r \in Requests : billed[r] \in Nat /\ (req[r].pc # "done" => req[r].cost = billed[r])
                                  /\ (req[r].pc \in {"new", "input", "cache", "recheck"} => billed[r] = 0)
  BY DEF Inv, Entries, RequestOK

\* A request that goes on, whatever it is billed, charges nobody yet.
LEMMA GoingOnKeepsCharges ==
    ASSUME Charged(req, billed, failed, spend), spend' = spend,
           \A s \in Requests : /\ req'[s].pc = "done" <=> req[s].pc = "done"
                               /\ req[s].pc = "done" => /\ req'[s].key = req[s].key
                                                        /\ billed'[s] = billed[s] /\ failed'[s] = failed[s]
    PROVE  Charged(req', billed', failed', spend')
<1>1. PICK q, c, f : q = req' /\ c = billed' /\ f = failed'
  OBVIOUS
<1>2. ASSUME NEW k \in Keys \ {Unset}
      PROVE  IsFiniteSet(DoneOf(q, f, k)) /\ spend[k] = SumFunctionOnSet(c, DoneOf(q, f, k))
  <2>1. DoneOf(q, f, k) = DoneOf(req, failed, k) /\ \A s \in DoneOf(req, failed, k) : billed[s] = c[s]
    BY <1>1 DEF DoneOf
  <2>2. PICK D : D = DoneOf(req, failed, k)
    OBVIOUS
  <2>3. IsFiniteSet(D) /\ spend[k] = SumFunctionOnSet(billed, D)
    BY <2>2 DEF Charged
  <2>4. SumFunctionOnSet(billed, D) = SumFunctionOnSet(c, D)
    BY <2>1, <2>2, <2>3, SumAgrees
  <2> QED
    BY <2>1, <2>2, <2>3, <2>4
<1> QED
  BY <1>1, <1>2 DEF Charged

\* One more finished request.
LEMMA OneMore ==
    ASSUME NEW D, IsFiniteSet(D), D \subseteq Requests, NEW r \in Requests, r \notin D,
           NEW c, \A s \in Requests : c[s] \in Nat
    PROVE  IsFiniteSet(D \cup {r}) /\ SumFunctionOnSet(c, D \cup {r}) = SumFunctionOnSet(c, D) + c[r]
<1>1. \A y \in D \cup {r} : c[y] \in Nat
  OBVIOUS
<1>2. SumFunctionOnSet(c, D \cup {r}) = SumFunctionOnSet(c, D) + c[r]
  BY <1>1, SumAdds
<1> QED
  BY <1>2, FS_AddElement

\* A charge is a number.
LEMMA SpendIsNat ==
    ASSUME Inv, Charged(req, billed, failed, spend), NEW k \in Keys \ {Unset} PROVE spend[k] \in Nat
<1>1. PICK D : D = DoneOf(req, failed, k)
  OBVIOUS
<1>2. IsFiniteSet(D) /\ spend[k] = SumFunctionOnSet(billed, D) /\ \A s \in D : billed[s] \in Nat
  BY <1>1, Bills DEF Charged, DoneOf
<1> QED
  BY <1>2, SumTakesOut

\* A request that ends charges its key for its bill, unless that write fails, and
\* nobody else.
LEMMA EndingCharges ==
    ASSUME Inv, Charged(req, billed, failed, spend), NEW r \in Requests, req[r].pc # "done",
           req' = [req EXCEPT ![r] = Ended(r)], billed'[r] \in Nat,
           \A s \in Requests \ {r} : billed'[s] = billed[s] /\ failed'[s] = failed[s], DOMAIN spend' = Keys,
           \A k \in Keys \ {Unset} :
               spend'[k] = IF k = req[r].key /\ "spend" \notin failed'[r] THEN spend[k] + billed'[r] ELSE spend[k]
    PROVE  Charged(req', billed', failed', spend')
<1>1. PICK q, c, d, f : q = req' /\ c = billed' /\ d = spend' /\ f = failed'
  OBVIOUS
<1>2. q[r].pc = "done" /\ q[r].key = req[r].key /\ \A s \in Requests \ {r} : q[s] = req[s] /\ f[s] = failed[s]
  BY <1>1, Bills, EndedFields
<1>3. \A s \in Requests : c[s] \in Nat
  BY <1>1, Bills
<1>4. ASSUME NEW k \in Keys \ {Unset}
      PROVE  IsFiniteSet(DoneOf(q, f, k)) /\ d[k] = SumFunctionOnSet(c, DoneOf(q, f, k))
  <2>1. PICK D : D = DoneOf(req, failed, k)
    OBVIOUS
  <2>2. IsFiniteSet(D) /\ spend[k] = SumFunctionOnSet(billed, D)
    BY <2>1 DEF Charged
  <2>3. r \notin D /\ D \subseteq Requests /\ \A s \in D : billed[s] = c[s]
    BY <1>1, <2>1 DEF DoneOf
  <2>4. SumFunctionOnSet(billed, D) = SumFunctionOnSet(c, D)
    BY <2>2, <2>3, SumAgrees
  <2>5. CASE k = req[r].key /\ "spend" \notin f[r]
    <3>1. DoneOf(q, f, k) = D \cup {r}
      BY <1>2, <2>1, <2>5 DEF DoneOf
    <3>2. IsFiniteSet(D \cup {r}) /\ SumFunctionOnSet(c, D \cup {r}) = SumFunctionOnSet(c, D) + c[r]
      BY <1>3, <2>2, <2>3, OneMore
    <3> QED
      BY <1>1, <2>2, <2>4, <2>5, <3>1, <3>2
  <2>6. CASE ~(k = req[r].key /\ "spend" \notin f[r])
    <3>1. DoneOf(q, f, k) = D
      BY <1>2, <2>1, <2>6 DEF DoneOf
    <3> QED
      BY <1>1, <2>2, <2>4, <2>6, <3>1
  <2> QED
    BY <2>5, <2>6
<1> QED
  BY <1>1, <1>4 DEF Charged

\* logRequest charges the bill of a request that ends, or fails to.
LEMMA LogCharges ==
    ASSUME Inv, Charged(req, billed, failed, spend), NEW r \in Requests, req[r].pc # "done", NEW status, NEW cost, NEW cached,
           logRequest(r, status, cost, cached), req' = [req EXCEPT ![r] = Ended(r)],
           cost \in Nat, cost = billed'[r], cached => cost = 0, \A s \in Requests \ {r} : billed'[s] = billed[s]
    PROVE  Charged(req', billed', failed', spend')
<1>1. PICK charges : charges <=> (~cached /\ req[r].key # Unset /\ cost > 0)
  OBVIOUS
<1>2. PICK lost \in SUBSET (IF charges THEN Fallible[r] ELSE Fallible[r] \ {"spend"}) :
          /\ spend' = IF charges /\ "spend" \notin lost THEN [spend EXCEPT ![req[r].key] = @ + cost] ELSE spend
          /\ failed' = [failed EXCEPT ![r] = lost]
  BY <1>1 DEF logRequest
<1>3. failed'[r] = lost /\ \A s \in Requests \ {r} : failed'[s] = failed[s]
  BY <1>2 DEF Inv, Entries
<1>4. DOMAIN spend = Keys /\ DOMAIN spend' = Keys
  BY <1>2 DEF Charged
<1>5. ASSUME NEW k \in Keys \ {Unset}
      PROVE  spend'[k] = IF k = req[r].key /\ "spend" \notin lost THEN spend[k] + cost ELSE spend[k]
  <2>1. spend[k] \in Nat
    BY SpendIsNat
  <2>2. PICK n : n = spend[k]
    OBVIOUS
  <2>3. CASE charges /\ "spend" \notin lost
    BY <1>2, <1>4, <2>3
  <2>4. CASE ~(charges /\ "spend" \notin lost)
    <3>1. spend'[k] = spend[k]
      BY <1>2, <2>4
    <3>2. k = req[r].key /\ "spend" \notin lost => cost = 0
      BY <1>1, <2>4
    <3> QED
      BY <2>1, <3>1, <3>2
  <2> QED
    BY <2>3, <2>4
<1>6. PICK bill : bill = billed'[r]
  OBVIOUS
<1> QED
  BY <1>3, <1>4, <1>5, <1>6, EndingCharges

\* A request that ends with a row for what it cost so far.
LEMMA RejectCharges ==
    ASSUME Inv, Charged(req, billed, failed, spend), NEW r \in Requests, req[r].pc # "done", NEW status, NEW cost, NEW cached,
           Reject(r, status, cost, cached), UNCHANGED billed, cost = billed[r], cached => cost = 0
    PROVE  Charged(req', billed', failed', spend')
<1>1. cost \in Nat /\ cost = billed'[r] /\ \A s \in Requests \ {r} : billed'[s] = billed[s]
  BY Bills
<1>2. logRequest(r, status, cost, cached) /\ req' = [req EXCEPT ![r] = Ended(r)]
  BY DEF Reject
<1> QED
  BY <1>1, <1>2, LogCharges

\* A request refused before anything was billed.
LEMMA EndUnloggedCharges ==
    ASSUME Inv, Charged(req, billed, failed, spend), NEW r \in Requests, req[r].pc \in {"new", "input"}, NEW status,
           EndUnlogged(r, status), UNCHANGED billed
    PROVE  Charged(req', billed', failed', spend')
<1>1. billed[r] = 0 /\ req' = [req EXCEPT ![r] = Ended(r)] /\ spend' = spend /\ failed' = failed
  BY Bills DEF EndUnlogged
<1>2. \A k \in Keys \ {Unset} : spend[k] \in Nat
  BY SpendIsNat
<1>3. /\ DOMAIN spend' = Keys
      /\ \A k \in Keys \ {Unset} :
            spend'[k] = IF k = req[r].key /\ "spend" \notin failed'[r] THEN spend[k] + billed'[r] ELSE spend[k]
  BY <1>1, <1>2 DEF Charged
<1>4. req[r].pc # "done" /\ billed'[r] \in Nat /\ \A s \in Requests \ {r} : billed'[s] = billed[s] /\ failed'[s] = failed[s]
  BY <1>1
<1> QED
  BY <1>1, <1>3, <1>4, EndingCharges

\* A request that goes on changes its own locals and, if it was answered, its bill.
LEMMA OwnStepKeepsCharges ==
    ASSUME Inv, Charged(req, billed, failed, spend), NEW r \in Requests, req[r].pc # "done", spend' = spend,
           failed' = failed, \A s \in Requests \ {r} : req'[s] = req[s] /\ billed'[s] = billed[s], req'[r].pc # "done"
    PROVE  Charged(req', billed', failed', spend')
  BY GoingOnKeepsCharges

\* What comes before the cache and the provider charges nobody.
LEMMA InputCharges ==
    ASSUME Inv, Charged(req, billed, failed, spend), NEW r \in Requests,
           BudgetRejects(r) \/ ChatInput(r) \/ DenyOnly(r) \/ Moderate(r)
    PROVE  Charged(req', billed', failed', spend')
<1>1. req[r].pc = "input" /\ UNCHANGED billed /\ billed[r] = 0 /\ req[r].pc # "done" /\ DOMAIN req = Requests
      /\ DOMAIN req[r] = Fields
  BY Bills DEF BudgetRejects, ChatInput, DenyOnly, Moderate, Inv, RequestOK
<1>2. CASE Reject(r, "denied", 0, FALSE)
  BY <1>1, <1>2, RejectCharges
<1>3. ASSUME NEW status, EndUnlogged(r, status) PROVE Charged(req', billed', failed', spend')
  BY <1>1, <1>3, EndUnloggedCharges
<1>4. CASE BudgetRejects(r) \/ Moderate(r)
  BY <1>2, <1>3, <1>4 DEF BudgetRejects, Moderate
<1>5. ASSUME NEW q, DOMAIN q = Fields, q.pc # "done", req' = [req EXCEPT ![r] = q], spend' = spend, failed' = failed
      PROVE  Charged(req', billed', failed', spend')
  <2>1. req'[r].pc # "done" /\ \A s \in Requests \ {r} : req'[s] = req[s]
    BY <1>1, <1>5
  <2> QED
    BY <1>1, <1>5, <2>1, OwnStepKeepsCharges
<1>6. CASE ChatInput(r)
  <2>1. PICK down \in Outages(engine) :
          LET results == EvaluateInput(engine, req[r].messages, down)
          IN  IF HasAction(results, "deny") THEN Reject(r, "denied", 0, FALSE)
              ELSE /\ req' = [req EXCEPT ![r] = AfterInput(r, results, down)]
                   /\ UNCHANGED <<log, spend, failed, out>>
    BY <1>6 DEF ChatInput
  <2>2. PICK results, q : results = EvaluateInput(engine, req[r].messages, down) /\ q = AfterInput(r, results, down)
    OBVIOUS
  <2>3. DOMAIN q = Fields /\ q.pc = "cache"
    BY <1>1, <2>2, AfterInputFields
  <2>4. Reject(r, "denied", 0, FALSE) \/ (req' = [req EXCEPT ![r] = q] /\ UNCHANGED <<spend, failed>>)
    BY <2>1, <2>2
  <2> QED
    BY <1>2, <1>5, <2>3, <2>4
<1>7. CASE DenyOnly(r)
  <2>1. Reject(r, "denied", 0, FALSE) \/ (req' = [req EXCEPT ![r].pc = "call", ![r].judge = engine] /\ UNCHANGED <<spend, failed>>)
    BY <1>7 DEF DenyOnly
  <2>2. PICK q : q = [req[r] EXCEPT !.pc = "call", !.judge = engine]
    OBVIOUS
  <2>3. DOMAIN q = Fields /\ q.pc = "call"
    BY <1>1, <2>2 DEF Fields
  <2>4. Reject(r, "denied", 0, FALSE) \/ (req' = [req EXCEPT ![r] = q] /\ UNCHANGED <<spend, failed>>)
    BY <1>1, <2>1, <2>2
  <2> QED
    BY <1>2, <1>5, <2>3, <2>4
<1> QED
  BY <1>4, <1>6, <1>7

\* The steps between the input guardrails and the end.
LEMMA MiddleCharges ==
    ASSUME Inv, Charged(req, billed, failed, spend), NEW r \in Requests,
           CacheLookup(r) \/ Recheck(r) \/ CallAnswers(r) \/ Judge(r)
    PROVE  Charged(req', billed', failed', spend')
<1>1. /\ req[r].pc \in {"cache", "recheck", "call", "judge"} /\ DOMAIN req = Requests /\ DOMAIN billed = Requests
      /\ DOMAIN req[r] = Fields /\ req[r].pc # "done" /\ req[r].cost = billed[r]
      /\ (req[r].pc = "recheck" => billed[r] = 0)
  BY Bills DEF CacheLookup, Recheck, CallAnswers, Judge, Inv, RequestOK
<1>2. ASSUME spend' = spend, failed' = failed, \A s \in Requests \ {r} : req'[s] = req[s] /\ billed'[s] = billed[s], req'[r].pc # "done"
      PROVE  Charged(req', billed', failed', spend')
  BY <1>1, <1>2, OwnStepKeepsCharges
<1>3. CASE CacheLookup(r)
  <2>1. spend' = spend /\ failed' = failed /\ billed' = billed
    BY <1>3 DEF CacheLookup
  <2>2. PICK key : key = KeyWithScope(r)
    OBVIOUS
  <2>3. \/ req' = [req EXCEPT ![r].pc = "call", ![r].cacheKey = key]
        \/ \E e \in Hits(key) : req' = [req EXCEPT ![r].pc = "recheck", ![r].cacheKey = key,
                                                   ![r].answer = e.answer, ![r].provider = e.by]
    BY <1>3, <2>2 DEF CacheLookup
  <2>4. req'[r].pc \in {"call", "recheck"} /\ \A s \in Requests \ {r} : req'[s] = req[s]
    <3>1. CASE req' = [req EXCEPT ![r].pc = "call", ![r].cacheKey = key]
      BY <1>1, <3>1 DEF Fields
    <3>2. ASSUME NEW e, req' = [req EXCEPT ![r].pc = "recheck", ![r].cacheKey = key,
                                           ![r].answer = e.answer, ![r].provider = e.by]
          PROVE  req'[r].pc = "recheck" /\ \A s \in Requests \ {r} : req'[s] = req[s]
      BY <1>1, <3>2 DEF Fields
    <3> QED
      BY <2>3, <3>1, <3>2
  <2> QED
    BY <1>2, <2>1, <2>4
<1>4. CASE CallAnswers(r)
  <2>1. spend' = spend /\ failed' = failed /\ \A s \in Requests \ {r} : billed'[s] = billed[s]
    BY <1>1, <1>4 DEF CallAnswers
  <2>2. req'[r].pc \in {"finish", "judge"} /\ \A s \in Requests \ {r} : req'[s] = req[s]
    <3>1. PICK p \in Providers, answer \in Answers :
              LET buffer == bufferOutput(r)
                  forward == req[r].kind = "stream" /\ ~buffer
              IN  req' = [req EXCEPT ![r].pc = IF forward \/ Plain(req[r].kind) THEN "finish" ELSE "judge",
                                     ![r].answer = answer, ![r].provider = p,
                                     ![r].buffer = buffer, ![r].cost = addCost(r, 1)]
      BY <1>4 DEF CallAnswers
    <3> QED
      BY <1>1, <3>1 DEF Fields
  <2> QED
    BY <1>2, <2>1, <2>2
<1>5. CASE Recheck(r)
  <2>1. req[r].pc = "recheck" /\ billed' = billed
    BY <1>5 DEF Recheck
  <2>2. \/ Reject(r, "denied", 0, TRUE)
        \/ req' = [req EXCEPT ![r].pc = "call", ![r].answer = NoMessage] /\ UNCHANGED <<spend, failed>>
        \/ req' = [req EXCEPT ![r] = Ended(r)] /\ logRequest(r, "ok", 0, TRUE)
    BY <1>5 DEF Recheck
  <2>3. CASE Reject(r, "denied", 0, TRUE)
    BY <1>1, <2>1, <2>3, RejectCharges
  <2>4. CASE req' = [req EXCEPT ![r].pc = "call", ![r].answer = NoMessage] /\ UNCHANGED <<spend, failed>>
    <3>1. req'[r].pc = "call" /\ \A s \in Requests \ {r} : req'[s] = req[s]
      BY <1>1, <2>4 DEF Fields
    <3> QED
      BY <1>2, <2>1, <2>4, <3>1
  <2>5. CASE req' = [req EXCEPT ![r] = Ended(r)] /\ logRequest(r, "ok", 0, TRUE)
    BY <1>1, <2>1, <2>5, LogCharges
  <2> QED
    BY <2>2, <2>3, <2>4, <2>5
<1>6. CASE Judge(r)
  <2>1. billed' = billed
    BY <1>6 DEF Judge
  <2>2. \/ Reject(r, "denied", req[r].cost, FALSE)
        \/ UNCHANGED <<spend, failed>> /\ \E disp, next : req' = [req EXCEPT ![r].pc = "call", ![r].attempt = @ + 1,
                                       ![r].max = retryAttempts(@, disp), ![r].hint = next.hint, ![r].model = next.model]
        \/ UNCHANGED <<spend, failed>> /\ \E disp, answer : req' = [req EXCEPT ![r].pc = "finish", ![r].disp = disp, ![r].answer = answer]
    BY <1>6 DEF Judge
  <2>3. CASE Reject(r, "denied", req[r].cost, FALSE)
    BY <1>1, <2>1, <2>3, RejectCharges
  <2>4. CASE ~Reject(r, "denied", req[r].cost, FALSE)
    <3>1. req'[r].pc \in {"call", "finish"} /\ \A s \in Requests \ {r} : req'[s] = req[s]
      <4>1. ASSUME NEW disp, NEW next,
                   req' = [req EXCEPT ![r].pc = "call", ![r].attempt = @ + 1, ![r].max = retryAttempts(@, disp),
                                      ![r].hint = next.hint, ![r].model = next.model]
            PROVE  req'[r].pc = "call" /\ \A s \in Requests \ {r} : req'[s] = req[s]
        BY <1>1, <4>1 DEF Fields
      <4>2. ASSUME NEW disp, NEW answer,
                   req' = [req EXCEPT ![r].pc = "finish", ![r].disp = disp, ![r].answer = answer]
            PROVE  req'[r].pc = "finish" /\ \A s \in Requests \ {r} : req'[s] = req[s]
        BY <1>1, <4>2 DEF Fields
      <4> QED
        BY <2>2, <2>4, <4>1, <4>2
    <3>2. spend' = spend /\ failed' = failed
      BY <2>2, <2>4
    <3> QED
      BY <1>2, <2>1, <3>1, <3>2
  <2> QED
    BY <2>3, <2>4
<1> QED
  BY <1>3, <1>4, <1>5, <1>6

\* The steps that end an answered request.
LEMMA LastCharges ==
    ASSUME Inv, Charged(req, billed, failed, spend), NEW r \in Requests, CallFails(r) \/ StreamBreaks(r) \/ Finish(r)
    PROVE  Charged(req', billed', failed', spend')
<1>1. /\ req[r].pc \in {"call", "finish"} /\ DOMAIN billed = Requests /\ billed[r] \in Nat
      /\ req[r].pc # "done" /\ req[r].cost = billed[r]
  BY Bills DEF CallFails, StreamBreaks, Finish
<1>2. CASE CallFails(r)
  <2>1. Reject(r, "error", addCost(r, 0), FALSE) /\ UNCHANGED billed
    BY <1>2 DEF CallFails
  <2>2. addCost(r, 0) = billed[r]
    BY <1>1 DEF addCost
  <2> QED
    BY <1>1, <2>1, <2>2, RejectCharges
<1>3. CASE StreamBreaks(r)
  <2>1. PICK cost : cost = addCost(r, 1)
    OBVIOUS
  <2>2. /\ logRequest(r, "error", cost, FALSE) /\ req' = [req EXCEPT ![r] = Ended(r)]
        /\ billed' = [billed EXCEPT ![r] = @ + 1] /\ cost = billed[r] + 1
    BY <1>1, <1>3, <2>1 DEF StreamBreaks, addCost
  <2>3. cost \in Nat /\ cost = billed'[r] /\ \A s \in Requests \ {r} : billed'[s] = billed[s]
    BY <1>1, <2>2
  <2> QED
    BY <1>1, <2>2, <2>3, LogCharges
<1>4. CASE Finish(r)
  <2>1. PICK status : /\ logRequest(r, status, req[r].cost, FALSE) /\ req' = [req EXCEPT ![r] = Ended(r)]
                      /\ billed' = billed
    BY <1>4 DEF Finish
  <2> QED
    BY <1>1, <2>1, LogCharges
<1> QED
  BY <1>2, <1>3, <1>4

\* Every step keeps the charges.
LEMMA NextCharges ==
    ASSUME Inv, Charged(req, billed, failed, spend), [Next]_vars PROVE Charged(req', billed', failed', spend')
<1>1. CASE UNCHANGED <<req, billed, failed, spend>>
  BY <1>1
<1>2. ASSUME NEW r \in Requests, Enter(r) PROVE Charged(req', billed', failed', spend')
  <2>1. req[r].pc = "new" /\ UNCHANGED <<billed, failed, spend>> /\ DOMAIN req = Requests
    BY <1>2, Bills DEF Enter
  <2>2. PICK u : u = Unstarted
    OBVIOUS
  <2>3. PICK ask : req' = [req EXCEPT ![r] = [u EXCEPT !.pc = "input", !.kind = ask.kind,
                       !.key = ask.key, !.messages = ask.prompt, !.hint = ask.hint]]
    BY <1>2, <2>2 DEF Enter
  <2>4. DOMAIN u = Fields
    BY <2>2, UnstartedFields
  <2>5. req'[r].pc = "input" /\ \A s \in Requests \ {r} : req'[s] = req[s]
    BY <2>1, <2>3, <2>4 DEF Fields
  <2> QED
    BY <2>1, <2>5, OwnStepKeepsCharges
<1>3. ASSUME NEW r \in Requests, Refuse(r) PROVE Charged(req', billed', failed', spend')
  BY <1>3, EndUnloggedCharges DEF Refuse
<1>4. ASSUME NEW r \in Requests, Step(r) PROVE Charged(req', billed', failed', spend')
  BY <1>4, InputCharges, MiddleCharges, LastCharges DEF Step, Embeddings, Rerank
<1>5. (\E r \in Requests : ShadowDone(r)) \/ Expire \/ SetGuardrails \/ updateSettings \/ UNCHANGED vars
      => UNCHANGED <<req, billed, failed, spend>>
  BY DEF ShadowDone, Expire, SetGuardrails, updateSettings, vars
<1> QED
  BY <1>1, <1>2, <1>3, <1>4, <1>5 DEF Next

\* Nobody is charged at the start.
LEMMA InitCharges == Init => Charged(req, billed, failed, spend)
<1> SUFFICES ASSUME Init PROVE Charged(req, billed, failed, spend)
  OBVIOUS
<1>1. DOMAIN spend = Keys /\ \A k \in Keys : spend[k] = 0
  BY DEF Init
<1>2. \A r \in Requests : req[r].pc = "new"
  <2>1. PICK u : u = Unstarted
    OBVIOUS
  <2>2. u.pc = "new" /\ req = [r \in Requests |-> u]
    BY <2>1, UnstartedFields DEF Init
  <2> QED
    BY <2>2
<1>3. \A k \in Keys : DoneOf(req, failed, k) = {}
  BY <1>2 DEF DoneOf
<1> QED
  BY <1>1, <1>3, SumOfNone, FS_EmptySet DEF Charged

-----------------------------------------------------------------------------
(* Theorems.                                                               *)

\* Every reachable state satisfies the inductive invariant: each request keeps
\* the verdict of the engine that judged its messages, the scope its cache key
\* was made for, and a bill that equals its running cost until it is logged.
THEOREM Invariance == Spec => []Inv
<1>1. Init => Inv
  BY InitIsOK
<1>2. Inv /\ [Next]_vars => Inv'
  BY NextKeeps
<1> QED
  BY <1>1, <1>2, PTL DEF Spec

\* No answer that passed the output guardrails (whole, replayed from the buffer,
\* or served from the cache after Recheck) fires a check of the engine that
\* judged it, for every set of engines, every reload and every outage of the
\* external checks.
THEOREM OutputIsClean == Spec => []NoViolatingOutput
<1>1. Inv => NoViolatingOutput
  BY DEF Inv, RequestOK, NoViolatingOutput
<1> QED
  BY <1>1, Invariance, PTL

\* Whatever Send hands to a provider, on the first attempt, on a retry or in the
\* shadow copy, passed the input guardrails of the engine that judged the request:
\* all of a chat's messages, and of what Embeddings and Rerank send the text that
\* embeddingText and rerankGuardrailText read of it.
THEOREM InputIsJudged == Spec => []InputJudged
<1>1. Inv => InputJudged
  BY DEF Inv
<1> QED
  BY <1>1, Invariance, PTL

\* A cached answer is served only to a caller that shares the scope of its own
\* settings (tenantCacheScope) with the one it was produced for.
THEOREM CacheStaysWithinScope == Spec => []CacheWithinScope
<1>1. Inv => CacheWithinScope
  BY DEF Inv, RequestOK, CacheWithinScope, Shares
<1> QED
  BY <1>1, Invariance, PTL

\* What the providers billed for a request that ended is in its one log row,
\* however many attempts it took and however it ended; when logRequest fails to
\* insert the row, the request has none.
THEOREM BillsAreLogged == Spec => []LoggedOnce
<1>1. Inv => LoggedOnce
  BY DEF Inv, RequestOK, LoggedOnce, Recorded
<1> QED
  BY <1>1, Invariance, PTL

\* Each key's spend is what the providers billed for those of its finished requests
\* whose charge was written: logRequest charges every ending once, retried, denied
\* and broken requests included, cached answers cost nothing, and a failed insert
\* of the row does not keep the charge from being made, nor the reverse.
THEOREM BillsAreCharged == Spec => []BilledIsCharged
<1>1. Init => Charged(req, billed, failed, spend)
  BY InitCharges
<1>2. Inv /\ Charged(req, billed, failed, spend) /\ [Next]_vars => Charged(req, billed, failed, spend)'
  BY NextCharges
<1>3. Inv /\ Charged(req, billed, failed, spend) => BilledIsCharged
  <2> SUFFICES ASSUME Inv, Charged(req, billed, failed, spend) PROVE BilledIsCharged
    OBVIOUS
  <2>1. LoggedOnce
    BY DEF Inv, RequestOK, LoggedOnce, Recorded
  <2>2. \A k \in Keys \ {Unset} : spend[k] = SumFunctionOnSet(billed, DoneOf(req, failed, k))
    BY DEF Charged
  <2>3. \A k \in Keys : DoneOf(req, failed, k) = ChargedTo(k)
    BY DEF DoneOf, ChargedTo
  <2> QED
    BY <2>1, <2>2, <2>3 DEF BilledIsCharged
<1> QED
  BY <1>1, <1>2, <1>3, Invariance, PTL DEF Spec
=============================================================================
