----------------------------- MODULE Guardrails -----------------------------
(***************************************************************************)
(* The guardrail engine (internal/guardrail/guardrail.go) as operators.    *)
(* What a text or a tool call says is abstracted to the set of marks that  *)
(* the configured checks look for; a check fires on a text that holds all  *)
(* of the marks it needs.  An engine is the list of its checks in the      *)
(* order evaluate runs them, and <<>> stands for a nil engine (a real one  *)
(* always holds the built-in checks).                                      *)
(***************************************************************************)
EXTENDS Naturals, Sequences, SequencesExt, FiniteSetsExt

\* A string that is not set.
Unset == ""

\* A message or an answer: the marks of its text and of its tool calls.
Message(text, calls) == [text |-> text, calls |-> calls]

Messages == [text : SUBSET STRING, calls : SUBSET STRING]

\* redactMessageText: the text is replaced, tool calls are kept.
Redacted(message) == [message EXCEPT !.text = {}]

Actions == {"deny", "warn", "log", "redact", "retry", "reroute", "fallback"}

Stages == {"input", "output", "both"}

\* A check of the configuration.  An empty stage or action asks for the default;
\* some built-in checks only warn by default; provider and model are the target
\* of a reroute or fallback.
Check(kind, stage, action, needs) ==
    [kind |-> kind, stage |-> stage, action |-> action, needs |-> needs, byDefault |-> "deny",
     provider |-> Unset, model |-> Unset, retries |-> 0, failOpen |-> FALSE]

External(c) == c.kind \in {"webhook", "judge"}

\* The default stage: only tool rules look at the output alone.
DefaultStage(c) == IF c.kind = "tool" THEN "output" ELSE "both"

\* Spellings that differ from an action in their case only.
Respelled == [Deny |-> "deny", Redact |-> "redact"]

ToLower(action) == IF action \in DOMAIN Respelled THEN Respelled[action] ELSE action

validAction(action) == ToLower(action) \in Actions

\* A regex rule or built-in check keeps the spelling of its action, has its
\* default instead of an unknown one, and never applies with an unknown stage;
\* tool rules, webhooks and judges are lower-cased, and dropped for either.
Normalize(c) ==
    LET action == IF c.action = Unset THEN c.byDefault ELSE c.action
    IN  [c EXCEPT !.stage = IF c.stage = Unset THEN DefaultStage(c) ELSE c.stage,
                  !.action = IF c.kind \notin {"builtin", "rule"} THEN ToLower(action)
                             ELSE IF validAction(action) THEN action ELSE c.byDefault]

compileToolRule(c) == validAction(c.action) /\ c.stage \in Stages /\ c.needs # {}

normalizeWebhook(c) == validAction(c.action) /\ c.stage \in Stages

normalizeLLMJudge(c) == validAction(c.action) /\ c.stage \in Stages

Usable(c) ==
    CASE c.kind = "tool" -> compileToolRule(c)
      [] c.kind = "webhook" -> normalizeWebhook(c)
      [] c.kind = "judge" -> normalizeLLMJudge(c)
      [] OTHER -> TRUE

NewEngineWithConfig(config) ==
    SelectSeq([i \in DOMAIN config |-> Normalize(config[i])], Usable)

appliesTo(c, stage) == c.stage = "both" \/ c.stage = stage

compiledToolRuleMatches(c, message) == c.needs \cap message.calls # {}

\* The five built-in checks look for their patterns in the text.
builtinCheck(c, message) == c.needs \subseteq message.text

\* A regex rule, whether the accelerator scans for it or, after a failed scan
\* or for a pattern it rejects, Go does: both find the same rules.
ruleMatches(c, message) == c.needs \subseteq message.text

\* What the asked services answer is abstracted to the marks they object to: a
\* webhook sees the text, a judge the text and the tool calls.
webhookFires(c, message) == c.needs \subseteq message.text

judgeFires(c, message) == c.needs \subseteq message.text \cup message.calls

Fires(c, message) ==
    CASE c.kind = "builtin" -> builtinCheck(c, message)
      [] c.kind = "rule" -> ruleMatches(c, message)
      [] c.kind = "tool" -> compiledToolRuleMatches(c, message)
      [] c.kind = "webhook" -> webhookFires(c, message)
      [] c.kind = "judge" -> judgeFires(c, message)

Result(c) == [action |-> c.action, provider |-> c.provider, model |-> c.model,
              retries |-> c.retries]

\* The result of an external check that could not be asked: it has neither
\* the check's target nor its retries.
Unavailable(c) == [action |-> c.action, provider |-> Unset, model |-> Unset, retries |-> 0]

\* The result of a check that finds nothing, which triggers nothing.
Quiet == [action |-> "none", provider |-> Unset, model |-> Unset, retries |-> 0]

\* What one check says; failed says that its service cannot be asked.
checkResult(c, message, failed) ==
    IF failed THEN (IF c.failOpen THEN Quiet ELSE Unavailable(c))
    ELSE IF Fires(c, message) THEN Result(c) ELSE Quiet

\* The results in the order of the checks; down are the positions of the external
\* checks that fail during this evaluation.
evaluate(engine, stage, message, down) ==
    [i \in DOMAIN engine |->
        IF appliesTo(engine[i], stage) THEN checkResult(engine[i], message, i \in down) ELSE Quiet]

Triggered(results) == \E i \in DOMAIN results : results[i] # Quiet

\* The sets of external checks that may fail together.
Outages(engine) == SUBSET {i \in DOMAIN engine : External(engine[i])}

\* extractText joins the texts of the messages; the input stage passes no
\* tool calls.
extractText(messages) ==
    Message(UNION {messages[i].text : i \in DOMAIN messages}, {})

EvaluateInput(engine, messages, down) ==
    evaluate(engine, "input", extractText(messages), down)

\* The result lists that an evaluation of an answer may give.
EvaluateOutputMessage(engine, message) ==
    {evaluate(engine, "output", message, down) : down \in Outages(engine)}

HasAction(results, action) == \E i \in DOMAIN results : results[i].action = action

NoResult == [action |-> "log", provider |-> Unset, model |-> Unset, retries |-> 0]

\* The first of the results at the positions, or none.
FirstOf(results, positions) == IF positions = {} THEN NoResult ELSE results[Min(positions)]

FirstReroute(results) ==
    FirstOf(results, {i \in DOMAIN results : results[i].action = "reroute" /\ results[i].provider # Unset})

FirstFallback(results) ==
    FirstOf(results, {i \in DOMAIN results : results[i].action = "fallback" /\
                                              (results[i].provider # Unset \/ results[i].model # Unset)})

-----------------------------------------------------------------------------
(* The gateway's use of the results (internal/gateway/gateway.go).         *)

\* A text without marks fires no check, so only marked ones matter here.
messageHasText(message) == message.text # {}

\* Mutant: only the newest message is redacted.
redactNewestMessage(engine, messages, down) ==
    [messages EXCEPT ![Len(messages)] = Redacted(@)]

\* Every message with text is judged on its own and replaced when a redact check
\* fires; when none does, the match spans messages and all are replaced.
redactInputMessages(engine, messages, down) ==
    LET redacts(m) == HasAction(EvaluateInput(engine, <<m>>, down), "redact")
        hits == {i \in DOMAIN messages :
                    messageHasText(messages[i]) /\ redacts(messages[i])}
        targets == IF hits = {} THEN DOMAIN messages ELSE hits
    IN  [i \in DOMAIN messages |->
            IF i \in targets THEN Redacted(messages[i]) ELSE messages[i]]

\* What the handler keeps of the output results: guardrailDisposition.
disposition(results) ==
    LET reroute == FirstReroute(results)
        fallback == FirstFallback(results)
        retries == {results[i].retries : i \in {j \in DOMAIN results :
                                                  results[j].action = "retry"}}
    IN  [denied |-> HasAction(results, "deny"),
         redacted |-> HasAction(results, "redact"),
         retry |-> HasAction(results, "retry"),
         retries |-> IF retries = {} THEN 0 ELSE CHOOSE n \in retries : \A m \in retries : m <= n,
         reroute |-> reroute.provider, fallback |-> fallback]

NoDisposition == disposition(<<>>)

\* The dispositions an answer may get from the engine.
outputGuardrailDisposition(engine, message) ==
    {disposition(results) : results \in EvaluateOutputMessage(engine, message)}

\* The answer must not be returned as it is.
violation(disp) ==
    disp.retry \/ disp.reroute # Unset \/ disp.fallback.action = "fallback"

\* The provider hint and the model of the next attempt.
applyRetryTarget(disp, hint, model) ==
    LET first == IF disp.reroute # Unset THEN disp.reroute ELSE hint
    IN  [hint |-> IF disp.fallback.provider # Unset THEN disp.fallback.provider ELSE first,
         model |-> IF disp.fallback.model # Unset THEN disp.fallback.model ELSE model]

\* The attempts a request may make, decided at its first violation.
retryAttempts(current, disp) ==
    IF current # 1 THEN current ELSE IF disp.retries > 0 THEN 1 + disp.retries ELSE 2

\* The checks whose action stops or changes a text at this stage.
Enforced(engine, stage) ==
    {engine[i] : i \in {j \in DOMAIN engine :
        /\ appliesTo(engine[j], stage) /\ ~External(engine[j])
        /\ \/ engine[j].action \in {"deny", "redact", "retry"}
           \/ engine[j].action = "reroute" /\ engine[j].provider # Unset
           \/ /\ engine[j].action = "fallback"
              /\ engine[j].provider # Unset \/ engine[j].model # Unset}}
=============================================================================
