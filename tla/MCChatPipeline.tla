--------------------------- MODULE MCChatPipeline ---------------------------
(* Two requests of four keys; the engines redact, deny, retry, reroute and ask *)
(* a webhook that may be down.                                                *)
EXTENDS ChatPipeline

MCWorkspace == [k \in Keys |-> IF k \in {"k1", "k2"} THEN "w" ELSE ""]

MCOrganization == [k \in Keys |-> IF k # "k4" THEN "o" ELSE ""]

\* Marks: "pii", "bad" and "sql" in texts, "rm" in tool calls; an encoding breaks up
\* "sql" (a pattern with a quote in it, say).
Secret == <<Message({"pii"}, {}), Message({}, {})>>
Hello == <<Message({}, {})>>

Ask(kind, key, prompt, hint) == [kind |-> kind, key |-> key, prompt |-> prompt, hint |-> hint]

MCAsks ==
    [r \in Requests |->
        IF r = "r1" THEN {Ask("chat", "k1", Secret, ""), Ask("stream", "k3", Hello, "")}
        ELSE {Ask("chat", "k2", Secret, ""), Ask("stream", "k4", Hello, ""),
              Ask("chat", "k3", Hello, "p1"),
              Ask("embed", "k2", <<Document({"sql", "pii"}, {}, FALSE)>>, ""),
              Ask("rerank", "k2", <<Document({}, {"sql"}, FALSE)>>, ""),
              Ask("rerank", "k2", <<Document({"sql"}, {}, FALSE)>>, ""),
              Ask("moderate", "k1", Secret, "")}]

MCFallible == [r \in Requests |-> IF r = "r1" THEN {"log", "spend"} ELSE {}]

MCAnswers == {Message({}, {}), Message({"bad"}, {}), Message({}, {"rm"})}

Strict == NewEngineWithConfig(<<Check("builtin", "", "redact", {"pii"}),
                                Check("builtin", "", "", {"sql"}),
                                Check("rule", "output", "", {"bad"}),
                                [Check("tool", "", "reroute", {"rm"}) EXCEPT !.provider = "p2"]>>)

Retrying == NewEngineWithConfig(<<Check("builtin", "", "redact", {"pii"}),
                                  Check("rule", "", "Deny", {"bad"}),
                                  [Check("rule", "output", "retry", {"bad"}) EXCEPT !.retries = 1],
                                  [Check("webhook", "output", "fallback", {"bad"})
                                      EXCEPT !.model = "m2", !.failOpen = TRUE]>>)

MCEngines == {<<>>, Strict, Retrying}

MCSettings == {[buffer |-> TRUE, cache |-> TRUE, scope |-> "workspace", shadow |-> TRUE],
               [buffer |-> FALSE, cache |-> TRUE, scope |-> "organization", shadow |-> FALSE]}
=============================================================================
