---------------------------- MODULE MCMcpGateway ----------------------------
(* A stdio server, an HTTP server with token exchange and one that gets    *)
(* the callers' own tokens, behind one gateway; two callers with the same  *)
(* session name and request id.                                            *)
EXTENDS McpGateway, TLC

MCDestructive == {"drop"}
MCEnvOf == "prod-x" :> "production" @@ "dev-x" :> "development" @@ "[prod-x]" :> "production"
MCStructured == {"[prod-x]", "null"}

MCTargets ==
    "db" :> [name |-> "db", stdio |-> TRUE, environment |-> "", tools |-> {}, forward |-> FALSE, exchange |-> FALSE,
             rules |-> <<ProtectProduction, [match |-> [action |-> "call"], arg |-> <<"table", "secret">>],
                         [match |-> [action |-> "list", role |-> "viewer"], arg |-> <<>>]>>] @@
    "web" :> [name |-> "web", stdio |-> FALSE, environment |-> "production", forward |-> FALSE, exchange |-> TRUE,
              tools |-> {[name |-> "erase", method |-> "DELETE", path |-> {"id"}, required |-> {"id"}],
                         [name |-> "show", method |-> "GET", path |-> {"id"}, required |-> {}]},
              rules |-> <<ProtectProduction>>] @@
    "files" :> [name |-> "files", stdio |-> FALSE, environment |-> "", tools |-> {}, forward |-> TRUE, exchange |-> FALSE,
                rules |-> <<ProtectProduction>>]

MCOrder == <<"db", "web", "files">>

Key1 == [key |-> "k1", role |-> "member", token |-> ""]
Key2 == [key |-> "k2", role |-> "member", token |-> ""]
Reader == [key |-> "k3", role |-> "viewer", token |-> ""]
Ann == [key |-> "ann", role |-> "member", token |-> "tok1"]
Bob == [key |-> "bob", role |-> "member", token |-> "tok2"]

MCScopes == {<<w, "s">> : w \in {"k1", "k2", "k3", "ann", "bob"}}

Msg(who, id, method, params, args) ==
    [who |-> who, session |-> "s",
     top |-> IF id = "" THEN <<<<Exact("method"), method>>>>
             ELSE <<<<Exact("id"), id>>, <<Exact("method"), method>>>>,
     params |-> params, args |-> args]

Tool(prefix, op) == <<<<Exact("name"), [prefix |-> prefix, tool |-> "", op |-> op]>>>>

ToolCall(who, prefix, op, args) == Msg(who, "1", "tools/call", Tool(prefix, op), args)

\* Calls with plain, respelled, doubled and decoy arguments.
Args == {<<>>,
         <<<<Exact("table"), "t">>>>, <<<<Respelled("table"), "secret">>>>,
         <<<<Exact("table"), "t">>, <<Respelled("table"), "secret">>>>,
         <<<<Exact("repo"), "dev-x">>, <<Exact("table"), "prod-x">>>>,
         <<<<Exact("table"), "prod-x">>, <<Exact("action"), "drop">>>>,
         <<<<Exact("table"), "prod-x">>, <<Exact("action"), "null">>, <<Exact("operation"), "drop">>>>,
         <<<<Exact("table"), "prod-x">>, <<Exact("action"), "read">>, <<Exact("operation"), "drop">>>>,
         <<<<Exact("table"), "[prod-x]">>, <<Exact("repo"), "dev-x">>, <<Exact("action"), "drop">>>>}

ToDb == {ToolCall(who, "", op, args) : who \in {Key1}, op \in {"get", "drop"}, args \in Args}

\* Tool calls that hide behind the spelling of a name, and other messages.
Other(who) ==
    {[Msg(who, "1", "ping", Tool("", "drop"), <<>>) EXCEPT !.top = Append(@, <<Respelled("method"), "tools/call">>)],
     [Msg(who, "1", "tools/call", Tool("", "get"), <<>>) EXCEPT !.params = Append(@, <<Respelled("name"), [prefix |-> "", tool |-> "", op |-> "drop"]>>)],
     ToolCall(who, "old", "drop", <<<<Exact("table"), "prod-x">>>>), Msg(who, "1", "initialize", <<>>, <<>>), Msg(who, "", "notifications/initialized", <<>>, <<>>),
     Msg(who, "", "notifications/other", <<>>, <<>>), Msg(who, "", "tools/list", <<>>, <<>>),
     [Msg(who, "1", "x", <<>>, <<>>) EXCEPT !.top = <<<<Exact("id"), "1">>, <<Exact("result"), "r">>>>]}

Web == {ToolCall(who, "web", "get", <<>>) : who \in {Ann, Bob, Key1}}
       \cup {ToolCall(who, "files", "get", <<>>) : who \in {Ann, Key1}}
       \cup {ToolCall(Ann, "web", op, <<<<Exact("id"), v>>>>) : op \in {"erase", "show"}, v \in {"7", ".."}}

CancelMsg(who) == Msg(who, "", "notifications/cancelled", <<<<Exact("requestId"), "1">>>>, <<>>)

Plain(who) == ToolCall(who, "", "get", <<<<Exact("table"), "t">>>>)

Batch(a, b, c) == "a" :> a @@ "b" :> b @@ "c" :> c

\* Calls of two callers with a cancellation; an id used again; a notification
\* beside a call; the shared tokens; and each of the other messages alone.
MCBatches ==
    {Batch(Plain(Key1), Plain(Key2), CancelMsg(Key1)),
     Batch(Plain(Key1), Plain(Key1), NoMessage),
     Batch(Plain(Key1), Msg(Key1, "", "notifications/other", <<>>, <<>>), NoMessage)}
    \cup {Batch(x, y, NoMessage) : x, y \in Web}
    \cup {Batch(x, NoMessage, NoMessage) : x \in ToDb \cup Other(Key2) \cup {Msg(Key1, "", "notifications/cancelled", <<>>, <<>>), Msg(Reader, "1", "tools/list", <<>>, <<>>),
                                                                       Msg(Ann, "1", "tools/list", <<>>, <<>>)}}
=============================================================================
