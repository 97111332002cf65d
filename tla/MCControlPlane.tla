--------------------------- MODULE MCControlPlane ---------------------------
(* Two organizations with a workspace each, a third workspace to create,   *)
(* and two requests at a time.                                             *)
EXTENDS ControlPlane, TLC

MCLabelKeys == {"", "w1", "w2", "w3"} \X {"p", "q"} \X {"prod"}

MCWorkspaces == "w1" :> "o1" @@ "w2" :> "o2" @@ "w3" :> ""

MCUsers == {"ann", "bob"}

\* ann owns w1.
MCMembers == [m \in {"w1", "w2", "w3"} \X MCUsers |-> IF m = <<"w1", "ann">> THEN "owner" ELSE ""]

\* An administrator of w1 limited to one model, a viewer of w2, a key that is still to be made.
MCKeys ==
    "k1" :> KeyRow("enabled", "w1", "admin", {"small"}, Anonymous) @@
    "k2" :> KeyRow("enabled", "w2", "", {}, Anonymous) @@
    "k3" :> KeyRow("absent", "", "", {}, Anonymous)

\* Every tenant has rows, and one row of each kind belongs to nobody.
MCPrompts == <<[ws |-> "w1", name |-> "p", version |-> 1], [ws |-> "w2", name |-> "p", version |-> 1],
               [ws |-> "", name |-> "p", version |-> 1]>>

MCLogs == {[id |-> 1, trace |-> "x", key |-> "k1", ws |-> "w1", org |-> "o1", model |-> "small"],
           [id |-> 2, trace |-> "x", key |-> "k2", ws |-> "w2", org |-> "o2", model |-> "large"],
           [id |-> 3, trace |-> "x", key |-> "sub1", ws |-> "", org |-> "o1", model |-> "large"],
           [id |-> 4, trace |-> "x", key |-> "", ws |-> "", org |-> "", model |-> "large"]}

MCFeedback == {[trace |-> l.trace, ws |-> l.ws, org |-> l.org] : l \in MCLogs}

\* Tokens: an administrator of o1, an owner of o1, a global administrator.
MCTokens ==
    "org" :> Caller("sub1", "", "o1", "admin", {}) @@
    "boss" :> Caller("sub2", "", "o1", "owner", {}) @@
    "root" :> Caller("sub3", "", "", "admin", {})

MCRules == <<"deny", "allow">>

NoArg == [ws |-> "", org |-> "", role |-> "", user |-> "bob", name |-> "p", models |-> {},
          key |-> "k1", prompt |-> 0, label |-> "prod", trace |-> "x"]

Call(who, method, path, arg) ==
    [who |-> who, method |-> method, path |-> path, model |-> "small", arg |-> arg]

Reads == {"/api/keys", "/api/orgs", "/api/workspaces", "/api/users", "/api/workspace-members",
          "/api/prompts", "/api/prompts/labels", "/api/logs", "/api/metrics", "/api/traces", "/api/feedback", "/api/configs"}

\* What makes rows, and the deletion of keys.
Writes ==
    {Call(who, "POST", "/api/keys", [NoArg EXCEPT !.ws = w, !.role = r, !.models = m]) :
         who \in {"k1", "org"}, w \in {"", "w1", "w2"}, r \in {"admin", "owner"},
         m \in {{}, {"small", "large"}}}
    \cup {Call(who, "DELETE", "/api/keys", [NoArg EXCEPT !.key = k]) :
              who \in {"org", "root"}, k \in {"k1", "k2"}}
    \cup {Call(who, "POST", "/api/orgs", NoArg) : who \in {"org", "root"}}
    \cup {Call(who, "POST", "/api/workspaces", [NoArg EXCEPT !.org = o]) :
              who \in {"k1", "org", "root"}, o \in {"", "o2"}}
    \cup {Call(who, "POST", path, [NoArg EXCEPT !.ws = w, !.role = r, !.user = u, !.name = who]) :
              who \in {"k1", "boss", "root"}, path \in {"/api/users", "/api/workspace-members"},
              w \in {"w1", "w2"}, r \in {"", "owner"}, u \in MCUsers}
    \cup {Call(who, "POST", "/api/prompts", [NoArg EXCEPT !.ws = w, !.name = n]) :
              who \in {"k1", "org", "root"}, w \in {"", "w2"}, n \in {"p", "q"}}
    \cup {[Call(who, "POST", path, NoArg) EXCEPT !.model = m] :
              who \in {"k1", "k2", "k3", "root"}, path \in {"/v1/chat/completions", "/a2a"},
              m \in {"small", "large"}}

\* What refers to rows that are there.
Refers ==
    {Call(who, "POST", path, [NoArg EXCEPT !.ws = w, !.prompt = i]) :
         who \in {"k1", "org", "root"}, path \in {"/api/prompts/render", "/api/prompts/labels"},
         w \in {"", "w1"}, i \in {0, 1, 4}}
    \cup {Call(who, "POST", "/api/feedback", NoArg) : who \in {"k1", "k2", "root"}}

MCReads == {Call(who, "GET", path, NoArg) : who \in {"k1", "k2", "org", "root"}, path \in Reads}

\* One request writes; the other, before, during or after it, does anything.
MCCalls == "a" :> Writes @@ "b" :> (Writes \cup Refers \cup MCReads)
=============================================================================
