---------------------------- MODULE MCHotReload ----------------------------
EXTENDS HotReload

R(p, v, t) == [provider |-> p, variants |-> v, timeout |-> t]
Table(a, b) == [m \in Models |-> IF m = "m1" THEN a ELSE b]
File(t, g, c, s, b) ==
    [ok |-> TRUE, routes |-> t, rails |-> g, scope |-> c,
     shadow |-> s, breaker |-> b]

MCConfigs ==
    {Malformed,
     File(Table(R("p", "v", "short"), R("p", Unset, Unset)), "strict", "workspace", Unset, Unset),
     File(Table(NoRoute, R("q", Unset, "long")), "strict", Unset, "mirror", "slow"),
     File(Table(NoRoute, NoRoute), "none", Unset, Unset, "fast")}

MCEnvironments ==
    {[ab |-> Table(NoRoute, NoRoute), scope |-> Unset, shadow |-> Unset, breaker |-> Unset],
     [ab |-> Table(NoRoute, R(Unset, "ab", Unset)), scope |-> "global", shadow |-> Unset, breaker |-> "fast"]}

MCLoads == {[writes |-> 1, requests |-> Requests], [writes |-> 2, requests |-> {}]}
=============================================================================
