-------------------------- MODULE MCRouterExecute --------------------------
(***************************************************************************)
(* RouterExecute for TLC: two providers, of which the second can neither   *)
(* stream nor serve the media interface, and one error of each class that  *)
(* errors.go tells apart.                                                  *)
(***************************************************************************)
EXTENDS RouterExecute, TLC

CONSTANTS p1, p2

MCChains == {<<>>, <<p1, p2>>}

Timeout    == [kind |-> "network",  status |-> 0,   retryAfter |-> 0]
Throttled  == [kind |-> "upstream", status |-> 429, retryAfter |-> 60]
Conflict   == [kind |-> "upstream", status |-> 409, retryAfter |-> 5]
BadRequest == [kind |-> "upstream", status |-> 400, retryAfter |-> 0]

\* Blamed and retried; blamed and not retried (the hint is too long); not
\* blamed and retried; neither.
MCFailures == {Timeout, Throttled, Conflict, BadRequest}

RequestSymmetry == Permutations(Requests)
=============================================================================
