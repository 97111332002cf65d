--------------------------- MODULE MCBudgetLedger ---------------------------
(***************************************************************************)
(* BudgetLedger for TLC: requests are interchangeable.                     *)
(***************************************************************************)
EXTENDS BudgetLedger, TLC

RequestSymmetry == Permutations(Requests)
=============================================================================
