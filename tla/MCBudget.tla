----------------------------- MODULE MCBudget -----------------------------
(* Values of BudgetProperties' parameters for TLC. *)
EXTENDS BudgetProperties, TLC

CONSTANTS w, x, y, z, a1

SmallAndLarge == [e \in Expenses |-> IF e \in {w, z} THEN 2 ELSE 1]

EqualCostSymmetry == Permutations({x, y}) \cup Permutations({w, z})
=============================================================================
