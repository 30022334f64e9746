-------------------------- MODULE BudgetProperties --------------------------
(***************************************************************************)
(* What the locking of the budget row must guarantee.                      *)
(***************************************************************************)
EXTENDS BudgetRow, FiniteSetsExt

\* Approved, pending and reimbursed spend, as the recount of budget-committed.query
\* adds it up.
Spend == MapThenSumSet(LAMBDA e : Cost[e], {e \in Expenses : stage[e] # "open"})

\* The transactions of different expenses interleave statement by statement,
\* wait for each other's row lock and roll back; what becomes visible is a
\* ledger in which each of them is one step.  It is what ExpenseLifecycle and
\* the overspend test rely on when they treat a submission as indivisible.
Ledger == INSTANCE BudgetLedger WITH
    cost <- Cost,
    limit <- IF row = NoRow THEN NoBudget ELSE row.limit,
    committed <- IF row = NoRow THEN 0 ELSE row.committed,
    reimbursed <- IF row = NoRow THEN 0 ELSE row.reimbursed

ImplementsLedger == Ledger!LedgerSpec

\* The committed amount of the row is the spend of its expenses, through every
\* interleaving and rollback: no delta is lost and none is applied twice.
RowMatchesSpend == row # NoRow => row.committed = Spend

\* "Department annual budgets (alert-only by default; set true to block overspend
\* submits)" (config.schema.ts): with the switch on, a submission that finds an
\* active budget passes only if the spend of the department and its own amount
\* stay within the limit.
OverspendIsBlocked ==
    [][\A e \in Expenses :
          /\ BlockSubmitOnOverspend
          /\ RowFound
          /\ op[e] = "charge" /\ at[e] = "begun" /\ at'[e] = "locked"
          => Spend + Cost[e] <= row.limit]_budgetRowVars
=============================================================================
