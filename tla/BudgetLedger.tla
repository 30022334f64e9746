---------------------------- MODULE BudgetLedger ----------------------------
(***************************************************************************)
(* What the expense workflow takes the budget row of one department and    *)
(* year for: a ledger whose every entry is one indivisible step.  Charging *)
(* an expense tests the limit against everything charged so far.           *)
(* BudgetRow implements it for one row, statement by statement;            *)
(* ExpenseLifecycle implements it for the row of every department and year.*)
(***************************************************************************)
EXTENDS Integers

CONSTANTS Expenses, BlockSubmitOnOverspend, NoBudget

VARIABLES
    stage,      \* "open", "charged" or "paid"
    cost,       \* the amount of each expense
    limit,      \* amount_limit, or NoBudget
    committed, reimbursed

ledgerVars == <<stage, cost, limit, committed, reimbursed>>

LedgerInit ==
    /\ stage = [e \in Expenses |-> "open"]
    /\ cost \in [Expenses -> Nat]
    /\ limit \in Nat \cup {NoBudget}
    /\ committed = 0
    /\ reimbursed = 0

Charge(e) ==
    /\ stage[e] = "open"
    /\ BlockSubmitOnOverspend /\ limit # NoBudget => committed + cost[e] <= limit
    /\ stage' = [stage EXCEPT ![e] = "charged"]
    /\ committed' = IF limit # NoBudget THEN committed + cost[e] ELSE committed
    /\ UNCHANGED <<cost, limit, reimbursed>>

AtLeastZero(n) == IF n < 0 THEN 0 ELSE n

Release(e) ==
    /\ stage[e] = "charged"
    /\ stage' = [stage EXCEPT ![e] = "open"]
    /\ committed' = IF limit # NoBudget THEN AtLeastZero(committed - cost[e]) ELSE committed
    /\ UNCHANGED <<cost, limit, reimbursed>>

Pay(e) ==
    /\ stage[e] = "charged"
    /\ stage' = [stage EXCEPT ![e] = "paid"]
    /\ reimbursed' = IF limit # NoBudget THEN reimbursed + cost[e] ELSE reimbursed
    /\ UNCHANGED <<cost, limit, committed>>

\* The amount of an expense changes only while it is in no book.
Reprice(e) ==
    /\ stage[e] = "open"
    /\ cost'[e] \in Nat
    /\ cost' = [cost EXCEPT ![e] = cost'[e]]
    /\ UNCHANGED <<stage, limit, committed, reimbursed>>

\* A budget is opened before anything was charged, or its limit is changed.
SetLimit ==
    /\ limit' \in Nat
    /\ UNCHANGED <<stage, cost, committed, reimbursed>>

LedgerNext ==
    \/ \E e \in Expenses : Charge(e) \/ Release(e) \/ Pay(e) \/ Reprice(e)
    \/ SetLimit

LedgerSpec == LedgerInit /\ [][LedgerNext]_ledgerVars
=============================================================================
