----------------------------- MODULE MCExpense -----------------------------
(* Values of ExpenseProperties' parameters for TLC. *)
EXTENDS ExpenseProperties, TLC

CONSTANTS e1, e2, l1, l2, l3, u1, u2, d1, c1, c2

OneDept == [u \in {u1, u2} |-> d1]

Row(place, type, active, min, max) ==
    [level |-> place, approverType |-> type, isActive |-> active,
     minimumAmount |-> min, maximumAmount |-> max]

ManagerFirst == Row(1, "DEPARTMENT_MANAGER", TRUE, 0, NoMaximum)
FinanceSecond == Row(2, "FINANCE_MANAGER", TRUE, 0, NoMaximum)
ManagerThird == Row(3, "DEPARTMENT_MANAGER", TRUE, 0, NoMaximum)

\* A manager stage for every expense, a finance stage from amount 2 upwards.
LargeToFinance == [l \in {l1, l2} |->
    IF l = l1 THEN ManagerFirst ELSE Row(2, "FINANCE_MANAGER", TRUE, 2, NoMaximum)]

TwoStages == [l \in {l1, l2} |-> IF l = l1 THEN ManagerFirst ELSE FinanceSecond]

ThreeStages == [l \in {l1, l2, l3} |->
    IF l = l1 THEN ManagerFirst ELSE IF l = l2 THEN FinanceSecond ELSE ManagerThird]

StageRows == {ManagerFirst, FinanceSecond, Row(2, "FINANCE_MANAGER", TRUE, 2, NoMaximum)}

\* Rows an administrator may choose from: places 1 to 3, either type, switched
\* off, or limited to some amounts.
EditableRows == StageRows \cup
    {Row(1, "DEPARTMENT_MANAGER", FALSE, 0, NoMaximum),
     Row(1, "FINANCE_MANAGER", TRUE, 0, 1),
     ManagerThird}

BudgetBothYears == [k \in {d1} \X {1, 2} |-> 3]
NoBudgets == [k \in {d1} \X {1} |-> NoBudget]
OneBudget == [k \in {d1} \X {1} |-> 2]

SameYear == [t \in 1..MaxInstant |-> 1]
YearTurns == [t \in 1..MaxInstant |-> IF t = 1 THEN 1 ELSE 2]

ClientSymmetry == Permutations({c1, c2})
=============================================================================
