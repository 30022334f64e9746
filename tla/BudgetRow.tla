----------------------------- MODULE BudgetRow -----------------------------
(***************************************************************************)
(* The budget row of one department and year, statement by statement: the  *)
(* transactions of expenses that charge, release and pay it under a row    *)
(* lock, and the administrators who create and update it without one.      *)
(*                                                                         *)
(* A transaction holds the row of its expense FOR UPDATE from its first    *)
(* statement on, so an expense has one transaction at a time.  What it     *)
(* wrote becomes visible when it commits; PostgreSQL reads committed rows. *)
(***************************************************************************)
EXTENDS Integers, FiniteSets

CONSTANTS
    Expenses, Cost,     \* expenses of the department and year, and their amounts
    Admins,             \* budget updates that may be in flight at once
    LimitsToSet,        \* amount_limit values an administrator writes
    MayDeactivate,      \* administrators switch the budget off and on
    EditsOnlyWhenQuiet, \* they create it before the first submission and update
                        \* it while no transaction is in flight
    BlockSubmitOnOverspend, \* BUDGET_BLOCK_SUBMIT_ON_OVERSPEND
    NoRow, NoOne, NoBudget

DepartmentBudget == [limit : Nat, active : BOOLEAN, committed : Nat, reimbursed : Nat]

ASSUME BudgetParametersAssumption ==
    /\ Cost \in [Expenses -> Nat \ {0}]
    /\ LimitsToSet \subseteq Nat
    /\ MayDeactivate \in BOOLEAN
    /\ EditsOnlyWhenQuiet \in BOOLEAN
    /\ BlockSubmitOnOverspend \in BOOLEAN
    /\ NoOne \notin Expenses
    /\ NoBudget \notin Nat
    /\ NoRow \notin DepartmentBudget

\* A department has finitely many expenses in a year.
ASSUME FiniteExpensesAssumption == IsFiniteSet(Expenses)

VARIABLES
    stage,      \* of each expense, as committed: "open", "charged" or "paid"
    row,        \* the department_budgets row as committed, or NoRow
    rowLock,    \* the expense whose transaction holds the row lock, or NoOne
    op,         \* what the transaction of an expense is doing
    at,         \* and how far it is
    admin       \* an update in flight: the entity read, then what save loaded

budgetRowVars == <<stage, row, rowLock, op, at, admin>>

Operations == {"charge", "release", "pay"}
Places == {"idle", "begun", "locked", "written"}
NoUpdate == [entity |-> NoRow, loaded |-> NoRow]

BudgetTypeOK ==
    /\ stage \in [Expenses -> {"open", "charged", "paid"}]
    /\ row \in DepartmentBudget \cup {NoRow}
    /\ rowLock \in Expenses \cup {NoOne}
    /\ op \in [Expenses -> Operations]
    /\ at \in [Expenses -> Places]
    /\ admin \in [Admins -> [entity : DepartmentBudget \cup {NoRow},
                             loaded : DepartmentBudget \cup {NoRow}]]

BudgetInit ==
    /\ stage = [e \in Expenses |-> "open"]
    /\ row = NoRow
    /\ rowLock = NoOne
    /\ op = [e \in Expenses |-> "charge"]
    /\ at = [e \in Expenses |-> "idle"]
    /\ admin = [a \in Admins |-> NoUpdate]

\* WHERE is_active = TRUE AND deleted_at IS NULL
RowFound == row # NoRow /\ row.active

-----------------------------------------------------------------------------
(* A transaction of an expense.                                            *)

StageFor(o) == IF o = "charge" THEN "open" ELSE "charged"

NoUpdateInFlight == \A a \in Admins : admin[a] = NoUpdate

\* The expense row is locked and its status found to fit.
Begin(e, o) ==
    /\ EditsOnlyWhenQuiet => NoUpdateInFlight
    /\ at[e] = "idle"
    /\ stage[e] = StageFor(o)
    /\ op' = [op EXCEPT ![e] = o]
    /\ at' = [at EXCEPT ![e] = "begun"]
    /\ UNCHANGED <<stage, row, rowLock, admin>>

\* The row is read without waiting for the transaction that holds it.
RowFreeUnlocked(e) == TRUE

RowFree(e) == rowLock \in {NoOne, e}

Allowed(e) == BlockSubmitOnOverspend => row.committed + Cost[e] <= row.limit

\* lockDepartmentBudgetRow, and for a submission the evaluation that follows
\* it; without an active row there is nothing to lock and nothing to exceed.
LockRow(e) ==
    /\ at[e] = "begun"
    /\ \/ RowFound /\ RowFree(e) /\ (op[e] = "charge" => Allowed(e)) /\ rowLock' = e
       \/ ~RowFound /\ UNCHANGED rowLock
    /\ at' = [at EXCEPT ![e] = "locked"]
    /\ UNCHANGED <<stage, row, op, admin>>

\* UPDATE department_budgets; it takes the lock of a row that appeared since.
WriteRow(e) ==
    /\ at[e] = "locked"
    /\ \/ RowFound /\ RowFree(e) /\ rowLock' = e
       \/ ~RowFound /\ UNCHANGED rowLock
    /\ at' = [at EXCEPT ![e] = "written"]
    /\ UNCHANGED <<stage, row, op, admin>>

Unlocked(e) == IF rowLock = e THEN NoOne ELSE rowLock

\* GREATEST(0, committed_amount + delta)
Decreased(n, by) == IF by > n THEN 0 ELSE n - by

StageAfter(o) ==
    CASE o = "charge" -> "charged"
      [] o = "release" -> "open"
      [] o = "pay" -> "paid"

\* A reimbursement leaves the pipeline and so stops counting as committed.
RowAfterUncommittingPaid(o, cost) ==
    CASE o = "charge" -> [row EXCEPT !.committed = @ + cost]
      [] o = "release" -> [row EXCEPT !.committed = Decreased(@, cost)]
      [] o = "pay" -> [row EXCEPT !.committed = Decreased(@, cost),
                                  !.reimbursed = @ + cost]

\* A release counted with the snapshot before it and the one after it, in an
\* UPDATE without GREATEST.
RowAfterReleasedTwice(o, cost) ==
    CASE o = "charge" -> [row EXCEPT !.committed = @ + cost]
      [] o = "release" -> [row EXCEPT !.committed = @ - cost - cost]
      [] o = "pay" -> [row EXCEPT !.reimbursed = @ + cost]

RowAfter(o, cost) ==
    CASE o = "charge" -> [row EXCEPT !.committed = @ + cost]
      [] o = "release" -> [row EXCEPT !.committed = Decreased(@, cost)]
      [] o = "pay" -> [row EXCEPT !.reimbursed = @ + cost]

Commit(e) ==
    /\ at[e] = "written"
    /\ stage' = [stage EXCEPT ![e] = StageAfter(op[e])]
    /\ row' = IF rowLock = e THEN RowAfter(op[e], Cost[e]) ELSE row
    /\ rowLock' = Unlocked(e)
    /\ at' = [at EXCEPT ![e] = "idle"]
    /\ UNCHANGED <<op, admin>>

\* The submission is refused, or any statement of the transaction fails.
Rollback(e) ==
    /\ at[e] # "idle"
    /\ rowLock' = Unlocked(e)
    /\ at' = [at EXCEPT ![e] = "idle"]
    /\ UNCHANGED <<stage, row, op, admin>>

-----------------------------------------------------------------------------
(* The administration of the budget.                                       *)

Quiet == \A e \in Expenses : at[e] = "idle"

NothingCharged == \A e \in Expenses : stage[e] = "open"

\* create: committed_amount and reimbursed_amount take their default, 0.
CreateBudget(n) ==
    /\ EditsOnlyWhenQuiet => Quiet /\ NothingCharged
    /\ row = NoRow
    /\ row' = [limit |-> n, active |-> TRUE, committed |-> 0, reimbursed |-> 0]
    /\ UNCHANGED <<stage, rowLock, op, at, admin>>

\* update: findOne, and the assignments to the entity.
ReadBudget(a, n, active) ==
    /\ EditsOnlyWhenQuiet => Quiet /\ NoUpdateInFlight
    /\ admin[a] = NoUpdate
    /\ row # NoRow
    /\ active \/ MayDeactivate
    /\ admin' = [admin EXCEPT ![a].entity = [row EXCEPT !.limit = n, !.active = active]]
    /\ UNCHANGED <<stage, row, rowLock, op, at>>

\* save loads the row again...
LoadForSave(a) ==
    /\ admin[a].entity # NoRow /\ admin[a].loaded = NoRow
    /\ admin' = [admin EXCEPT ![a].loaded = row]
    /\ UNCHANGED <<stage, row, rowLock, op, at>>

Column(new, loaded, now) == IF new # loaded THEN new ELSE now

\* ...and writes the columns in which the entity differs from what it loaded.
Saved(new, loaded) ==
    [limit |-> Column(new.limit, loaded.limit, row.limit),
     active |-> Column(new.active, loaded.active, row.active),
     committed |-> Column(new.committed, loaded.committed, row.committed),
     reimbursed |-> Column(new.reimbursed, loaded.reimbursed, row.reimbursed)]

WriteBudget(a) ==
    /\ admin[a].loaded # NoRow
    /\ rowLock = NoOne \/ admin[a].entity = admin[a].loaded
    /\ row' = Saved(admin[a].entity, admin[a].loaded)
    /\ admin' = [admin EXCEPT ![a] = NoUpdate]
    /\ UNCHANGED <<stage, rowLock, op, at>>

-----------------------------------------------------------------------------
Transaction(e) ==
    \/ \E o \in Operations : Begin(e, o)
    \/ LockRow(e) \/ WriteRow(e) \/ Commit(e) \/ Rollback(e)

Administer(a) ==
    \/ \E n \in LimitsToSet, active \in BOOLEAN : ReadBudget(a, n, active)
    \/ LoadForSave(a)
    \/ WriteBudget(a)

BudgetNext ==
    \/ \E e \in Expenses : Transaction(e)
    \/ \E a \in Admins : Administer(a)
    \/ \E n \in LimitsToSet : CreateBudget(n)

BudgetSpec == BudgetInit /\ [][BudgetNext]_budgetRowVars
=============================================================================
