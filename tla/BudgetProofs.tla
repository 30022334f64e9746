---------------------------- MODULE BudgetProofs ----------------------------
(***************************************************************************)
(* The locked budget row is a ledger, for any number of expenses, whatever *)
(* their amounts and the limits that are set.                              *)
(***************************************************************************)
EXTENDS BudgetProperties, SumTheorems

\* A lock and an update in flight are of a row that exists: no row is deleted.
LockedRowExists == rowLock # NoOne => row # NoRow

UpdatedRowExists ==
    \A a \in Admins :
        /\ admin[a].entity # NoRow => row # NoRow
        /\ admin[a].loaded # NoRow => admin[a].entity # NoRow

BudgetInv == BudgetTypeOK /\ LockedRowExists /\ UpdatedRowExists

\* The row that a transaction leaves behind is a row.
LEMMA RowAfterIsRow ==
    ASSUME row \in DepartmentBudget, NEW o \in Operations, NEW cost \in Nat
    PROVE  RowAfter(o, cost) \in DepartmentBudget
<1>1. CASE o = "charge"
  BY <1>1 DEF RowAfter, DepartmentBudget
<1>2. CASE o = "release"
  BY <1>2 DEF RowAfter, DepartmentBudget, Decreased
<1>3. CASE o = "pay"
  BY <1>3 DEF RowAfter, DepartmentBudget
<1>4. QED
  BY <1>1, <1>2, <1>3 DEF Operations

LEMMA BudgetInvInitially == BudgetInit => BudgetInv
  BY BudgetParametersAssumption
  DEF BudgetInit, BudgetInv, BudgetTypeOK, LockedRowExists, UpdatedRowExists,
      Operations, Places, NoUpdate

\* Every step of a transaction preserves the invariant.
LEMMA TransactionKeepsInv ==
    ASSUME BudgetInv, NEW e \in Expenses, Transaction(e)
    PROVE  BudgetInv'
<1> USE BudgetParametersAssumption DEF BudgetInv
<1>1. CASE \E o \in Operations : Begin(e, o)
  BY <1>1 DEF Begin, BudgetTypeOK, LockedRowExists, UpdatedRowExists, Places
<1>2. CASE LockRow(e)
  BY <1>2 DEF LockRow, RowFound, BudgetTypeOK, LockedRowExists, UpdatedRowExists, Places
<1>3. CASE WriteRow(e)
  BY <1>3 DEF WriteRow, RowFound, BudgetTypeOK, LockedRowExists, UpdatedRowExists, Places
<1>4. CASE Commit(e)
  <2>1. row' \in DepartmentBudget \cup {NoRow} /\ (row # NoRow => row' # NoRow)
    <3>1. CASE rowLock = e
      <4>1. row \in DepartmentBudget
        BY <3>1 DEF LockedRowExists, BudgetTypeOK
      <4>2. op[e] \in Operations /\ Cost[e] \in Nat
        BY DEF BudgetTypeOK
      <4>3. QED
        BY <1>4, <3>1, <4>1, <4>2, RowAfterIsRow DEF Commit
    <3>2. CASE rowLock # e
      BY <1>4, <3>2 DEF Commit, BudgetTypeOK
    <3>3. QED
      BY <3>1, <3>2
  <2>2. StageAfter(op[e]) \in {"open", "charged", "paid"}
    BY DEF StageAfter, BudgetTypeOK, Operations
  <2>3. BudgetTypeOK'
    BY <1>4, <2>1, <2>2 DEF Commit, Unlocked, BudgetTypeOK, Places
  <2>4. LockedRowExists' /\ UpdatedRowExists'
    BY <1>4, <2>1 DEF Commit, Unlocked, LockedRowExists, UpdatedRowExists
  <2>5. QED
    BY <2>3, <2>4
<1>5. CASE Rollback(e)
  BY <1>5 DEF Rollback, Unlocked, BudgetTypeOK, LockedRowExists, UpdatedRowExists, Places
<1>6. QED
  BY <1>1, <1>2, <1>3, <1>4, <1>5 DEF Transaction

\* What save writes is a row.
LEMMA SavedIsRow ==
    ASSUME row \in DepartmentBudget,
           NEW new \in DepartmentBudget, NEW loaded \in DepartmentBudget
    PROVE  Saved(new, loaded) \in DepartmentBudget
  BY DEF Saved, Column, DepartmentBudget

\* The administration of the budget preserves the invariant.
LEMMA AdministrationKeepsInv ==
    ASSUME BudgetInv, NEW a \in Admins, Administer(a)
    PROVE  BudgetInv'
<1> USE BudgetParametersAssumption DEF BudgetInv
<1>1. CASE \E n \in LimitsToSet, active \in BOOLEAN : ReadBudget(a, n, active)
  <2>1. PICK n \in LimitsToSet, active \in BOOLEAN : ReadBudget(a, n, active)
    BY <1>1
  <2>2. [row EXCEPT !.limit = n, !.active = active] \in DepartmentBudget
    BY <2>1 DEF ReadBudget, BudgetTypeOK, DepartmentBudget
  <2>3. QED
    BY <2>1, <2>2 DEF ReadBudget, BudgetTypeOK, LockedRowExists, UpdatedRowExists, NoUpdate
<1>2. CASE LoadForSave(a)
  BY <1>2 DEF LoadForSave, BudgetTypeOK, LockedRowExists, UpdatedRowExists
<1>3. CASE WriteBudget(a)
  <2>1. row' \in DepartmentBudget
    BY <1>3, SavedIsRow DEF WriteBudget, BudgetTypeOK, UpdatedRowExists
  <2>2. QED
    BY <1>3, <2>1 DEF WriteBudget, BudgetTypeOK, LockedRowExists, UpdatedRowExists, NoUpdate
<1>4. QED
  BY <1>1, <1>2, <1>3 DEF Administer

LEMMA BudgetInvPreserved == BudgetInv /\ [BudgetNext]_budgetRowVars => BudgetInv'
<1> SUFFICES ASSUME BudgetInv, [BudgetNext]_budgetRowVars
             PROVE  BudgetInv'
  OBVIOUS
<1>1. CASE \E e \in Expenses : Transaction(e)
  BY <1>1, TransactionKeepsInv
<1>2. CASE \E a \in Admins : Administer(a)
  BY <1>2, AdministrationKeepsInv
<1>3. CASE \E n \in LimitsToSet : CreateBudget(n)
  BY <1>3, BudgetParametersAssumption
  DEF CreateBudget, BudgetInv, BudgetTypeOK, LockedRowExists, UpdatedRowExists, DepartmentBudget
<1>4. CASE UNCHANGED budgetRowVars
  BY <1>4 DEF budgetRowVars, BudgetInv, BudgetTypeOK, LockedRowExists, UpdatedRowExists
<1>5. QED
  BY <1>1, <1>2, <1>3, <1>4 DEF BudgetNext

THEOREM BudgetInvariance == BudgetSpec => []BudgetInv
  BY BudgetInvInitially, BudgetInvPreserved, PTL DEF BudgetSpec

\* The rows, locks and entities of budget.service.ts keep their types: no
\* committed amount is negative, and none is written where there is no row.
THEOREM BudgetTypeCorrectness == BudgetSpec => []BudgetTypeOK
  BY BudgetInvariance, PTL DEF BudgetInv

-----------------------------------------------------------------------------
(* The row lock, while budgets are edited only when nothing is in flight.  *)

\* A transaction was begun on an expense in the stage it wants.
StagesFit == \A e \in Expenses : at[e] # "idle" => stage[e] = StageFor(op[e])

\* From its first look at the row on, a transaction holds it, and a submission
\* that was let through still fits the limit.
HoldersAllowed ==
    \A e \in Expenses :
        row # NoRow /\ at[e] \in {"locked", "written"}
            => rowLock = e /\ (op[e] = "charge" => Allowed(e))

RowIsActive == row # NoRow => row.active

\* An update in flight is alone, and what it read is still there.
UpdatesAreAlone ==
    \A a \in Admins :
        /\ admin[a] # NoUpdate => Quiet /\ \A b \in Admins \ {a} : admin[b] = NoUpdate
        /\ admin[a].loaded # NoRow => admin[a].loaded = row
        /\ admin[a].entity # NoRow =>
               /\ admin[a].entity.active
               /\ admin[a].entity.committed = row.committed
               /\ admin[a].entity.reimbursed = row.reimbursed

LockInv == BudgetInv /\ StagesFit /\ HoldersAllowed /\ RowIsActive /\ UpdatesAreAlone

LEMMA LockInvInitially == BudgetInit => LockInv
  BY BudgetInvInitially
  DEF BudgetInit, LockInv, StagesFit, HoldersAllowed, RowIsActive, UpdatesAreAlone, NoUpdate

\* Every step of a transaction keeps the lock to its holder.
LEMMA TransactionKeepsLock ==
    ASSUME EditsOnlyWhenQuiet, LockInv, NEW e \in Expenses, Transaction(e)
    PROVE  LockInv'
<1> USE BudgetParametersAssumption DEF LockInv
<1>0. BudgetInv'
  BY TransactionKeepsInv
<1>1. CASE \E o \in Operations : Begin(e, o)
  <2>1. PICK o \in Operations : Begin(e, o)
    BY <1>1
  <2>2. StagesFit' /\ HoldersAllowed' /\ RowIsActive'
    BY <2>1 DEF Begin, BudgetInv, BudgetTypeOK, StagesFit, HoldersAllowed, RowIsActive, Allowed
  <2>3. UpdatesAreAlone'
    BY <2>1 DEF Begin, UpdatesAreAlone, NoUpdateInFlight, NoUpdate
  <2>4. QED
    BY <1>0, <2>2, <2>3
<1>2. CASE LockRow(e)
  <2>1. StagesFit' /\ HoldersAllowed' /\ RowIsActive'
    BY <1>2 DEF LockRow, RowFree, RowFound, BudgetInv, BudgetTypeOK, StagesFit,
                HoldersAllowed, RowIsActive, Allowed
  <2>2. UpdatesAreAlone'
    BY <1>2 DEF LockRow, UpdatesAreAlone, Quiet
  <2>3. QED
    BY <1>0, <2>1, <2>2
<1>3. CASE WriteRow(e)
  <2>1. StagesFit' /\ HoldersAllowed' /\ RowIsActive'
    BY <1>3 DEF WriteRow, RowFree, RowFound, BudgetInv, BudgetTypeOK, StagesFit,
                HoldersAllowed, RowIsActive, Allowed
  <2>2. UpdatesAreAlone'
    BY <1>3 DEF WriteRow, UpdatesAreAlone, Quiet
  <2>3. QED
    BY <1>0, <2>1, <2>2
<1>4. CASE Commit(e)
  <2>1. StagesFit'
    BY <1>4 DEF Commit, BudgetInv, BudgetTypeOK, StagesFit
  <2>2. HoldersAllowed'
    <3>1. CASE row = NoRow
      BY <1>4, <3>1 DEF Commit, BudgetInv, LockedRowExists, HoldersAllowed
    <3>2. CASE row # NoRow
      BY <1>4, <3>2 DEF Commit, BudgetInv, BudgetTypeOK, HoldersAllowed
    <3>3. QED
      BY <3>1, <3>2
  <2>3. RowIsActive'
    BY <1>4 DEF Commit, RowAfter, RowIsActive, BudgetInv, BudgetTypeOK, Operations,
                DepartmentBudget, LockedRowExists
  <2>4. UpdatesAreAlone'
    BY <1>4 DEF Commit, UpdatesAreAlone, Quiet, BudgetInv, BudgetTypeOK, NoUpdate
  <2>5. QED
    BY <1>0, <2>1, <2>2, <2>3, <2>4
<1>5. CASE Rollback(e)
  <2>1. StagesFit' /\ HoldersAllowed' /\ RowIsActive'
    BY <1>5 DEF Rollback, Unlocked, BudgetInv, BudgetTypeOK, StagesFit, HoldersAllowed,
                RowIsActive, Allowed
  <2>2. UpdatesAreAlone'
    BY <1>5 DEF Rollback, UpdatesAreAlone, Quiet
  <2>3. QED
    BY <1>0, <2>1, <2>2
<1>6. QED
  BY <1>1, <1>2, <1>3, <1>4, <1>5 DEF Transaction

\* So does the administration of the budget.
LEMMA AdministrationKeepsLock ==
    ASSUME EditsOnlyWhenQuiet, ~MayDeactivate, LockInv, NEW a \in Admins, Administer(a)
    PROVE  LockInv'
<1> USE BudgetParametersAssumption DEF LockInv
<1>0. BudgetInv'
  BY AdministrationKeepsInv
<1>1. CASE \E n \in LimitsToSet, active \in BOOLEAN : ReadBudget(a, n, active)
  <2>1. PICK n \in LimitsToSet, active \in BOOLEAN : ReadBudget(a, n, active)
    BY <1>1
  <2>2. StagesFit' /\ HoldersAllowed' /\ RowIsActive'
    BY <2>1 DEF ReadBudget, StagesFit, HoldersAllowed, RowIsActive, Allowed
  <2>3. UpdatesAreAlone'
    BY <2>1 DEF ReadBudget, UpdatesAreAlone, NoUpdateInFlight, NoUpdate, Quiet,
                BudgetInv, BudgetTypeOK, DepartmentBudget
  <2>4. QED
    BY <1>0, <2>2, <2>3
<1>2. CASE LoadForSave(a)
  <2>1. StagesFit' /\ HoldersAllowed' /\ RowIsActive'
    BY <1>2 DEF LoadForSave, StagesFit, HoldersAllowed, RowIsActive, Allowed
  <2>2. UpdatesAreAlone'
    BY <1>2 DEF LoadForSave, UpdatesAreAlone, NoUpdate, Quiet, BudgetInv, BudgetTypeOK
  <2>3. QED
    BY <1>0, <2>1, <2>2
<1>3. CASE WriteBudget(a)
  <2>1. Quiet /\ admin[a] # NoUpdate /\ admin[a].entity.active
    BY <1>3 DEF WriteBudget, UpdatesAreAlone, NoUpdate, BudgetInv, UpdatedRowExists
  <2>2. StagesFit' /\ HoldersAllowed'
    BY <1>3, <2>1 DEF WriteBudget, StagesFit, HoldersAllowed, Quiet
  <2>3. RowIsActive'
    BY <1>3, <2>1 DEF WriteBudget, Saved, Column, RowIsActive, UpdatesAreAlone,
                      BudgetInv, UpdatedRowExists
  <2>4. UpdatesAreAlone'
    BY <1>3, <2>1 DEF WriteBudget, UpdatesAreAlone, NoUpdate, Quiet, BudgetInv, BudgetTypeOK
  <2>5. QED
    BY <1>0, <2>2, <2>3, <2>4
<1>4. QED
  BY <1>1, <1>2, <1>3 DEF Administer

LEMMA LockInvPreserved ==
    ASSUME EditsOnlyWhenQuiet, ~MayDeactivate, LockInv, [BudgetNext]_budgetRowVars
    PROVE  LockInv'
<1>1. CASE \E e \in Expenses : Transaction(e)
  BY <1>1, TransactionKeepsLock
<1>2. CASE \E a \in Admins : Administer(a)
  BY <1>2, AdministrationKeepsLock
<1>3. CASE \E n \in LimitsToSet : CreateBudget(n)
  <2>1. BudgetInv'
    BY <1>3, BudgetInvPreserved DEF BudgetNext, LockInv
  <2>2. QED
    BY <1>3, <2>1 DEF CreateBudget, Quiet, LockInv, StagesFit, HoldersAllowed, RowIsActive,
       UpdatesAreAlone, BudgetInv, UpdatedRowExists, NoUpdate
<1>4. CASE UNCHANGED budgetRowVars
  BY <1>4 DEF budgetRowVars, LockInv, BudgetInv, BudgetTypeOK, LockedRowExists,
     UpdatedRowExists, StagesFit, HoldersAllowed, RowIsActive, UpdatesAreAlone, Quiet, Allowed
<1>5. QED
  BY <1>1, <1>2, <1>3, <1>4 DEF BudgetNext

-----------------------------------------------------------------------------
(* Every step is a step of the ledger.                                     *)

LEMMA LedgerInitially == BudgetInit => Ledger!LedgerInit
  BY BudgetParametersAssumption DEF BudgetInit, Ledger!LedgerInit

\* A commit is the entry its transaction makes.
LEMMA CommitIsEntry ==
    ASSUME LockInv, NEW e \in Expenses, Commit(e)
    PROVE  Ledger!Charge(e) \/ Ledger!Release(e) \/ Ledger!Pay(e)
<1> USE BudgetParametersAssumption
<1>1. /\ stage \in [Expenses -> {"open", "charged", "paid"}]
      /\ op[e] \in Operations
      /\ Cost[e] \in Nat
      /\ stage[e] = StageFor(op[e])
      /\ stage' = [stage EXCEPT ![e] = StageAfter(op[e])]
  BY DEF Commit, LockInv, BudgetInv, BudgetTypeOK, StagesFit
<1>2. CASE row = NoRow
  <2>1. row' = NoRow
    BY <1>2 DEF Commit, LockInv, BudgetInv, LockedRowExists
  <2>2. CASE op[e] = "charge"
    BY <1>1, <1>2, <2>1, <2>2 DEF Ledger!Charge, StageFor, StageAfter
  <2>3. CASE op[e] = "release"
    BY <1>1, <1>2, <2>1, <2>3 DEF Ledger!Release, StageFor, StageAfter
  <2>4. CASE op[e] = "pay"
    BY <1>1, <1>2, <2>1, <2>4 DEF Ledger!Pay, StageFor, StageAfter
  <2>5. QED
    BY <1>1, <2>2, <2>3, <2>4 DEF Operations
<1>3. CASE row # NoRow
  <2>1. /\ row \in DepartmentBudget
        /\ row' = RowAfter(op[e], Cost[e])
        /\ op[e] = "charge" => Allowed(e)
    BY <1>3 DEF Commit, LockInv, BudgetInv, BudgetTypeOK, HoldersAllowed
  <2>2. row' # NoRow /\ row.limit # NoBudget
    <3>1. row' \in DepartmentBudget
      BY <1>1, <2>1, RowAfterIsRow
    <3> QED
      BY <2>1, <3>1 DEF DepartmentBudget
  <2>3. CASE op[e] = "charge"
    <3>1. row' = [row EXCEPT !.committed = @ + Cost[e]]
      BY <2>1, <2>3 DEF RowAfter
    <3>2. QED
      BY <1>1, <1>3, <2>1, <2>2, <2>3, <3>1
      DEF Ledger!Charge, StageFor, StageAfter, Allowed, DepartmentBudget
  <2>4. CASE op[e] = "release"
    <3>1. /\ row'.limit = row.limit
          /\ row'.committed = Decreased(row.committed, Cost[e])
          /\ row'.reimbursed = row.reimbursed
      BY <2>1, <2>4 DEF RowAfter, DepartmentBudget
    <3>2. row'.committed = Ledger!AtLeastZero(row.committed - Cost[e])
      BY <1>1, <2>1, <3>1 DEF Decreased, Ledger!AtLeastZero, DepartmentBudget
    <3>3. stage[e] = "charged" /\ stage' = [stage EXCEPT ![e] = "open"]
      BY <1>1, <2>4 DEF StageFor, StageAfter
    <3>4. QED
      BY <1>3, <2>2, <3>1, <3>2, <3>3 DEF Ledger!Release
  <2>5. CASE op[e] = "pay"
    <3>1. row' = [row EXCEPT !.reimbursed = @ + Cost[e]]
      BY <2>1, <2>5 DEF RowAfter
    <3>2. QED
      BY <1>1, <1>3, <2>1, <2>2, <2>5, <3>1
      DEF Ledger!Pay, StageFor, StageAfter, DepartmentBudget
  <2>6. QED
    BY <1>1, <2>3, <2>4, <2>5 DEF Operations
<1>4. QED
  BY <1>2, <1>3

\* Every other step of a transaction changes nothing that is visible.
LEMMA OtherStepsStutter ==
    ASSUME NEW e \in Expenses, Transaction(e), ~Commit(e)
    PROVE  UNCHANGED Ledger!ledgerVars
<1>1. UNCHANGED <<stage, row>>
  BY DEF Transaction, Begin, LockRow, WriteRow, Rollback
<1>2. QED
  BY <1>1 DEF Ledger!ledgerVars

\* Creating a budget and changing its limit are what the ledger lets happen.
LEMMA AdministrationSetsLimit ==
    ASSUME LockInv, NEW a \in Admins, Administer(a)
    PROVE  Ledger!SetLimit \/ UNCHANGED Ledger!ledgerVars
<1>1. CASE WriteBudget(a)
  <2> DEFINE new == admin[a].entity
             loaded == admin[a].loaded
  <2>1. /\ row \in DepartmentBudget
        /\ new \in DepartmentBudget
        /\ loaded = row
        /\ new.committed = row.committed
        /\ new.reimbursed = row.reimbursed
    BY <1>1 DEF WriteBudget, LockInv, BudgetInv, BudgetTypeOK, UpdatedRowExists, UpdatesAreAlone
  <2>2. row' = Saved(new, loaded) /\ row' \in DepartmentBudget /\ UNCHANGED stage
    BY <1>1, <2>1, SavedIsRow DEF WriteBudget
  <2>3. /\ row # NoRow /\ row' # NoRow
        /\ row'.limit \in Nat
        /\ row'.committed = row.committed
        /\ row'.reimbursed = row.reimbursed
    BY <2>1, <2>2, BudgetParametersAssumption DEF Saved, Column, DepartmentBudget
  <2>4. QED
    BY <2>2, <2>3 DEF Ledger!SetLimit
<1>2. CASE ~WriteBudget(a)
  BY <1>2 DEF Administer, ReadBudget, LoadForSave, Ledger!ledgerVars
<1>3. QED
  BY <1>1, <1>2

LEMMA BudgetStepIsLedgerStep ==
    ASSUME LockInv, [BudgetNext]_budgetRowVars
    PROVE  [Ledger!LedgerNext]_(Ledger!ledgerVars)
<1>1. CASE \E e \in Expenses : Transaction(e)
  BY <1>1, CommitIsEntry, OtherStepsStutter DEF Ledger!LedgerNext
<1>2. CASE \E a \in Admins : Administer(a)
  BY <1>2, AdministrationSetsLimit DEF Ledger!LedgerNext
<1>3. CASE \E n \in LimitsToSet : CreateBudget(n)
  <2>1. PICK n \in LimitsToSet : CreateBudget(n)
    BY <1>3
  <2> DEFINE new == [limit |-> n, active |-> TRUE, committed |-> 0, reimbursed |-> 0]
  <2>0. new \in DepartmentBudget
    BY BudgetParametersAssumption DEF DepartmentBudget
  <2>2. /\ row = NoRow /\ row' # NoRow /\ UNCHANGED stage
        /\ row'.limit = n /\ row'.committed = 0 /\ row'.reimbursed = 0
    BY <2>0, <2>1, BudgetParametersAssumption DEF CreateBudget
  <2>3. Ledger!SetLimit
    BY <2>2, BudgetParametersAssumption DEF Ledger!SetLimit
  <2>4. QED
    BY <2>3 DEF Ledger!LedgerNext
<1>4. CASE UNCHANGED budgetRowVars
  BY <1>4 DEF budgetRowVars, Ledger!ledgerVars
<1>5. QED
  BY <1>1, <1>2, <1>3, <1>4 DEF BudgetNext

\* The transactions that lock the budget row (budget-committed.query.ts) are a
\* ledger of indivisible entries, provided that budgets are created before they
\* are charged, updated while no transaction is in flight and never switched off.
THEOREM BudgetImplementsLedger ==
    ASSUME EditsOnlyWhenQuiet, ~MayDeactivate
    PROVE  BudgetSpec => ImplementsLedger
<1>1. BudgetInit => LockInv /\ Ledger!LedgerInit
  BY LockInvInitially, LedgerInitially
<1>2. LockInv /\ [BudgetNext]_budgetRowVars => LockInv'
  BY LockInvPreserved
<1>3. LockInv /\ [BudgetNext]_budgetRowVars => [Ledger!LedgerNext]_(Ledger!ledgerVars)
  BY BudgetStepIsLedgerStep
<1>4. QED
  BY <1>1, <1>2, <1>3, PTL DEF BudgetSpec, ImplementsLedger, Ledger!LedgerSpec
-----------------------------------------------------------------------------
(* The committed amount and the spend of the expenses.                     *)

InBooks(st) == {e \in Expenses : st[e] # "open"}

\* What a change of one stage adds to the spend, or takes from it.
LEMMA StageChangesSpend ==
    ASSUME NEW st, NEW after, NEW e \in Expenses,
           \A x \in Expenses \ {e} : after[x] = st[x]
    PROVE  /\ SumOf(Cost, InBooks(st)) \in Nat
           /\ st[e] = "open" /\ after[e] # "open" =>
                SumOf(Cost, InBooks(after)) = SumOf(Cost, InBooks(st)) + Cost[e]
           /\ st[e] # "open" /\ after[e] = "open" =>
                SumOf(Cost, InBooks(st)) = SumOf(Cost, InBooks(after)) + Cost[e]
           /\ (st[e] = "open" <=> after[e] = "open") =>
                SumOf(Cost, InBooks(after)) = SumOf(Cost, InBooks(st))
<1>0. /\ IsFiniteSet(InBooks(st)) /\ IsFiniteSet(InBooks(after))
      /\ \A x \in Expenses : Cost[x] \in Nat /\ Cost[x] \in Int
  BY BudgetParametersAssumption, FiniteExpensesAssumption, FS_Subset DEF InBooks
<1>1. SumOf(Cost, InBooks(st)) \in Nat
  BY <1>0, SumType DEF InBooks
<1>2. ASSUME st[e] = "open", after[e] # "open"
      PROVE  SumOf(Cost, InBooks(after)) = SumOf(Cost, InBooks(st)) + Cost[e]
  <2>1. e \notin InBooks(st) /\ InBooks(after) = InBooks(st) \cup {e}
        /\ \A y \in InBooks(st) \cup {e} : Cost[y] \in Int
    BY <1>0, <1>2 DEF InBooks
  <2> HIDE DEF InBooks
  <2> QED
    BY <1>0, <2>1, SumAdd
<1>3. ASSUME st[e] # "open", after[e] = "open"
      PROVE  SumOf(Cost, InBooks(st)) = SumOf(Cost, InBooks(after)) + Cost[e]
  <2>1. e \notin InBooks(after) /\ InBooks(st) = InBooks(after) \cup {e}
        /\ \A y \in InBooks(after) \cup {e} : Cost[y] \in Int
    BY <1>0, <1>3 DEF InBooks
  <2> HIDE DEF InBooks
  <2> QED
    BY <1>0, <2>1, SumAdd
<1>4. ASSUME st[e] = "open" <=> after[e] = "open" PROVE InBooks(after) = InBooks(st)
  BY <1>4 DEF InBooks
<1> QED
  BY <1>1, <1>2, <1>3, <1>4

\* An entry of the ledger moves the committed amount by what it moves the spend by:
\* a release finds at least its own cost in the row.
LEMMA EntryKeepsSpend ==
    ASSUME LockInv, row # NoRow, row' # NoRow, row.committed = SumOf(Cost, InBooks(stage)),
           NEW e \in Expenses, Ledger!Charge(e) \/ Ledger!Release(e) \/ Ledger!Pay(e)
    PROVE  row'.committed = SumOf(Cost, InBooks(stage'))
<1>1. /\ row.limit # NoBudget /\ Cost[e] \in Nat
      /\ stage \in [Expenses -> {"open", "charged", "paid"}]
  BY BudgetParametersAssumption DEF LockInv, BudgetInv, BudgetTypeOK, DepartmentBudget
<1>2. \A x \in Expenses \ {e} : stage'[x] = stage[x]
  BY <1>1 DEF Ledger!Charge, Ledger!Release, Ledger!Pay
<1>3. /\ SumOf(Cost, InBooks(stage)) \in Nat
      /\ stage[e] = "open" /\ stage'[e] # "open" =>
           SumOf(Cost, InBooks(stage')) = SumOf(Cost, InBooks(stage)) + Cost[e]
      /\ stage[e] # "open" /\ stage'[e] = "open" =>
           SumOf(Cost, InBooks(stage)) = SumOf(Cost, InBooks(stage')) + Cost[e]
      /\ (stage[e] = "open" <=> stage'[e] = "open") =>
           SumOf(Cost, InBooks(stage')) = SumOf(Cost, InBooks(stage))
  BY <1>2, StageChangesSpend
<1>4. SumOf(Cost, InBooks(stage')) \in Nat
  BY <1>2, StageChangesSpend
<1>5. CASE Ledger!Charge(e)
  <2>1. stage[e] = "open" /\ stage'[e] = "charged" /\ row'.committed = row.committed + Cost[e]
    BY <1>1, <1>5 DEF Ledger!Charge
  <2> QED
    BY <1>3, <2>1
<1>6. CASE Ledger!Release(e)
  <2>1. /\ stage[e] = "charged" /\ stage'[e] = "open"
        /\ row'.committed = Ledger!AtLeastZero(row.committed - Cost[e])
    BY <1>1, <1>6 DEF Ledger!Release
  <2> QED
    BY <1>1, <1>3, <1>4, <2>1 DEF Ledger!AtLeastZero
<1>7. CASE Ledger!Pay(e)
  <2>1. stage[e] = "charged" /\ stage'[e] = "paid" /\ row'.committed = row.committed
    BY <1>1, <1>7 DEF Ledger!Pay
  <2> QED
    BY <1>3, <2>1
<1> QED
  BY <1>5, <1>6, <1>7

\* The spend, as the recount takes it, before and after a step.
LEMMA SpendIsSum ==
    Spend = SumOf(Cost, InBooks(stage)) /\ Spend' = SumOf(Cost, InBooks(stage'))
  BY DEF Spend, SumOf, InBooks, MapThenSumSet, MapThenFoldSet

LEMMA RowKeepsMatching ==
    ASSUME EditsOnlyWhenQuiet, LockInv, RowMatchesSpend, [BudgetNext]_budgetRowVars
    PROVE  RowMatchesSpend'
<1> SUFFICES ASSUME row' # NoRow PROVE row'.committed = SumOf(Cost, InBooks(stage'))
  BY SpendIsSum DEF RowMatchesSpend
<1>0. row # NoRow => row.committed = SumOf(Cost, InBooks(stage))
  BY SpendIsSum DEF RowMatchesSpend
<1>1. ASSUME NEW e \in Expenses, Commit(e) PROVE row'.committed = SumOf(Cost, InBooks(stage'))
  <2>1. row # NoRow
    BY <1>1, BudgetParametersAssumption DEF Commit, LockInv, BudgetInv, LockedRowExists
  <2> QED
    BY <1>0, <1>1, <2>1, CommitIsEntry, EntryKeepsSpend
<1>2. ASSUME NEW e \in Expenses, Transaction(e), ~Commit(e) PROVE UNCHANGED <<stage, row>>
  BY <1>2 DEF Transaction, Begin, LockRow, WriteRow, Rollback
<1>3. ASSUME NEW a \in Admins, Administer(a)
      PROVE  UNCHANGED stage /\ row # NoRow /\ row'.committed = row.committed
  <2>1. CASE WriteBudget(a)
    <3>1. /\ row \in DepartmentBudget /\ admin[a].entity \in DepartmentBudget
          /\ admin[a].loaded = row /\ admin[a].entity.committed = row.committed
      BY <2>1 DEF WriteBudget, LockInv, BudgetInv, BudgetTypeOK, UpdatedRowExists, UpdatesAreAlone
    <3> QED
      BY <2>1, <3>1, BudgetParametersAssumption DEF WriteBudget, Saved, Column, DepartmentBudget
  <2>2. CASE ~WriteBudget(a)
    BY <1>3, <2>2 DEF Administer, ReadBudget, LoadForSave, LockInv, BudgetInv, UpdatedRowExists
  <2> QED
    BY <2>1, <2>2
<1>4. ASSUME NEW n \in LimitsToSet, CreateBudget(n)
      PROVE  row'.committed = SumOf(Cost, InBooks(stage'))
  <2>1. row'.committed = 0 /\ InBooks(stage') = {}
    BY <1>4 DEF CreateBudget, NothingCharged, InBooks
  <2> QED
    BY <2>1, SumEmpty
<1>5. CASE UNCHANGED budgetRowVars
  BY <1>0, <1>5 DEF budgetRowVars
<1> QED
  BY <1>0, <1>1, <1>2, <1>3, <1>4, <1>5 DEF BudgetNext

\* Through every interleaving of the statements of its transactions and every
\* rollback, the committed amount of the row is the spend of its expenses, provided
\* that budgets are created before they are charged, updated while no transaction
\* is in flight and never switched off (budget-committed.query.ts).
THEOREM RowIsTheSpend ==
    ASSUME EditsOnlyWhenQuiet, ~MayDeactivate
    PROVE  BudgetSpec => []RowMatchesSpend
<1>1. BudgetInit => LockInv /\ RowMatchesSpend
  BY LockInvInitially DEF BudgetInit, RowMatchesSpend
<1>2. LockInv /\ [BudgetNext]_budgetRowVars => LockInv'
  BY LockInvPreserved
<1>3. LockInv /\ RowMatchesSpend /\ [BudgetNext]_budgetRowVars => RowMatchesSpend'
  BY RowKeepsMatching
<1> QED
  BY <1>1, <1>2, <1>3, PTL DEF BudgetSpec
=============================================================================
