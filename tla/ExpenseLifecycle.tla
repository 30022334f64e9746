------------------------- MODULE ExpenseLifecycle -------------------------
(***************************************************************************)
(* The life of an expense: draft, submission, staged approval, rejection   *)
(* and reopening, reimbursement; the department budget row every step of   *)
(* it keeps up to date; and the administration of approval levels and      *)
(* department managers that runs beside it.                                *)
(*                                                                         *)
(* A handler that runs in one database transaction holding the expense row *)
(* FOR UPDATE is one action.  What a handler does before its transaction   *)
(* is an action of its own whenever the transaction relies on it: the      *)
(* checks of a submission, and the pending-approvals count that precedes   *)
(* the removal of a department manager.                                    *)
(***************************************************************************)
EXTENDS ApprovalRouting

CONSTANTS
    Expenses,           \* expense rows that may be created
    Levels,             \* approval level rows that may be created
    Users, Depts,
    DeptOf,             \* the department each user belongs to
    Clients,            \* submissions that may be in flight at once
    Amounts,            \* amounts an expense may have, in minor units
    CompliantAmounts,   \* amounts no BLOCK policy objects to
    Years, YearOf,      \* budget years, and the budget year of an instant
    Limits,             \* amount_limit of each <<department, year>>, or NoBudget
    LevelRows,          \* rows an administrator may write in approval_levels
    InitialLevels,      \* the approval levels a run starts with
    BlockSubmitOnOverspend, \* BUDGET_BLOCK_SUBMIT_ON_OVERSPEND
    AdminEdits,         \* what administrators change: "levels", "managers", "departments"
    EditsOnlyWhenIdle,  \* administrators wait until nothing is pending
    MaxInstant,         \* bound: instants at which a submission can be stamped
    NoUser, NoBudget, Idle

\* What every run and every proof assumes of the parameters.
ASSUME ParametersAssumption ==
    /\ DeptOf \in [Users -> Depts]
    /\ Amounts \subseteq Nat \ {0}
    /\ CompliantAmounts \subseteq Amounts
    /\ MaxInstant \in Nat
    /\ YearOf \in [1..MaxInstant -> Years]
    /\ Limits \in [Depts \X Years -> Nat \cup {NoBudget}]
    /\ LevelRows \subseteq ApprovalLevel
    /\ InitialLevels \in [Levels -> LevelRows \cup {NoLevel}]
    /\ BlockSubmitOnOverspend \in BOOLEAN
    /\ EditsOnlyWhenIdle \in BOOLEAN
    /\ NoUser \notin Users
    /\ NoBudget \notin Nat
    /\ NoLevel \notin ApprovalLevel
    /\ Idle \notin [expense : Expenses, stamp : 1..MaxInstant]

\* A table holds finitely many rows.
ASSUME ExpensesAssumption == IsFiniteSet(Expenses)

\* approval_levels.level is UNIQUE.
ASSUME InitialLevelsAssumption ==
    \A k, l \in Levels :
        InitialLevels[k] # NoLevel /\ InitialLevels[l] # NoLevel /\ k # l
            => InitialLevels[k].level # InitialLevels[l].level

VARIABLES
    status, owner, amount,
    submittedAt,    \* submitted_at as the database holds it, 0 for NULL
    decisions,      \* expense_approvals: [expense -> [level -> decision]]
    announced,      \* the last status event the expense appended to the outbox
    submitKeys,     \* outbox idempotency keys made from a submission instant
    levels, managerOf, deptActive,
    clearing,       \* departments whose manager removal passed its check
    committed, reimbursed,  \* the amounts of each budget row
    requests,       \* submissions between their checks and their transaction
    clock,          \* the last instant handed out
    toldApproved    \* expenses whose approver was told they were marked approved

expenseVars == <<status, owner, amount, submittedAt, decisions, announced, submitKeys>>
adminVars == <<levels, managerOf, deptActive, clearing>>
budgetVars == <<committed, reimbursed>>
vars == <<expenseVars, adminVars, budgetVars, requests, clock, toldApproved>>

Statuses == {"ABSENT", "DRAFT", "SUBMITTED", "UNDER_REVIEW", "APPROVED",
             "REJECTED", "REIMBURSED", "DELETED"}
Events == {"none", "submitted", "pending_finance", "approved", "rejected",
           "reopened", "reimbursed"}
KeyedEvents == {"submitted", "pending_finance", "approved", "budget_committed"}
Instants == 1..MaxInstant
Request == [expense : Expenses, stamp : Instants]
BudgetKeys == Depts \X Years

TypeOK ==
    /\ status \in [Expenses -> Statuses]
    /\ owner \in [Expenses -> Users \cup {NoUser}]
    /\ \A e \in Expenses : status[e] # "ABSENT" => owner[e] \in Users
    /\ amount \in [Expenses -> Amounts \cup {0}]
    /\ submittedAt \in [Expenses -> Instants \cup {0}]
    /\ decisions \in [Expenses -> [Levels -> Decisions]]
    /\ announced \in [Expenses -> Events]
    /\ submitKeys \subseteq KeyedEvents \X Expenses \X Instants
    /\ levels \in [Levels -> LevelRows \cup {NoLevel}]
    /\ managerOf \in [Depts -> Users \cup {NoUser}]
    /\ deptActive \in [Depts -> BOOLEAN]
    /\ clearing \subseteq Depts
    /\ committed \in [BudgetKeys -> Nat]
    /\ reimbursed \in [BudgetKeys -> Nat]
    /\ requests \in [Clients -> Request \cup {Idle}]
    /\ clock \in 0..MaxInstant
    /\ toldApproved \subseteq Expenses

Init ==
    /\ status = [e \in Expenses |-> "ABSENT"]
    /\ owner = [e \in Expenses |-> NoUser]
    /\ amount = [e \in Expenses |-> 0]
    /\ submittedAt = [e \in Expenses |-> 0]
    /\ decisions = [e \in Expenses |-> [l \in Levels |-> "NONE"]]
    /\ announced = [e \in Expenses |-> "none"]
    /\ submitKeys = {}
    /\ levels = InitialLevels
    /\ managerOf \in [Depts -> Users \cup {NoUser}]
    /\ \A d \in Depts : managerOf[d] # NoUser => DeptOf[managerOf[d]] = d
    /\ deptActive = [d \in Depts |-> TRUE]
    /\ clearing = {}
    /\ committed = [k \in BudgetKeys |-> 0]
    /\ reimbursed = [k \in BudgetKeys |-> 0]
    /\ requests = [c \in Clients |-> Idle]
    /\ clock = 0
    /\ toldApproved = {}

-----------------------------------------------------------------------------
(* The department budget.                                                  *)

ExpenseDept(e) == DeptOf[owner[e]]

CountsTowardCommittedBudget(s) == s \in {"SUBMITTED", "UNDER_REVIEW", "APPROVED"}

\* toExpenseBudgetSnapshot
Snapshot(e) ==
    [department |-> ExpenseDept(e), submittedAt |-> submittedAt[e],
     status |-> status[e], amount |-> amount[e]]

\* What a snapshot contributes to the committed amount of a budget row.
Contribution(snap, key) ==
    IF /\ snap.submittedAt # 0
       /\ CountsTowardCommittedBudget(snap.status)
       /\ key = <<snap.department, YearOf[snap.submittedAt]>>
    THEN snap.amount ELSE 0

\* A payment treated like any other departure from the pipeline.
IsReimbursementTransitionNever(before, after) == FALSE

IsReimbursementTransition(before, after) ==
    before.status = "APPROVED" /\ after.status = "REIMBURSED"

HasBudget(key) == Limits[key] # NoBudget

AtLeastZero(n) == IF n < 0 THEN 0 ELSE n

\* Spend that left the pipeline but was never given back.
CommittedDeltaOneSided(before, after, key) == Contribution(after, key)

CommittedDelta(before, after, key) ==
    Contribution(after, key) - Contribution(before, key)

\* syncCommittedAmountForExpenseTransition, in the transaction of the caller.
SyncBudget(before, after) ==
    IF IsReimbursementTransition(before, after)
    THEN /\ reimbursed' = [k \in BudgetKeys |->
                IF HasBudget(k) /\ k = <<after.department, YearOf[after.submittedAt]>>
                THEN reimbursed[k] + after.amount ELSE reimbursed[k]]
         /\ UNCHANGED committed
    ELSE /\ committed' = [k \in BudgetKeys |->
                IF HasBudget(k)
                THEN AtLeastZero(committed[k] + CommittedDelta(before, after, k))
                ELSE committed[k]]
         /\ UNCHANGED reimbursed

\* The overspend test with the expense's own amount left out.
BudgetAllowsSubmitStale(key, amt) ==
    BlockSubmitOnOverspend /\ HasBudget(key) => committed[key] <= Limits[key]

\* evaluateExpenseSubmitInTransaction: the row is locked before it is read.
BudgetAllowsSubmit(key, amt) ==
    BlockSubmitOnOverspend /\ HasBudget(key) => committed[key] + amt <= Limits[key]

-----------------------------------------------------------------------------
(* Drafts.                                                                 *)

Create(e, u, a) ==
    /\ status[e] = "ABSENT"
    /\ status' = [status EXCEPT ![e] = "DRAFT"]
    /\ owner' = [owner EXCEPT ![e] = u]
    /\ amount' = [amount EXCEPT ![e] = a]
    /\ UNCHANGED <<submittedAt, decisions, announced, submitKeys, adminVars,
                   budgetVars, requests, clock, toldApproved>>

UpdateDraft(e, a) ==
    /\ status[e] = "DRAFT"
    /\ amount' = [amount EXCEPT ![e] = a]
    /\ SyncBudget(Snapshot(e), [Snapshot(e) EXCEPT !.amount = a])
    /\ UNCHANGED <<status, owner, submittedAt, decisions, announced, submitKeys,
                   adminVars, requests, clock, toldApproved>>

Remove(e) ==
    /\ status[e] = "DRAFT"
    /\ status' = [status EXCEPT ![e] = "DELETED"]
    /\ UNCHANGED <<owner, amount, submittedAt, decisions, announced, submitKeys,
                   adminVars, budgetVars, requests, clock, toldApproved>>

-----------------------------------------------------------------------------
(* Submission.                                                             *)

\* The row's own instant with no fallback for a first submission.
SubmissionInstantNoFallback(e) == submittedAt[e]

\* draft.submittedAt ?? new Date()
SubmissionInstant(e) == IF submittedAt[e] # 0 THEN submittedAt[e] ELSE clock + 1

\* The checks submit makes before its transaction: the row is a draft, and
\* assertCompliant finds no blocking policy violation for its amount.  The
\* instant of the submission is chosen here.
SubmitCheck(c, e) ==
    /\ requests[c] = Idle
    /\ status[e] = "DRAFT"
    /\ amount[e] \in CompliantAmounts
    /\ LET at == SubmissionInstant(e)
       IN  /\ at <= MaxInstant
           /\ clock' = IF at > clock THEN at ELSE clock
           /\ requests' = [requests EXCEPT ![c] = [expense |-> e, stamp |-> at]]
    /\ UNCHANGED <<expenseVars, adminVars, budgetVars, toldApproved>>

\* submit reads the manager through the active department only.
SubmitManager(d) == IF deptActive[d] THEN managerOf[d] ELSE NoUser

SubmitSkipsManager(e) == SubmitManager(ExpenseDept(e)) = owner[e]

SubmitRequiredLevels(e) == GetRequiredLevels(levels, amount[e], SubmitSkipsManager(e))

\* Some active level is a department-manager level, whatever the amount.
RequiresDepartmentManager ==
    \E l \in Levels :
        /\ levels[l] # NoLevel
        /\ levels[l].isActive
        /\ levels[l].approverType = "DEPARTMENT_MANAGER"

\* The row is trusted to be the draft that was checked before the lock.
IsDraftUnderLockTrusted(e) == status[e] # "DELETED"

\* assertDraftStatus on the locked row.
IsDraftUnderLock(e) == status[e] = "DRAFT"

\* Everything the transaction of submit checks before it writes.
SubmitPasses(e, key) ==
    /\ IsDraftUnderLock(e)
    /\ RequiresDepartmentManager /\ ~SubmitSkipsManager(e)
            => SubmitManager(ExpenseDept(e)) # NoUser
    /\ BudgetAllowsSubmit(key, amount[e])

\* The idempotency keys of the events a submission appends.
SubmitEventKeys(e, next, stamp, key) ==
    ( IF next = "APPROVED" THEN {"approved"}
      ELSE IF next = "UNDER_REVIEW" THEN {"submitted", "pending_finance"}
      ELSE {"submitted"} ) \X {e} \X {stamp}
    \cup (IF HasBudget(key) THEN {"budget_committed"} ELSE {}) \X {e} \X {stamp}

\* outbox_events.idempotency_key is UNIQUE: an append of a known key fails and
\* takes the whole transaction with it.
OutboxAccepts(keys) == keys \cap submitKeys = {}

\* The finance team is told nothing of a chain that starts with it.
EventOfStatusWithoutFinance(s) ==
    IF s \in PendingStatuses THEN "submitted" ELSE "approved"

EventOfStatus(s) ==
    CASE s = "SUBMITTED" -> "submitted"
      [] s = "UNDER_REVIEW" -> "pending_finance"
      [] OTHER -> "approved"

\* The transaction of submit.
SubmitCommit(c) ==
    /\ requests[c] # Idle
    /\ LET e == requests[c].expense
           stamp == requests[c].stamp
           key == <<ExpenseDept(e), YearOf[stamp]>>
           next == ResolveInitialSubmitStatus(levels, SubmitRequiredLevels(e))
           keys == SubmitEventKeys(e, next, stamp, key)
       IN  /\ SubmitPasses(e, key)
           /\ OutboxAccepts(keys)
           /\ status' = [status EXCEPT ![e] = next]
           /\ submittedAt' = [submittedAt EXCEPT ![e] = stamp]
           /\ SyncBudget(Snapshot(e),
                         [Snapshot(e) EXCEPT !.status = next, !.submittedAt = stamp])
           /\ submitKeys' = submitKeys \cup keys
           /\ announced' = [announced EXCEPT ![e] = EventOfStatus(next)]
    /\ requests' = [requests EXCEPT ![c] = Idle]
    /\ UNCHANGED <<owner, amount, decisions, adminVars, clock, toldApproved>>

\* A check of the transaction fails, or a unique key does: it rolls back.
SubmitRollback(c) ==
    /\ requests[c] # Idle
    /\ LET e == requests[c].expense
           stamp == requests[c].stamp
           key == <<ExpenseDept(e), YearOf[stamp]>>
           next == ResolveInitialSubmitStatus(levels, SubmitRequiredLevels(e))
       IN  ~ /\ SubmitPasses(e, key)
             /\ OutboxAccepts(SubmitEventKeys(e, next, stamp, key))
    /\ requests' = [requests EXCEPT ![c] = Idle]
    /\ UNCHANGED <<expenseVars, adminVars, budgetVars, clock, toldApproved>>

-----------------------------------------------------------------------------
(* Decisions.                                                              *)

\* shouldSkipDepartmentManagerStage, on the department as it is now.
SkipsManagerStage(e) == managerOf[ExpenseDept(e)] = owner[e]

RequiredLevels(e) == GetRequiredLevels(levels, amount[e], SkipsManagerStage(e))

ActiveStage(e, l) ==
    /\ status[e] \in PendingStatuses
    /\ IsActiveStage(levels, RequiredLevels(e), decisions[e], l)

\* Someone may act on the stage: the manager of the active department, or a
\* delegate of theirs; for a finance stage, a holder of the global approval
\* permission, who always exists.
SomeoneMayAct(e, l) ==
    levels[l].approverType = "DEPARTMENT_MANAGER"
        => /\ deptActive[ExpenseDept(e)]
           /\ managerOf[ExpenseDept(e)] # NoUser

\* What approve and reject require before they record a decision.
ReadyForDecision(e, l) ==
    /\ ActiveStage(e, l)
    /\ StatusFitsStage(levels, RequiredLevels(e), l, status[e])
    /\ SomeoneMayAct(e, l)

RecordDecision(e, l, d) == [decisions EXCEPT ![e][l] = d]

Approve(e, l) ==
    /\ ReadyForDecision(e, l)
    /\ decisions' = RecordDecision(e, l, "APPROVED")
    /\ LET next == ResolveStatusAfterLevelApproval(levels, RequiredLevels(e), l)
       IN  /\ status' = [status EXCEPT ![e] = next]
           /\ SyncBudget(Snapshot(e), [Snapshot(e) EXCEPT !.status = next])
           /\ announced' = [announced EXCEPT ![e] = EventOfStatus(next)]
    /\ UNCHANGED <<owner, amount, submittedAt, submitKeys, adminVars, requests,
                   clock, toldApproved>>

Reject(e, l) ==
    /\ ReadyForDecision(e, l)
    /\ decisions' = RecordDecision(e, l, "REJECTED")
    /\ status' = [status EXCEPT ![e] = "REJECTED"]
    /\ SyncBudget(Snapshot(e), [Snapshot(e) EXCEPT !.status = "REJECTED"])
    /\ announced' = [announced EXCEPT ![e] = "rejected"]
    /\ UNCHANGED <<owner, amount, submittedAt, submitKeys, adminVars, requests,
                   clock, toldApproved>>

\* approve or reject on an expense that needs no level any more: the expense
\* is saved as APPROVED, then a ConflictException that says so leaves the
\* transaction, which undoes the save.
HealWithNoApprovalChain(e) ==
    /\ status[e] \in PendingStatuses
    /\ RequiredLevels(e) = {}
    /\ toldApproved' = toldApproved \cup {e}
    /\ UNCHANGED <<expenseVars, adminVars, budgetVars, requests, clock>>

\* The decisions of a rejected expense survive its reopening.
ClearedDecisionsKept(e) == decisions

ClearedDecisions(e) == [decisions EXCEPT ![e] = [l \in Levels |-> "NONE"]]

\* reopenRejected assigns undefined to submittedAt, rejectedAt and approvedAt;
\* TypeORM's save skips undefined properties, so submitted_at stays.
Reopen(e) ==
    /\ status[e] = "REJECTED"
    /\ status' = [status EXCEPT ![e] = "DRAFT"]
    /\ decisions' = ClearedDecisions(e)
    /\ announced' = [announced EXCEPT ![e] = "reopened"]
    /\ UNCHANGED <<owner, amount, submittedAt, submitKeys, adminVars, budgetVars,
                   requests, clock, toldApproved>>

Reimburse(e) ==
    /\ status[e] = "APPROVED"
    /\ status' = [status EXCEPT ![e] = "REIMBURSED"]
    /\ SyncBudget(Snapshot(e), [Snapshot(e) EXCEPT !.status = "REIMBURSED"])
    /\ announced' = [announced EXCEPT ![e] = "reimbursed"]
    /\ UNCHANGED <<owner, amount, submittedAt, decisions, submitKeys, adminVars,
                   requests, clock, toldApproved>>

-----------------------------------------------------------------------------
(* Administration.                                                         *)

NothingPending == \A e \in Expenses : status[e] \notin PendingStatuses

MayEdit(what) == what \in AdminEdits /\ (EditsOnlyWhenIdle => NothingPending)

\* Two levels are allowed to share a place in the chain.
LevelAvailableUnchecked(l, row) == TRUE

\* assertLevelAvailable, backed by the unique index on approval_levels.level.
LevelAvailable(l, row) ==
    \A k \in Levels \ {l} : levels[k] # NoLevel => levels[k].level # row.level

LevelUnchangedElsewhere ==
    UNCHANGED <<expenseVars, managerOf, deptActive, clearing, budgetVars,
                requests, clock, toldApproved>>

CreateLevel(l, row) ==
    /\ MayEdit("levels")
    /\ levels[l] = NoLevel
    /\ LevelAvailable(l, row)
    /\ levels' = [levels EXCEPT ![l] = row]
    /\ LevelUnchangedElsewhere

UpdateLevel(l, row) ==
    /\ MayEdit("levels")
    /\ levels[l] # NoLevel
    /\ LevelAvailable(l, row)
    /\ levels' = [levels EXCEPT ![l] = row]
    /\ LevelUnchangedElsewhere

\* Removal of a level whatever was decided at it.
LevelNotInUseUnchecked(l) == TRUE

LevelNotInUse(l) == \A e \in Expenses : decisions[e][l] = "NONE"

RemoveLevel(l) ==
    /\ MayEdit("levels")
    /\ levels[l] # NoLevel
    /\ LevelNotInUse(l)
    /\ levels' = [levels EXCEPT ![l] = NoLevel]
    /\ LevelUnchangedElsewhere

AssignManager(d, u) ==
    /\ MayEdit("managers")
    /\ DeptOf[u] = d
    /\ managerOf[d] # u
    /\ managerOf' = [managerOf EXCEPT ![d] = u]
    /\ UNCHANGED <<expenseVars, levels, deptActive, clearing, budgetVars,
                   requests, clock, toldApproved>>

\* countPendingApprovals
PendingIn(d) == {e \in Expenses : status[e] \in PendingStatuses /\ ExpenseDept(e) = d}

\* assertManagerCanBeCleared counts the pending approvals of the department...
ClearManagerCheck(d) ==
    /\ MayEdit("managers")
    /\ managerOf[d] # NoUser
    /\ PendingIn(d) = {}
    /\ clearing' = clearing \cup {d}
    /\ UNCHANGED <<expenseVars, levels, managerOf, deptActive, budgetVars,
                   requests, clock, toldApproved>>

\* ...and the transaction that removes the manager runs afterwards.
ClearManagerCommit(d) ==
    /\ d \in clearing
    /\ EditsOnlyWhenIdle => NothingPending
    /\ managerOf' = [managerOf EXCEPT ![d] = NoUser]
    /\ clearing' = clearing \ {d}
    /\ UNCHANGED <<expenseVars, levels, deptActive, budgetVars, requests, clock,
                   toldApproved>>

SetDepartmentActive(d, active) ==
    /\ MayEdit("departments")
    /\ deptActive[d] # active
    /\ deptActive' = [deptActive EXCEPT ![d] = active]
    /\ UNCHANGED <<expenseVars, levels, managerOf, clearing, budgetVars,
                   requests, clock, toldApproved>>

-----------------------------------------------------------------------------
Draft(e) ==
    \/ \E u \in Users, a \in Amounts : Create(e, u, a)
    \/ \E a \in Amounts : UpdateDraft(e, a)
    \/ Remove(e)

Decide(e) ==
    \/ \E l \in Levels : Approve(e, l) \/ Reject(e, l)
    \/ HealWithNoApprovalChain(e)
    \/ Reopen(e)
    \/ Reimburse(e)

Submit(c) ==
    \/ \E e \in Expenses : SubmitCheck(c, e)
    \/ SubmitCommit(c)
    \/ SubmitRollback(c)

AdministerLevel(l) ==
    \/ \E row \in LevelRows : CreateLevel(l, row) \/ UpdateLevel(l, row)
    \/ RemoveLevel(l)

AdministerDepartment(d) ==
    \/ \E u \in Users : AssignManager(d, u)
    \/ ClearManagerCheck(d)
    \/ ClearManagerCommit(d)
    \/ \E active \in BOOLEAN : SetDepartmentActive(d, active)

Next ==
    \/ \E e \in Expenses : Draft(e) \/ Decide(e)
    \/ \E c \in Clients : Submit(c)
    \/ \E l \in Levels : AdministerLevel(l)
    \/ \E d \in Depts : AdministerDepartment(d)

Spec == Init /\ [][Next]_vars
=============================================================================
