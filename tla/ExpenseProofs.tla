--------------------------- MODULE ExpenseProofs ---------------------------
(***************************************************************************)
(* Theorems about the expense workflow, for every value of the parameters. *)
(***************************************************************************)
EXTENDS ExpenseProperties, SumTheorems

BudgetSnapshot == [department : Depts, submittedAt : Instants \cup {0},
                   status : Statuses, amount : Nat]

\* The budget amounts stay natural numbers through every transition.
LEMMA SyncBudgetType ==
    ASSUME TypeOK, NEW before \in BudgetSnapshot, NEW after \in BudgetSnapshot,
           SyncBudget(before, after)
    PROVE  /\ committed' \in [BudgetKeys -> Nat]
           /\ reimbursed' \in [BudgetKeys -> Nat]
<1>1. committed \in [BudgetKeys -> Nat] /\ reimbursed \in [BudgetKeys -> Nat]
  BY DEF TypeOK
<1>2. \A k : Contribution(before, k) \in Nat /\ Contribution(after, k) \in Nat
  BY DEF Contribution, BudgetSnapshot
<1>3. after.amount \in Nat
  BY DEF BudgetSnapshot
<1>4. CASE IsReimbursementTransition(before, after)
  <2>1. committed' = committed
    BY <1>4 DEF SyncBudget
  <2>2. reimbursed' = [k \in BudgetKeys |->
                IF HasBudget(k) /\ k = <<after.department, YearOf[after.submittedAt]>>
                THEN reimbursed[k] + after.amount ELSE reimbursed[k]]
    BY <1>4 DEF SyncBudget
  <2>3. QED
    BY <1>1, <1>3, <2>1, <2>2
<1>5. CASE ~IsReimbursementTransition(before, after)
  <2>1. reimbursed' = reimbursed
    BY <1>5 DEF SyncBudget
  <2>2. committed' = [k \in BudgetKeys |->
                IF HasBudget(k)
                THEN AtLeastZero(committed[k] + CommittedDelta(before, after, k))
                ELSE committed[k]]
    BY <1>5 DEF SyncBudget
  <2>3. \A k \in BudgetKeys : AtLeastZero(committed[k] + CommittedDelta(before, after, k)) \in Nat
    BY <1>1, <1>2 DEF AtLeastZero, CommittedDelta
  <2>4. QED
    BY <1>1, <2>1, <2>2, <2>3
<1>6. QED
  BY <1>4, <1>5

\* toExpenseBudgetSnapshot of an existing expense is a well-formed snapshot.
LEMMA SnapshotType ==
    ASSUME TypeOK, NEW e \in Expenses, status[e] # "ABSENT"
    PROVE  Snapshot(e) \in BudgetSnapshot
<1>1. owner[e] \in Users /\ DeptOf[owner[e]] \in Depts
  BY ParametersAssumption DEF TypeOK
<1>2. amount[e] \in Nat
  <2>1. amount[e] \in Amounts \cup {0}
    BY DEF TypeOK
  <2>2. Amounts \cup {0} \subseteq Nat
    BY ParametersAssumption
  <2>3. QED
    BY <2>1, <2>2
<1>3. status[e] \in Statuses /\ submittedAt[e] \in Instants \cup {0}
  BY DEF TypeOK
<1>4. QED
  BY <1>1, <1>2, <1>3 DEF Snapshot, BudgetSnapshot, ExpenseDept

-----------------------------------------------------------------------------
(* Type correctness.                                                       *)

\* The empty database is well typed.
LEMMA InitTypeOK == Init => TypeOK
<1> SUFFICES ASSUME Init PROVE TypeOK
  OBVIOUS
<1>1. /\ status \in [Expenses -> Statuses]
      /\ announced \in [Expenses -> Events]
      /\ decisions \in [Expenses -> [Levels -> Decisions]]
  BY DEF Init, Statuses, Events, Decisions
<1>2. /\ owner \in [Expenses -> Users \cup {NoUser}]
      /\ \A e \in Expenses : status[e] # "ABSENT" => owner[e] \in Users
      /\ amount \in [Expenses -> Amounts \cup {0}]
      /\ submittedAt \in [Expenses -> Instants \cup {0}]
  BY DEF Init
<1>3. /\ submitKeys \subseteq KeyedEvents \X Expenses \X Instants
      /\ clearing \subseteq Depts
      /\ toldApproved \subseteq Expenses
      /\ requests \in [Clients -> Request \cup {Idle}]
  BY DEF Init
<1>4. /\ levels \in [Levels -> LevelRows \cup {NoLevel}]
      /\ clock \in 0..MaxInstant
  BY ParametersAssumption DEF Init
<1>5. /\ managerOf \in [Depts -> Users \cup {NoUser}]
      /\ deptActive \in [Depts -> BOOLEAN]
  BY DEF Init
<1>6. /\ committed \in [BudgetKeys -> Nat]
      /\ reimbursed \in [BudgetKeys -> Nat]
  BY DEF Init
<1>7. QED
  BY <1>1, <1>2, <1>3, <1>4, <1>5, <1>6 DEF TypeOK

\* create, update and remove of a draft keep the state well typed.
LEMMA DraftTypeOK ==
    ASSUME TypeOK, NEW e \in Expenses, Draft(e)
    PROVE  TypeOK'
<1>1. ASSUME NEW u \in Users, NEW a \in Amounts, Create(e, u, a)
      PROVE  TypeOK'
  BY <1>1 DEF Create, TypeOK, Statuses, adminVars, budgetVars
<1>2. ASSUME NEW a \in Amounts, UpdateDraft(e, a)
      PROVE  TypeOK'
  <2>1. Snapshot(e) \in BudgetSnapshot
    BY <1>2, SnapshotType DEF UpdateDraft
  <2>2. [Snapshot(e) EXCEPT !.amount = a] \in BudgetSnapshot
    BY <2>1, ParametersAssumption DEF BudgetSnapshot
  <2>3. /\ committed' \in [BudgetKeys -> Nat]
        /\ reimbursed' \in [BudgetKeys -> Nat]
    BY <1>2, <2>1, <2>2, SyncBudgetType DEF UpdateDraft
  <2>4. QED
    BY <1>2, <2>3 DEF UpdateDraft, TypeOK, adminVars
<1>3. ASSUME Remove(e)
      PROVE  TypeOK'
  BY <1>3 DEF Remove, TypeOK, Statuses, adminVars, budgetVars
<1>4. QED
  BY <1>1, <1>2, <1>3 DEF Draft

\* A submission is stamped with an instant of the run, and so is its budget.
LEMMA RequestType ==
    ASSUME TypeOK, NEW c \in Clients, requests[c] # Idle
    PROVE  requests[c].expense \in Expenses /\ requests[c].stamp \in Instants
<1>1. requests[c] \in Request \cup {Idle}
  BY DEF TypeOK
<1>2. requests[c] \in Request
  BY <1>1
<1>3. QED
  BY <1>2 DEF Request

\* Both parts of submit, and its rollback, keep the state well typed.
LEMMA SubmitTypeOK ==
    ASSUME TypeOK, NEW c \in Clients, Submit(c)
    PROVE  TypeOK'
<1>1. ASSUME NEW e \in Expenses, SubmitCheck(c, e)
      PROVE  TypeOK'
  <2> DEFINE at == SubmissionInstant(e)
  <2>1. at \in Instants /\ clock' \in 0..MaxInstant
    <3>1. submittedAt[e] \in Instants \cup {0} /\ clock \in 0..MaxInstant /\ MaxInstant \in Nat
      BY ParametersAssumption DEF TypeOK
    <3>2. at <= MaxInstant /\ clock' = IF at > clock THEN at ELSE clock
      BY <1>1 DEF SubmitCheck
    <3>3. QED
      BY <3>1, <3>2 DEF SubmissionInstant, Instants
  <2>2. [expense |-> e, stamp |-> at] \in Request
    BY <2>1 DEF Request
  <2>3. requests' \in [Clients -> Request \cup {Idle}]
    <3>1. requests' = [requests EXCEPT ![c] = [expense |-> e, stamp |-> at]]
      BY <1>1 DEF SubmitCheck
    <3>2. QED
      BY <2>2, <3>1 DEF TypeOK
  <2>4. UNCHANGED <<status, owner, amount, submittedAt, decisions, announced,
                    submitKeys, levels, managerOf, deptActive, clearing,
                    committed, reimbursed, toldApproved>>
    BY <1>1 DEF SubmitCheck, expenseVars, adminVars, budgetVars
  <2>5. QED
    BY <2>1, <2>3, <2>4 DEF TypeOK
<1>2. ASSUME SubmitCommit(c)
      PROVE  TypeOK'
  <2> DEFINE e == requests[c].expense
             stamp == requests[c].stamp
             key == <<ExpenseDept(e), YearOf[stamp]>>
             next == ResolveInitialSubmitStatus(levels, SubmitRequiredLevels(e))
             keys == SubmitEventKeys(e, next, stamp, key)
             after == [Snapshot(e) EXCEPT !.status = next, !.submittedAt = stamp]
  <2>1. e \in Expenses /\ stamp \in Instants
    BY <1>2, RequestType DEF SubmitCommit
  <2>2. status[e] = "DRAFT"
    BY <1>2 DEF SubmitCommit, SubmitPasses, IsDraftUnderLock
  <2>3. /\ next \in Statuses
        /\ EventOfStatus(next) \in Events
    BY DEF ResolveInitialSubmitStatus, Statuses, EventOfStatus, Events
  <2>4. keys \subseteq KeyedEvents \X Expenses \X Instants
    BY <2>1 DEF SubmitEventKeys, KeyedEvents
  <2>5. Snapshot(e) \in BudgetSnapshot
    BY <2>1, <2>2, SnapshotType
  <2>6. after \in BudgetSnapshot
    BY <2>1, <2>3, <2>5 DEF BudgetSnapshot
  <2>7. SyncBudget(Snapshot(e), after)
    BY <1>2 DEF SubmitCommit
  <2>8. /\ committed' \in [BudgetKeys -> Nat]
        /\ reimbursed' \in [BudgetKeys -> Nat]
    BY <2>5, <2>6, <2>7, SyncBudgetType
  <2>9. /\ status' = [status EXCEPT ![e] = next]
        /\ submittedAt' = [submittedAt EXCEPT ![e] = stamp]
        /\ announced' = [announced EXCEPT ![e] = EventOfStatus(next)]
        /\ submitKeys' = submitKeys \cup keys
        /\ requests' = [requests EXCEPT ![c] = Idle]
    BY <1>2 DEF SubmitCommit
  <2>10. UNCHANGED <<owner, amount, decisions, levels, managerOf, deptActive,
                     clearing, clock, toldApproved>>
    BY <1>2 DEF SubmitCommit, adminVars
  <2> HIDE DEF e, stamp, key, next, keys, after
  <2>11. /\ status' \in [Expenses -> Statuses]
         /\ submittedAt' \in [Expenses -> Instants \cup {0}]
         /\ announced' \in [Expenses -> Events]
         /\ requests' \in [Clients -> Request \cup {Idle}]
    BY <2>1, <2>3, <2>9 DEF TypeOK
  <2>12. submitKeys' \subseteq KeyedEvents \X Expenses \X Instants
    BY <2>4, <2>9 DEF TypeOK
  <2>13. \A x \in Expenses : status'[x] # "ABSENT" => owner'[x] \in Users
    BY <2>2, <2>9, <2>10 DEF TypeOK
  <2>14. QED
    BY <2>8, <2>10, <2>11, <2>12, <2>13 DEF TypeOK
<1>3. ASSUME SubmitRollback(c)
      PROVE  TypeOK'
  BY <1>3 DEF SubmitRollback, TypeOK, expenseVars, adminVars, budgetVars
<1>4. QED
  BY <1>1, <1>2, <1>3 DEF Submit

\* Every status change after the draft stage has this shape.
LEMMA StatusStepType ==
    ASSUME TypeOK, NEW e \in Expenses, NEW next \in Statuses, status[e] # "ABSENT",
           status' = [status EXCEPT ![e] = next],
           SyncBudget(Snapshot(e), [Snapshot(e) EXCEPT !.status = next])
    PROVE  /\ status' \in [Expenses -> Statuses]
           /\ \A x \in Expenses : status'[x] # "ABSENT" => owner[x] \in Users
           /\ committed' \in [BudgetKeys -> Nat]
           /\ reimbursed' \in [BudgetKeys -> Nat]
<1>1. Snapshot(e) \in BudgetSnapshot
  BY SnapshotType
<1>2. [Snapshot(e) EXCEPT !.status = next] \in BudgetSnapshot
  BY <1>1 DEF BudgetSnapshot
<1>3. /\ committed' \in [BudgetKeys -> Nat]
      /\ reimbursed' \in [BudgetKeys -> Nat]
  BY <1>1, <1>2, SyncBudgetType
<1>4. QED
  BY <1>3 DEF TypeOK

\* approve, reject, reopen and reimburse keep the state well typed.
LEMMA DecideTypeOK ==
    ASSUME TypeOK, NEW e \in Expenses, Decide(e)
    PROVE  TypeOK'
<1>1. ASSUME NEW l \in Levels, Approve(e, l)
      PROVE  TypeOK'
  <2> DEFINE next == ResolveStatusAfterLevelApproval(levels, RequiredLevels(e), l)
  <2>1. /\ next \in Statuses
        /\ EventOfStatus(next) \in Events
    BY DEF ResolveStatusAfterLevelApproval, Statuses, EventOfStatus, Events
  <2>2. status[e] # "ABSENT"
    BY <1>1 DEF Approve, ReadyForDecision, ActiveStage, PendingStatuses
  <2>3. /\ status' = [status EXCEPT ![e] = next]
        /\ SyncBudget(Snapshot(e), [Snapshot(e) EXCEPT !.status = next])
        /\ announced' = [announced EXCEPT ![e] = EventOfStatus(next)]
        /\ decisions' = [decisions EXCEPT ![e][l] = "APPROVED"]
    BY <1>1 DEF Approve, RecordDecision
  <2> HIDE DEF next
  <2>4. /\ status' \in [Expenses -> Statuses]
        /\ \A x \in Expenses : status'[x] # "ABSENT" => owner[x] \in Users
        /\ committed' \in [BudgetKeys -> Nat]
        /\ reimbursed' \in [BudgetKeys -> Nat]
    BY <2>1, <2>2, <2>3, StatusStepType
  <2>5. /\ announced' \in [Expenses -> Events]
        /\ decisions' \in [Expenses -> [Levels -> Decisions]]
    BY <2>1, <2>3 DEF TypeOK, Decisions
  <2>6. QED
    BY <1>1, <2>4, <2>5 DEF Approve, TypeOK, adminVars
<1>2. ASSUME NEW l \in Levels, Reject(e, l)
      PROVE  TypeOK'
  <2>1. "REJECTED" \in Statuses /\ status[e] # "ABSENT"
    BY <1>2 DEF Reject, ReadyForDecision, ActiveStage, PendingStatuses, Statuses
  <2>2. /\ status' \in [Expenses -> Statuses]
        /\ \A x \in Expenses : status'[x] # "ABSENT" => owner[x] \in Users
        /\ committed' \in [BudgetKeys -> Nat]
        /\ reimbursed' \in [BudgetKeys -> Nat]
    BY <1>2, <2>1, StatusStepType DEF Reject
  <2>3. /\ announced' \in [Expenses -> Events]
        /\ decisions' \in [Expenses -> [Levels -> Decisions]]
    BY <1>2 DEF Reject, RecordDecision, TypeOK, Decisions, Events
  <2>4. QED
    BY <1>2, <2>2, <2>3 DEF Reject, TypeOK, adminVars
<1>3. ASSUME HealWithNoApprovalChain(e)
      PROVE  TypeOK'
  BY <1>3 DEF HealWithNoApprovalChain, TypeOK, expenseVars, adminVars, budgetVars
<1>4. ASSUME Reopen(e)
      PROVE  TypeOK'
  BY <1>4 DEF Reopen, ClearedDecisions, TypeOK, Statuses, Events, Decisions,
              adminVars, budgetVars
<1>5. ASSUME Reimburse(e)
      PROVE  TypeOK'
  <2>1. "REIMBURSED" \in Statuses /\ status[e] # "ABSENT"
    BY <1>5 DEF Reimburse, Statuses
  <2>2. /\ status' \in [Expenses -> Statuses]
        /\ \A x \in Expenses : status'[x] # "ABSENT" => owner[x] \in Users
        /\ committed' \in [BudgetKeys -> Nat]
        /\ reimbursed' \in [BudgetKeys -> Nat]
    BY <1>5, <2>1, StatusStepType DEF Reimburse
  <2>3. announced' \in [Expenses -> Events]
    BY <1>5 DEF Reimburse, TypeOK, Events
  <2>4. QED
    BY <1>5, <2>2, <2>3 DEF Reimburse, TypeOK, adminVars
<1>6. QED
  BY <1>1, <1>2, <1>3, <1>4, <1>5 DEF Decide

\* Editing approval levels keeps the state well typed.
LEMMA AdministerLevelTypeOK ==
    ASSUME TypeOK, NEW l \in Levels, AdministerLevel(l)
    PROVE  TypeOK'
<1>1. PICK row \in LevelRows \cup {NoLevel} : levels' = [levels EXCEPT ![l] = row]
  BY DEF AdministerLevel, CreateLevel, UpdateLevel, RemoveLevel
<1>2. LevelUnchangedElsewhere
  BY DEF AdministerLevel, CreateLevel, UpdateLevel, RemoveLevel
<1>3. levels' \in [Levels -> LevelRows \cup {NoLevel}]
  BY <1>1 DEF TypeOK
<1>4. QED
  BY <1>2, <1>3 DEF TypeOK, LevelUnchangedElsewhere, expenseVars, budgetVars

\* Editing departments and their managers keeps the state well typed.
LEMMA AdministerDepartmentTypeOK ==
    ASSUME TypeOK, NEW d \in Depts, AdministerDepartment(d)
    PROVE  TypeOK'
<1>1. ASSUME NEW u \in Users, AssignManager(d, u)
      PROVE  TypeOK'
  BY <1>1 DEF AssignManager, TypeOK, expenseVars, budgetVars
<1>2. ASSUME ClearManagerCheck(d)
      PROVE  TypeOK'
  BY <1>2 DEF ClearManagerCheck, TypeOK, expenseVars, budgetVars
<1>3. ASSUME ClearManagerCommit(d)
      PROVE  TypeOK'
  BY <1>3 DEF ClearManagerCommit, TypeOK, expenseVars, budgetVars
<1>4. ASSUME NEW active \in BOOLEAN, SetDepartmentActive(d, active)
      PROVE  TypeOK'
  BY <1>4 DEF SetDepartmentActive, TypeOK, expenseVars, budgetVars
<1>5. QED
  BY <1>1, <1>2, <1>3, <1>4 DEF AdministerDepartment

\* Every step keeps the state well typed.
LEMMA NextTypeOK == TypeOK /\ [Next]_vars => TypeOK'
<1> SUFFICES ASSUME TypeOK, [Next]_vars PROVE TypeOK'
  OBVIOUS
<1>1. CASE UNCHANGED vars
  BY <1>1 DEF TypeOK, vars, expenseVars, adminVars, budgetVars
<1>2. CASE Next
  BY <1>2, DraftTypeOK, DecideTypeOK, SubmitTypeOK, AdministerLevelTypeOK,
     AdministerDepartmentTypeOK DEF Next
<1>3. QED
  BY <1>1, <1>2

\* The rows of every reachable state are well formed: in particular the amounts
\* of a budget never become negative and a submission instant is never missing.
THEOREM TypeCorrectness == Spec => []TypeOK
  BY InitTypeOK, NextTypeOK, PTL DEF Spec

(***************************************************************************)
(* The safety invariants and action properties.                            *)
(***************************************************************************)

\* Once submitted, an expense has an instant of submission.
SubmittedHaveInstant ==
    \A e \in Expenses :
        status[e] \in PendingStatuses \cup {"APPROVED", "REJECTED", "REIMBURSED"}
            => submittedAt[e] # 0

Inv ==
    /\ TypeOK
    /\ ChainIsOrdered
    /\ DecisionsMatchStatus
    /\ DecisionsReferToLevels
    /\ SubmittedHaveInstant
    /\ AnnouncementMatchesStatus

-----------------------------------------------------------------------------
(* What a step may do.                                                     *)

\* An expense row or a budget row changes only in these actions, each of them on one expense.
LEMMA ExpenseStepCases ==
    ASSUME [Next]_vars
    PROVE  \/ UNCHANGED <<expenseVars, budgetVars>>
           \/ \E e \in Expenses, u \in Users, a \in Amounts : Create(e, u, a)
           \/ \E e \in Expenses, a \in Amounts : UpdateDraft(e, a)
           \/ \E e \in Expenses : Remove(e) \/ Reopen(e) \/ Reimburse(e)
           \/ \E e \in Expenses, l \in Levels : Approve(e, l) \/ Reject(e, l)
           \/ \E c \in Clients : SubmitCommit(c)
<1>1. CASE UNCHANGED vars
  BY <1>1 DEF vars
<1>2. ASSUME NEW e \in Expenses, HealWithNoApprovalChain(e)
      PROVE  UNCHANGED <<expenseVars, budgetVars>>
  BY <1>2 DEF HealWithNoApprovalChain
<1>3. ASSUME NEW c \in Clients, SubmitRollback(c) \/ \E e \in Expenses : SubmitCheck(c, e)
      PROVE  UNCHANGED <<expenseVars, budgetVars>>
  BY <1>3 DEF SubmitRollback, SubmitCheck
<1>4. ASSUME NEW l \in Levels, AdministerLevel(l)
      PROVE  UNCHANGED <<expenseVars, budgetVars>>
  BY <1>4 DEF AdministerLevel, CreateLevel, UpdateLevel, RemoveLevel, LevelUnchangedElsewhere
<1>5. ASSUME NEW d \in Depts, AdministerDepartment(d)
      PROVE  UNCHANGED <<expenseVars, budgetVars>>
  BY <1>5 DEF AdministerDepartment, AssignManager, ClearManagerCheck,
              ClearManagerCommit, SetDepartmentActive
<1>6. CASE Next
  BY <1>2, <1>3, <1>4, <1>5, <1>6 DEF Next, Draft, Decide, Submit
<1>7. QED
  BY <1>1, <1>6

\* The approval levels change only in their administration, which leaves the
\* expenses alone.
LEMMA LevelStepCases ==
    ASSUME [Next]_vars
    PROVE  \/ UNCHANGED levels
           \/ \E l \in Levels, row \in LevelRows : CreateLevel(l, row) \/ UpdateLevel(l, row)
           \/ \E l \in Levels : RemoveLevel(l)
<1>1. CASE UNCHANGED vars
  BY <1>1 DEF vars, adminVars
<1>2. ASSUME NEW e \in Expenses, Draft(e) \/ Decide(e)
      PROVE  UNCHANGED levels
  BY <1>2 DEF Draft, Decide, Create, UpdateDraft, Remove, Approve, Reject,
              HealWithNoApprovalChain, Reopen, Reimburse, adminVars
<1>3. ASSUME NEW c \in Clients, Submit(c)
      PROVE  UNCHANGED levels
  BY <1>3 DEF Submit, SubmitCheck, SubmitCommit, SubmitRollback, adminVars
<1>4. ASSUME NEW d \in Depts, AdministerDepartment(d)
      PROVE  UNCHANGED levels
  BY <1>4 DEF AdministerDepartment, AssignManager, ClearManagerCheck,
              ClearManagerCommit, SetDepartmentActive
<1>5. CASE Next
  BY <1>2, <1>3, <1>4, <1>5 DEF Next, AdministerLevel
<1>6. QED
  BY <1>1, <1>5

-----------------------------------------------------------------------------
(* The chain of approval.                                                  *)

\* assertLevelAvailable keeps the places of the chain distinct.
LEMMA ChainStaysOrdered ==
    ASSUME TypeOK, ChainIsOrdered, [Next]_vars
    PROVE  ChainIsOrdered'
<1>1. ASSUME NEW l \in Levels, NEW row \in LevelRows,
             CreateLevel(l, row) \/ UpdateLevel(l, row)
      PROVE  ChainIsOrdered'
  <2>1. levels' = [levels EXCEPT ![l] = row]
    BY <1>1 DEF CreateLevel, UpdateLevel
  <2>2. \A k \in Levels \ {l} : levels[k] # NoLevel => levels[k].level # row.level
    BY <1>1 DEF CreateLevel, UpdateLevel, LevelAvailable
  <2>3. QED
    BY <2>1, <2>2 DEF ChainIsOrdered, TypeOK
<1>2. ASSUME NEW l \in Levels, RemoveLevel(l)
      PROVE  ChainIsOrdered'
  BY <1>2 DEF RemoveLevel, ChainIsOrdered, TypeOK
<1>3. CASE UNCHANGED levels
  BY <1>3 DEF ChainIsOrdered
<1>4. QED
  BY <1>1, <1>2, <1>3, LevelStepCases

\* A decision is recorded at an existing level, and a level with decisions stays.
LEMMA DecisionsStayReferred ==
    ASSUME TypeOK, DecisionsReferToLevels, [Next]_vars
    PROVE  DecisionsReferToLevels'
<1>1. ASSUME NEW l \in Levels, NEW row \in LevelRows,
             CreateLevel(l, row) \/ UpdateLevel(l, row)
      PROVE  DecisionsReferToLevels'
  <2>1. levels' = [levels EXCEPT ![l] = row] /\ decisions' = decisions
    BY <1>1 DEF CreateLevel, UpdateLevel, LevelUnchangedElsewhere, expenseVars
  <2>2. row # NoLevel
    BY ParametersAssumption
  <2>3. QED
    BY <2>1, <2>2 DEF DecisionsReferToLevels, TypeOK
<1>2. ASSUME NEW l \in Levels, RemoveLevel(l)
      PROVE  DecisionsReferToLevels'
  BY <1>2 DEF RemoveLevel, LevelNotInUse, LevelUnchangedElsewhere, expenseVars,
              DecisionsReferToLevels, TypeOK
<1>3. ASSUME NEW e \in Expenses, NEW l \in Levels, Approve(e, l) \/ Reject(e, l),
             UNCHANGED levels
      PROVE  DecisionsReferToLevels'
  <2>1. l \in RequiredLevels(e)
    BY <1>3 DEF Approve, Reject, ReadyForDecision, ActiveStage, IsActiveStage
  <2>2. levels[l] # NoLevel
    BY <2>1 DEF RequiredLevels, GetRequiredLevels
  <2>3. PICK d \in Decisions : decisions' = [decisions EXCEPT ![e][l] = d]
    BY <1>3 DEF Approve, Reject, RecordDecision, Decisions
  <2>4. QED
    BY <1>3, <2>2, <2>3 DEF DecisionsReferToLevels, TypeOK
<1>4. ASSUME NEW e \in Expenses, Reopen(e), UNCHANGED levels
      PROVE  DecisionsReferToLevels'
  BY <1>4 DEF Reopen, ClearedDecisions, DecisionsReferToLevels, TypeOK
<1>5. CASE UNCHANGED <<decisions, levels>>
  BY <1>5 DEF DecisionsReferToLevels
<1>6. CASE UNCHANGED levels
  <2>1. \/ UNCHANGED decisions
        \/ \E e \in Expenses : Reopen(e)
        \/ \E e \in Expenses, l \in Levels : Approve(e, l) \/ Reject(e, l)
    BY ExpenseStepCases DEF Create, UpdateDraft, Remove, Reimburse, SubmitCommit, expenseVars
  <2>2. QED
    BY <1>3, <1>4, <1>5, <1>6, <2>1
<1>7. QED
  BY <1>1, <1>2, <1>6, LevelStepCases

-----------------------------------------------------------------------------
(* Decisions, instants and announcements of an expense.                    *)

\* Decisions appear when a pending expense is decided and disappear when a rejected
\* one is reopened.
LEMMA DecisionsStayMatched ==
    ASSUME TypeOK, DecisionsMatchStatus, [Next]_vars
    PROVE  DecisionsMatchStatus'
<1> USE DEF DecisionsMatchStatus
<1>1. CASE UNCHANGED expenseVars
  BY <1>1 DEF expenseVars
<1>2. ASSUME NEW e \in Expenses, NEW u \in Users, NEW a \in Amounts, Create(e, u, a)
      PROVE  DecisionsMatchStatus'
  BY <1>2 DEF Create, TypeOK
<1>3. ASSUME NEW e \in Expenses, NEW a \in Amounts, UpdateDraft(e, a)
      PROVE  DecisionsMatchStatus'
  BY <1>3 DEF UpdateDraft
<1>4. ASSUME NEW e \in Expenses, Remove(e)
      PROVE  DecisionsMatchStatus'
  BY <1>4 DEF Remove, TypeOK
<1>5. ASSUME NEW e \in Expenses, Reopen(e)
      PROVE  DecisionsMatchStatus'
  BY <1>5 DEF Reopen, ClearedDecisions, TypeOK
<1>6. ASSUME NEW e \in Expenses, Reimburse(e)
      PROVE  DecisionsMatchStatus'
  BY <1>6 DEF Reimburse, TypeOK
<1>7. ASSUME NEW e \in Expenses, NEW l \in Levels, Approve(e, l)
      PROVE  DecisionsMatchStatus'
  <2>1. PICK next \in {"APPROVED", "UNDER_REVIEW"} : status' = [status EXCEPT ![e] = next]
    BY <1>7 DEF Approve, ResolveStatusAfterLevelApproval
  <2>2. decisions' = [decisions EXCEPT ![e][l] = "APPROVED"]
    BY <1>7 DEF Approve, RecordDecision
  <2>3. status[e] # "REJECTED"
    BY <1>7 DEF Approve, ReadyForDecision, ActiveStage, PendingStatuses
  <2>4. QED
    BY <2>1, <2>2, <2>3 DEF TypeOK
<1>8. ASSUME NEW e \in Expenses, NEW l \in Levels, Reject(e, l)
      PROVE  DecisionsMatchStatus'
  <2>1. /\ status' = [status EXCEPT ![e] = "REJECTED"]
        /\ decisions' = [decisions EXCEPT ![e][l] = "REJECTED"]
    BY <1>8 DEF Reject, RecordDecision
  <2>2. QED
    BY <2>1 DEF TypeOK
<1>9. ASSUME NEW c \in Clients, SubmitCommit(c)
      PROVE  DecisionsMatchStatus'
  <2> DEFINE e == requests[c].expense
  <2>1. e \in Expenses /\ status[e] = "DRAFT"
    BY <1>9, RequestType DEF SubmitCommit, SubmitPasses, IsDraftUnderLock
  <2>2. PICK next \in {"APPROVED", "UNDER_REVIEW", "SUBMITTED"} :
            status' = [status EXCEPT ![e] = next]
    BY <1>9 DEF SubmitCommit, ResolveInitialSubmitStatus
  <2>3. decisions' = decisions
    BY <1>9 DEF SubmitCommit
  <2> HIDE DEF e
  <2>4. QED
    BY <2>1, <2>2, <2>3 DEF TypeOK
<1>10. QED
  BY <1>1, <1>2, <1>3, <1>4, <1>5, <1>6, <1>7, <1>8, <1>9, ExpenseStepCases

\* Every change of status appends the event of the new status.
LEMMA AnnouncementStaysMatched ==
    ASSUME TypeOK, SubmittedHaveInstant, AnnouncementMatchesStatus, [Next]_vars
    PROVE  SubmittedHaveInstant' /\ AnnouncementMatchesStatus'
<1> USE DEF SubmittedHaveInstant, AnnouncementMatchesStatus, PendingStatuses
<1> DEFINE Goal == SubmittedHaveInstant' /\ AnnouncementMatchesStatus'
<1>1. CASE UNCHANGED expenseVars
  BY <1>1 DEF expenseVars
<1>2. ASSUME NEW e \in Expenses, NEW u \in Users, NEW a \in Amounts, Create(e, u, a)
      PROVE  Goal
  BY <1>2 DEF Create, TypeOK
<1>3. ASSUME NEW e \in Expenses, NEW a \in Amounts, UpdateDraft(e, a)
      PROVE  Goal
  BY <1>3 DEF UpdateDraft
<1>4. ASSUME NEW e \in Expenses, Remove(e)
      PROVE  Goal
  BY <1>4 DEF Remove, TypeOK
<1>5. ASSUME NEW e \in Expenses, Reopen(e)
      PROVE  Goal
  BY <1>5 DEF Reopen, TypeOK
<1>6. ASSUME NEW e \in Expenses, Reimburse(e)
      PROVE  Goal
  BY <1>6 DEF Reimburse, TypeOK
<1>7. ASSUME NEW e \in Expenses, NEW l \in Levels, Approve(e, l)
      PROVE  Goal
  <2>1. PICK next \in {"APPROVED", "UNDER_REVIEW"} :
            /\ status' = [status EXCEPT ![e] = next]
            /\ announced' = [announced EXCEPT ![e] = EventOfStatus(next)]
    BY <1>7 DEF Approve, ResolveStatusAfterLevelApproval
  <2>2. /\ status[e] \in PendingStatuses
        /\ submittedAt' = submittedAt
    BY <1>7 DEF Approve, ReadyForDecision, ActiveStage
  <2>3. QED
    BY <2>1, <2>2 DEF TypeOK, EventOfStatus
<1>8. ASSUME NEW e \in Expenses, NEW l \in Levels, Reject(e, l)
      PROVE  Goal
  BY <1>8 DEF Reject, ReadyForDecision, ActiveStage, TypeOK
<1>9. ASSUME NEW c \in Clients, SubmitCommit(c)
      PROVE  Goal
  <2> DEFINE e == requests[c].expense
             stamp == requests[c].stamp
  <2>1. e \in Expenses /\ stamp \in Nat /\ stamp # 0
    BY <1>9, RequestType, ParametersAssumption DEF SubmitCommit, Instants
  <2>2. PICK next \in {"APPROVED", "UNDER_REVIEW", "SUBMITTED"} :
            /\ status' = [status EXCEPT ![e] = next]
            /\ announced' = [announced EXCEPT ![e] = EventOfStatus(next)]
            /\ submittedAt' = [submittedAt EXCEPT ![e] = stamp]
    BY <1>9 DEF SubmitCommit, ResolveInitialSubmitStatus
  <2> HIDE DEF e, stamp
  <2>3. QED
    BY <2>1, <2>2 DEF TypeOK, EventOfStatus
<1>10. QED
  BY <1>1, <1>2, <1>3, <1>4, <1>5, <1>6, <1>7, <1>8, <1>9, ExpenseStepCases

-----------------------------------------------------------------------------
\* The invariant holds of the empty database.
LEMMA InitInv == Init => Inv
<1> SUFFICES ASSUME Init PROVE Inv
  OBVIOUS
<1>1. ChainIsOrdered
  BY InitialLevelsAssumption DEF Init, ChainIsOrdered
<1>2. DecisionsMatchStatus /\ DecisionsReferToLevels
  BY DEF Init, DecisionsMatchStatus, DecisionsReferToLevels
<1>3. SubmittedHaveInstant /\ AnnouncementMatchesStatus
  BY DEF Init, SubmittedHaveInstant, AnnouncementMatchesStatus, PendingStatuses
<1>4. QED
  BY <1>1, <1>2, <1>3, InitTypeOK DEF Inv

\* The invariant is inductive.
LEMMA NextInv == Inv /\ [Next]_vars => Inv'
  BY NextTypeOK, ChainStaysOrdered, DecisionsStayMatched, DecisionsStayReferred,
     AnnouncementStaysMatched DEF Inv

\* The inductive invariant of the workflow.
THEOREM Invariance == Spec => []Inv
  BY InitInv, NextInv, PTL DEF Spec

\* Decisions of one round of approval never leak into the next, and REJECTED is
\* the status of exactly the expenses with a rejecting decision.
THEOREM DecisionsMatch == Spec => []DecisionsMatchStatus
<1>1. Inv => DecisionsMatchStatus
  BY DEF Inv
<1>2. QED
  BY <1>1, Invariance, PTL

\* No removal of an approval level leaves a decision without its level.
THEOREM DecisionsRefer == Spec => []DecisionsReferToLevels
<1>1. Inv => DecisionsReferToLevels
  BY DEF Inv
<1>2. QED
  BY <1>1, Invariance, PTL

\* Concurrent edits of the approval levels keep the chain a total order.
THEOREM ChainOrdered == Spec => []ChainIsOrdered
<1>1. Inv => ChainIsOrdered
  BY DEF Inv
<1>2. QED
  BY <1>1, Invariance, PTL

\* The last status event in the outbox is the one of the expense's status.
THEOREM AnnouncementMatches == Spec => []AnnouncementMatchesStatus
<1>1. Inv => AnnouncementMatchesStatus
  BY DEF Inv
<1>2. QED
  BY <1>1, Invariance, PTL

-----------------------------------------------------------------------------
(* Action properties.                                                      *)

\* In an ordered chain, a last stage whose earlier stages are approved is the
\* end of the chain: every other required level has approved.
LEMMA LastStageCompletesChain ==
    ASSUME TypeOK, ChainIsOrdered, NEW e \in Expenses, NEW l \in Levels,
           IsActiveStage(levels, RequiredLevels(e), decisions[e], l),
           IsLast(levels, RequiredLevels(e), l)
    PROVE  \A k \in RequiredLevels(e) \ {l} : decisions[e][k] = "APPROVED"
<1> SUFFICES ASSUME NEW k \in RequiredLevels(e) \ {l}
             PROVE  decisions[e][k] = "APPROVED"
  OBVIOUS
<1>1. \A x \in RequiredLevels(e) : x \in Levels /\ levels[x] # NoLevel
  BY DEF RequiredLevels, GetRequiredLevels, TypeOK
<1>2. l \in RequiredLevels(e)
  BY DEF IsActiveStage
<1>3. levels[k].level # levels[l].level
  BY <1>1, <1>2 DEF ChainIsOrdered
<1>4. levels[k] \in ApprovalLevel /\ levels[l] \in ApprovalLevel
  <2>1. levels[k] \in LevelRows /\ levels[l] \in LevelRows
    BY <1>1, <1>2 DEF TypeOK
  <2>2. LevelRows \subseteq ApprovalLevel
    BY ParametersAssumption
  <2>3. QED
    BY <2>1, <2>2
<1>5. levels[k].level \in Nat /\ levels[l].level \in Nat
  BY <1>4 DEF ApprovalLevel
<1>6. ~Before(levels, l, k)
  BY DEF IsLast
<1>7. Before(levels, k, l)
  BY <1>3, <1>5, <1>6 DEF Before
<1>8. QED
  BY <1>7 DEF IsActiveStage

\* A step that approves a pending expense is the approval of its last level, with
\* every other required level approved before.
LEMMA ApprovalNeedsChain ==
    ASSUME TypeOK, ChainIsOrdered, [Next]_vars, NEW e \in Expenses,
           status'[e] = "APPROVED", status[e] \in PendingStatuses,
           NEW k \in RequiredLevels(e)
    PROVE  decisions'[e][k] = "APPROVED"
<1> USE DEF PendingStatuses
<1>1. k \in Levels
  BY DEF RequiredLevels, GetRequiredLevels, TypeOK
<1>2. PICK l \in Levels : Approve(e, l)
  <2>1. ASSUME NEW c \in Clients, SubmitCommit(c)
        PROVE  FALSE
    <3>1. /\ requests[c].expense \in Expenses
          /\ status[requests[c].expense] = "DRAFT"
      BY <2>1, RequestType DEF SubmitCommit, SubmitPasses, IsDraftUnderLock
    <3>2. PICK next : status' = [status EXCEPT ![requests[c].expense] = next]
      BY <2>1 DEF SubmitCommit
    <3>3. QED
      BY <3>1, <3>2 DEF TypeOK
  <2>2. ASSUME NEW x \in Expenses, NEW l \in Levels, Approve(x, l), x # e
        PROVE  FALSE
    BY <2>2 DEF Approve, TypeOK
  <2>3. ASSUME NEW x \in Expenses, NEW l \in Levels, Reject(x, l)
        PROVE  FALSE
    BY <2>3 DEF Reject, TypeOK
  <2>4. QED
    BY <2>1, <2>2, <2>3, ExpenseStepCases
       DEF Create, UpdateDraft, Remove, Reopen, Reimburse, expenseVars, TypeOK
<1>3. decisions' = [decisions EXCEPT ![e][l] = "APPROVED"]
  BY <1>2 DEF Approve, RecordDecision
<1>4. IsActiveStage(levels, RequiredLevels(e), decisions[e], l)
  BY <1>2 DEF Approve, ReadyForDecision, ActiveStage
<1>5. IsLast(levels, RequiredLevels(e), l)
  <2>1. status' = [status EXCEPT ![e] =
                      ResolveStatusAfterLevelApproval(levels, RequiredLevels(e), l)]
    BY <1>2 DEF Approve
  <2>2. ResolveStatusAfterLevelApproval(levels, RequiredLevels(e), l) = "APPROVED"
    BY <2>1 DEF TypeOK
  <2>3. QED
    BY <2>2 DEF ResolveStatusAfterLevelApproval
<1>6. \A x \in RequiredLevels(e) \ {l} : decisions[e][x] = "APPROVED"
  BY <1>4, <1>5, LastStageCompletesChain
<1>7. QED
  BY <1>1, <1>3, <1>6 DEF TypeOK

\* Nothing becomes APPROVED without the approval of every level it requires at
\* that moment, however the levels changed since it was submitted.
THEOREM ApprovalThroughChain == Spec => ApprovedThroughChain
<1>1. Inv /\ [Next]_vars =>
          [\A e \in Expenses :
              status'[e] = "APPROVED" /\ status[e] \in PendingStatuses
                  => \A l \in RequiredLevels(e) : decisions'[e][l] = "APPROVED"]_vars
  BY ApprovalNeedsChain DEF Inv
<1>2. QED
  BY <1>1, Invariance, PTL DEF Spec, ApprovedThroughChain

\* Only a decision of the active stage records a decision.
LEMMA DecisionIsOfActiveStage ==
    ASSUME TypeOK, [Next]_vars, NEW e \in Expenses, NEW l \in Levels,
           decisions[e][l] = "NONE", decisions'[e][l] # "NONE"
    PROVE  IsActiveStage(levels, RequiredLevels(e), decisions[e], l)
<1>1. CASE UNCHANGED decisions
  BY <1>1
<1>2. ASSUME NEW x \in Expenses, Reopen(x)
      PROVE  FALSE
  BY <1>2 DEF Reopen, ClearedDecisions, TypeOK
<1>3. ASSUME NEW x \in Expenses, NEW k \in Levels, Approve(x, k) \/ Reject(x, k)
      PROVE  IsActiveStage(levels, RequiredLevels(e), decisions[e], l)
  <2>1. PICK d : decisions' = [decisions EXCEPT ![x][k] = d]
    BY <1>3 DEF Approve, Reject, RecordDecision
  <2>2. x = e /\ k = l
    BY <2>1 DEF TypeOK
  <2>3. QED
    BY <1>3, <2>2 DEF Approve, Reject, ReadyForDecision, ActiveStage
<1>4. \/ UNCHANGED decisions
      \/ \E x \in Expenses : Reopen(x)
      \/ \E x \in Expenses, k \in Levels : Approve(x, k) \/ Reject(x, k)
  BY ExpenseStepCases DEF Create, UpdateDraft, Remove, Reimburse, SubmitCommit, expenseVars
<1>5. QED
  BY <1>1, <1>2, <1>3, <1>4

\* No stage decides before the required stages that come earlier in the chain.
THEOREM StagesDecideInOrder == Spec => StagesInOrder
<1>1. TypeOK /\ [Next]_vars =>
          [\A e \in Expenses, l \in Levels :
              decisions[e][l] = "NONE" /\ decisions'[e][l] # "NONE"
                  => /\ l \in RequiredLevels(e)
                     /\ \A k \in RequiredLevels(e) :
                            Before(levels, k, l) => decisions[e][k] = "APPROVED"]_vars
  BY DecisionIsOfActiveStage DEF IsActiveStage
<1>2. QED
  BY <1>1, TypeCorrectness, PTL DEF Spec, StagesInOrder

\* An expense that counts in a budget changes neither amount nor instant, and a
\* reimbursed one changes nothing at all.
LEMMA CountedExpenseIsFrozen ==
    ASSUME TypeOK, [Next]_vars, NEW e \in Expenses
    PROVE  /\ status[e] = "REIMBURSED"
                  => status'[e] = "REIMBURSED" /\ decisions'[e] = decisions[e]
           /\ status[e] \in PendingStatuses \cup {"APPROVED", "REIMBURSED"}
                  => amount'[e] = amount[e] /\ submittedAt'[e] = submittedAt[e]
<1> DEFINE Goal ==
        /\ status[e] = "REIMBURSED"
               => status'[e] = "REIMBURSED" /\ decisions'[e] = decisions[e]
        /\ status[e] \in PendingStatuses \cup {"APPROVED", "REIMBURSED"}
               => amount'[e] = amount[e] /\ submittedAt'[e] = submittedAt[e]
<1> USE DEF PendingStatuses
<1>1. CASE UNCHANGED expenseVars
  BY <1>1 DEF expenseVars
<1>2. ASSUME NEW x \in Expenses, NEW u \in Users, NEW a \in Amounts, Create(x, u, a)
      PROVE  Goal
  BY <1>2 DEF Create, TypeOK
<1>3. ASSUME NEW x \in Expenses, NEW a \in Amounts, UpdateDraft(x, a)
      PROVE  Goal
  BY <1>3 DEF UpdateDraft, TypeOK
<1>4. ASSUME NEW x \in Expenses, Remove(x) \/ Reopen(x) \/ Reimburse(x)
      PROVE  Goal
  BY <1>4 DEF Remove, Reopen, Reimburse, ClearedDecisions, TypeOK
<1>5. ASSUME NEW x \in Expenses, NEW l \in Levels, Approve(x, l) \/ Reject(x, l)
      PROVE  Goal
  <2>1. PICK next, d : /\ status' = [status EXCEPT ![x] = next]
                       /\ decisions' = [decisions EXCEPT ![x][l] = d]
    BY <1>5 DEF Approve, Reject, RecordDecision
  <2>2. /\ status[x] \in PendingStatuses
        /\ UNCHANGED <<amount, submittedAt>>
    BY <1>5 DEF Approve, Reject, ReadyForDecision, ActiveStage
  <2>3. QED
    BY <2>1, <2>2 DEF TypeOK
<1>6. ASSUME NEW c \in Clients, SubmitCommit(c)
      PROVE  Goal
  <2> DEFINE x == requests[c].expense
  <2>1. x \in Expenses /\ status[x] = "DRAFT"
    BY <1>6, RequestType DEF SubmitCommit, SubmitPasses, IsDraftUnderLock
  <2>2. PICK next, stamp : /\ status' = [status EXCEPT ![x] = next]
                           /\ submittedAt' = [submittedAt EXCEPT ![x] = stamp]
    BY <1>6 DEF SubmitCommit
  <2>3. UNCHANGED <<amount, decisions>>
    BY <1>6 DEF SubmitCommit
  <2> HIDE DEF x
  <2>4. QED
    BY <2>1, <2>2, <2>3 DEF TypeOK
<1>7. QED
  BY <1>1, <1>2, <1>3, <1>4, <1>5, <1>6, ExpenseStepCases

\* Reimbursement is final, and no submission or edit that was already under way
\* moves an amount that is in the books.
THEOREM SettledStaysFinal == Spec => SettledIsFinal
<1>1. TypeOK /\ [Next]_vars =>
          [\A e \in Expenses :
              /\ status[e] = "REIMBURSED"
                    => /\ status'[e] = "REIMBURSED"
                       /\ decisions'[e] = decisions[e]
              /\ status[e] \in PendingStatuses \cup {"APPROVED", "REIMBURSED"}
                    => amount'[e] = amount[e] /\ submittedAt'[e] = submittedAt[e]]_vars
  BY CountedExpenseIsFrozen
<1>2. QED
  BY <1>1, TypeCorrectness, PTL DEF Spec, SettledIsFinal
-----------------------------------------------------------------------------
(* The books.                                                              *)

Pipeline == {"SUBMITTED", "UNDER_REVIEW", "APPROVED"}
Booked == Pipeline \cup {"REIMBURSED"}
Paid == {"REIMBURSED"}

\* The expenses a recount of the row of key over some statuses finds, and what
\* each expense adds to it.
Fitting(st, ow, sub, key, statuses) ==
    {e \in Expenses : /\ st[e] \in statuses
                      /\ sub[e] # 0
                      /\ key = <<DeptOf[ow[e]], YearOf[sub[e]]>>}
Terms(st, ow, sub, am, key, statuses) ==
    [e \in Expenses |->
        IF st[e] \in statuses /\ sub[e] # 0 /\ key = <<DeptOf[ow[e]], YearOf[sub[e]]>>
        THEN am[e] ELSE 0]
Counted(key, statuses) == Terms(status, owner, submittedAt, amount, key, statuses)

\* A recount over the expenses that fit adds up one term for each expense.
LEMMA RecountIsSum ==
    ASSUME NEW st, NEW ow, NEW sub, NEW am, \A e \in Expenses : am[e] \in Nat,
           NEW key, NEW statuses
    PROVE  SumOf(am, Fitting(st, ow, sub, key, statuses))
             = SumOf(Terms(st, ow, sub, am, key, statuses), Expenses)
<1> DEFINE T == Fitting(st, ow, sub, key, statuses)
           g == Terms(st, ow, sub, am, key, statuses)
<1>1. \A e \in Expenses : g[e] = IF e \in T THEN am[e] ELSE 0
  BY DEF Terms, Fitting
<1>2. T \in SUBSET Expenses
  BY DEF Fitting
<1> HIDE DEF T, g
<1>3. SumOf(am, T) = SumOf(g, Expenses)
  <2>1. \A y \in T : am[y] = g[y] /\ g[y] \in Int
    BY <1>1, <1>2
  <2>2. \A y \in Expenses \ T : g[y] = 0
    BY <1>1
  <2> QED
    BY <1>2, <2>1, <2>2, ExpensesAssumption, SumExtends
<1> QED
  BY <1>3 DEF T, g

\* The recounts of LedgerExact, before and after a step, as sums over all expenses.
LEMMA SpendIsSum ==
    ASSUME TypeOK, TypeOK', NEW key, NEW statuses
    PROVE  /\ SpendOf(key, statuses) = SumOf(Counted(key, statuses), Expenses)
           /\ SpendOf(key, statuses)' = SumOf(Counted(key, statuses)', Expenses)
           /\ \A e \in Expenses : Counted(key, statuses)[e] \in Nat /\ Counted(key, statuses)'[e] \in Nat
<1>1. /\ \A e \in Expenses : amount[e] \in Nat
      /\ \A e \in Expenses : amount'[e] \in Nat
  <2>1. Amounts \cup {0} \subseteq Nat
    BY ParametersAssumption
  <2> QED
    BY <2>1 DEF TypeOK
<1>2. SpendOf(key, statuses) = SumOf(Counted(key, statuses), Expenses)
  <2>1. SumOf(amount, Fitting(status, owner, submittedAt, key, statuses))
          = SumOf(Terms(status, owner, submittedAt, amount, key, statuses), Expenses)
    BY <1>1, RecountIsSum
  <2> QED
    BY <2>1 DEF SpendOf, SumOf, Counted, ExpenseDept, Fitting
<1>3. SpendOf(key, statuses)' = SumOf(Counted(key, statuses)', Expenses)
  <2>1. SumOf(amount', Fitting(status', owner', submittedAt', key, statuses))
          = SumOf(Terms(status', owner', submittedAt', amount', key, statuses), Expenses)
    BY <1>1, RecountIsSum
  <2> QED
    BY <2>1 DEF SpendOf, SumOf, Counted, ExpenseDept, Fitting, MapThenSumSet, MapThenFoldSet
<1>4. \A e \in Expenses : Counted(key, statuses)[e] \in Nat /\ Counted(key, statuses)'[e] \in Nat
  BY <1>1 DEF Counted, Terms
<1> QED
  BY <1>2, <1>3, <1>4

\* A step that leaves the rows alone, and every expense that counts, keeps the
\* books exact.
LEMMA BooksStay ==
    ASSUME TypeOK, TypeOK', LedgerExact, UNCHANGED budgetVars,
           \A e \in Expenses :
              \/ /\ status'[e] = status[e] /\ owner'[e] = owner[e]
                 /\ amount'[e] = amount[e] /\ submittedAt'[e] = submittedAt[e]
              \/ status[e] \notin Booked /\ status'[e] \notin Booked
    PROVE  LedgerExact'
<1> SUFFICES ASSUME NEW key \in BudgetKeys, HasBudget(key)
             PROVE  /\ committed'[key] = SpendOf(key, Booked)'
                    /\ reimbursed'[key] = SpendOf(key, Paid)'
  BY DEF LedgerExact, Booked, Pipeline, Paid
<1>1. ASSUME NEW statuses \in SUBSET Booked
      PROVE  SpendOf(key, statuses)' = SpendOf(key, statuses)
  <2>1. \A e \in Expenses : Counted(key, statuses)[e] = Counted(key, statuses)'[e]
    BY DEF Counted, Terms
  <2>2. SumOf(Counted(key, statuses), Expenses) = SumOf(Counted(key, statuses)', Expenses)
    BY <2>1, ExpensesAssumption, SumCongruence
  <2> QED
    BY <2>2, SpendIsSum
<1>2. /\ SpendOf(key, Booked)' = SpendOf(key, Booked)
      /\ SpendOf(key, Paid)' = SpendOf(key, Paid)
  <2>1. Booked \in SUBSET Booked /\ Paid \in SUBSET Booked
    BY DEF Booked, Paid
  <2> HIDE DEF Booked, Paid
  <2> QED
    BY <1>1, <2>1
<1>3. committed[key] = SpendOf(key, Booked) /\ reimbursed[key] = SpendOf(key, Paid)
  BY DEF LedgerExact, Booked, Pipeline, Paid
<1> QED
  BY <1>2, <1>3 DEF budgetVars

\* A step on one expense changes one term of a recount.
LEMMA OneTermChanges ==
    ASSUME NEW f, NEW g, NEW e \in Expenses,
           \A x \in Expenses : f[x] \in Nat /\ g[x] \in Nat,
           \A x \in Expenses \ {e} : g[x] = f[x]
    PROVE  /\ SumOf(f, Expenses) \in Nat /\ SumOf(g, Expenses) \in Nat
           /\ SumOf(g, Expenses) = SumOf(f, Expenses) + g[e] - f[e]
<1>1. SumOf(f, Expenses) \in Nat /\ SumOf(g, Expenses) \in Nat
  BY ExpensesAssumption, SumType
<1>2. SumOf(g, Expenses) = SumOf(f, Expenses) + g[e] - f[e]
  <2>1. (\A x \in Expenses : f[x] \in Int) /\ (\A x \in Expenses : g[x] \in Int)
    OBVIOUS
  <2> QED
    BY <2>1, ExpensesAssumption, SumChange
<1> QED
  BY <1>1, <1>2

\* An entry: syncCommittedAmountForExpenseTransition with the snapshots before and
\* after a step on one expense keeps the books exact.  Its clamp at zero never
\* bites, because the row holds at least what the expense contributes to it.
LEMMA BooksEntry ==
    ASSUME TypeOK, TypeOK', LedgerExact, NEW e \in Expenses, NEW after,
           SyncBudget(Snapshot(e), after),
           after.department = DeptOf[owner'[e]], after.submittedAt = submittedAt'[e],
           after.status = status'[e], after.amount = amount'[e],
           \A x \in Expenses \ {e} :
              /\ status'[x] = status[x] /\ owner'[x] = owner[x]
              /\ amount'[x] = amount[x] /\ submittedAt'[x] = submittedAt[x],
           status[e] # "REIMBURSED",
           status'[e] = "REIMBURSED" =>
              /\ status[e] = "APPROVED" /\ submittedAt[e] # 0
              /\ owner'[e] = owner[e] /\ amount'[e] = amount[e]
              /\ submittedAt'[e] = submittedAt[e]
    PROVE  LedgerExact'
<1> SUFFICES ASSUME NEW key \in BudgetKeys, HasBudget(key)
             PROVE  /\ committed'[key] = SpendOf(key, Booked)'
                    /\ reimbursed'[key] = SpendOf(key, Paid)'
  BY DEF LedgerExact, Booked, Pipeline, Paid
<1> DEFINE before == Snapshot(e)
<1>1. committed[key] = SpendOf(key, Booked) /\ reimbursed[key] = SpendOf(key, Paid)
  BY DEF LedgerExact, Booked, Pipeline, Paid
<1>2. ASSUME NEW statuses
      PROVE  /\ SpendOf(key, statuses)' \in Nat
             /\ SpendOf(key, statuses) \in Nat
             /\ Counted(key, statuses)[e] \in Nat /\ Counted(key, statuses)'[e] \in Nat
             /\ SpendOf(key, statuses)' =
                  SpendOf(key, statuses) + Counted(key, statuses)'[e] - Counted(key, statuses)[e]
  <2>1. \A x \in Expenses : Counted(key, statuses)[x] \in Nat /\ Counted(key, statuses)'[x] \in Nat
    BY SpendIsSum
  <2>2. \A x \in Expenses \ {e} : Counted(key, statuses)'[x] = Counted(key, statuses)[x]
    BY DEF Counted, Terms
  <2>3. /\ SumOf(Counted(key, statuses), Expenses) \in Nat
        /\ SumOf(Counted(key, statuses)', Expenses) \in Nat
        /\ SumOf(Counted(key, statuses)', Expenses) = SumOf(Counted(key, statuses), Expenses)
             + Counted(key, statuses)'[e] - Counted(key, statuses)[e]
    BY <2>1, <2>2, OneTermChanges
  <2> QED
    BY <2>1, <2>3, SpendIsSum
<1>3. Contribution(before, key) = Counted(key, Pipeline)[e]
  BY DEF Contribution, Snapshot, Counted, Terms, CountsTowardCommittedBudget, Pipeline, ExpenseDept
<1>4. Contribution(after, key) = Counted(key, Pipeline)'[e]
  BY DEF Contribution, Counted, Terms, CountsTowardCommittedBudget, Pipeline
<1>5. Counted(key, Booked)[e] = Counted(key, Pipeline)[e] /\ Counted(key, Paid)[e] = 0
  BY DEF Counted, Terms, Booked, Paid
<1>6. IsReimbursementTransition(before, after) <=> status'[e] = "REIMBURSED"
  BY DEF IsReimbursementTransition, Snapshot
<1>7. CASE status'[e] # "REIMBURSED"
  <2>1. /\ reimbursed' = reimbursed
        /\ committed'[key] = AtLeastZero(committed[key] + CommittedDelta(before, after, key))
    BY <1>6, <1>7 DEF SyncBudget
  <2>2. Counted(key, Booked)'[e] = Counted(key, Pipeline)'[e] /\ Counted(key, Paid)'[e] = 0
    BY <1>7 DEF Counted, Terms, Booked, Paid
  <2>3. SpendOf(key, Booked)' = committed[key] + CommittedDelta(before, after, key)
    BY <1>1, <1>2, <1>3, <1>4, <1>5, <2>2 DEF CommittedDelta
  <2>4. SpendOf(key, Paid)' = SpendOf(key, Paid)
    BY <1>2, <1>5, <2>2
  <2>5. committed'[key] = SpendOf(key, Booked)'
    BY <1>2, <2>1, <2>3 DEF AtLeastZero
  <2> QED
    BY <1>1, <2>1, <2>4, <2>5
<1>8. CASE status'[e] = "REIMBURSED"
  <2>1. /\ committed' = committed
        /\ reimbursed'[key] = IF key = <<after.department, YearOf[after.submittedAt]>>
                              THEN reimbursed[key] + after.amount ELSE reimbursed[key]
    BY <1>6, <1>8 DEF SyncBudget
  <2>2. Counted(key, Booked)'[e] = Counted(key, Booked)[e]
    BY <1>8 DEF Counted, Terms, Booked, Pipeline
  <2>3. Counted(key, Paid)'[e] = IF key = <<after.department, YearOf[after.submittedAt]>>
                                 THEN after.amount ELSE 0
    BY <1>8 DEF Counted, Terms, Paid
  <2>4. SpendOf(key, Booked)' = SpendOf(key, Booked)
    BY <1>2, <2>2
  <2>5. SpendOf(key, Paid)' = SpendOf(key, Paid) + Counted(key, Paid)'[e]
    BY <1>2, <1>5
  <2> QED
    BY <1>1, <1>2, <2>1, <2>3, <2>4, <2>5
<1> QED
  BY <1>7, <1>8

\* Every step keeps the books exact.
LEMMA BooksStayExact ==
    ASSUME TypeOK, TypeOK', SubmittedHaveInstant, LedgerExact, [Next]_vars
    PROVE  LedgerExact'
<1> USE DEF PendingStatuses
<1>1. CASE UNCHANGED <<expenseVars, budgetVars>>
  BY <1>1, BooksStay DEF expenseVars
<1>2. ASSUME NEW e \in Expenses, NEW u \in Users, NEW a \in Amounts, Create(e, u, a)
      PROVE  LedgerExact'
  <2>1. \A x \in Expenses :
          \/ /\ status'[x] = status[x] /\ owner'[x] = owner[x]
             /\ amount'[x] = amount[x] /\ submittedAt'[x] = submittedAt[x]
          \/ status[x] \notin Booked /\ status'[x] \notin Booked
    BY <1>2 DEF Create, TypeOK, Booked, Pipeline
  <2>2. UNCHANGED budgetVars
    BY <1>2 DEF Create
  <2> QED
    BY <2>1, <2>2, BooksStay
<1>3. ASSUME NEW e \in Expenses, NEW a \in Amounts, UpdateDraft(e, a)
      PROVE  LedgerExact'
  <2> DEFINE after == [Snapshot(e) EXCEPT !.amount = a]
  <2>1. SyncBudget(Snapshot(e), after)
    BY <1>3 DEF UpdateDraft
  <2>2. /\ status[e] = "DRAFT" /\ amount' = [amount EXCEPT ![e] = a]
        /\ UNCHANGED <<status, owner, submittedAt>>
    BY <1>3 DEF UpdateDraft
  <2>3. /\ after.department = DeptOf[owner'[e]] /\ after.submittedAt = submittedAt'[e]
        /\ after.status = status'[e] /\ after.amount = amount'[e]
    BY <2>2 DEF Snapshot, ExpenseDept, TypeOK
  <2>4. \A x \in Expenses \ {e} : amount'[x] = amount[x]
    BY <2>2 DEF TypeOK
  <2> HIDE DEF after
  <2> QED
    BY <2>1, <2>2, <2>3, <2>4, BooksEntry
<1>4. ASSUME NEW e \in Expenses, Remove(e) \/ Reopen(e)
      PROVE  LedgerExact'
  <2>1. \A x \in Expenses :
          \/ /\ status'[x] = status[x] /\ owner'[x] = owner[x]
             /\ amount'[x] = amount[x] /\ submittedAt'[x] = submittedAt[x]
          \/ status[x] \notin Booked /\ status'[x] \notin Booked
    BY <1>4 DEF Remove, Reopen, TypeOK, Booked, Pipeline
  <2>2. UNCHANGED budgetVars
    BY <1>4 DEF Remove, Reopen
  <2> QED
    BY <2>1, <2>2, BooksStay
<1>5. ASSUME NEW e \in Expenses, NEW next,
             SyncBudget(Snapshot(e), [Snapshot(e) EXCEPT !.status = next]),
             status' = [status EXCEPT ![e] = next],
             UNCHANGED <<owner, amount, submittedAt>>,
             status[e] \in Pipeline, next = "REIMBURSED" => status[e] = "APPROVED"
      PROVE  LedgerExact'
  <2> DEFINE after == [Snapshot(e) EXCEPT !.status = next]
  <2>1. /\ after.department = DeptOf[owner'[e]] /\ after.submittedAt = submittedAt'[e]
        /\ after.status = status'[e] /\ after.amount = amount'[e]
    BY <1>5 DEF Snapshot, ExpenseDept, TypeOK
  <2>2. /\ \A x \in Expenses \ {e} : status'[x] = status[x]
        /\ status'[e] = next
    BY <1>5 DEF TypeOK
  <2>3. status[e] # "REIMBURSED" /\ submittedAt[e] # 0
    BY <1>5 DEF SubmittedHaveInstant, Pipeline
  <2>4. SyncBudget(Snapshot(e), after)
    BY <1>5
  <2> HIDE DEF after
  <2> QED
    BY <1>5, <2>1, <2>2, <2>3, <2>4, BooksEntry
<1>6. ASSUME NEW e \in Expenses, Reimburse(e)
      PROVE  LedgerExact'
  BY <1>5, <1>6 DEF Reimburse, Pipeline
<1>7. ASSUME NEW e \in Expenses, NEW l \in Levels, Approve(e, l) \/ Reject(e, l)
      PROVE  LedgerExact'
  <2>1. PICK next \in {"APPROVED", "UNDER_REVIEW", "REJECTED"} :
           /\ SyncBudget(Snapshot(e), [Snapshot(e) EXCEPT !.status = next])
           /\ status' = [status EXCEPT ![e] = next]
           /\ UNCHANGED <<owner, amount, submittedAt>>
    BY <1>7 DEF Approve, Reject, ResolveStatusAfterLevelApproval
  <2>2. status[e] \in Pipeline
    BY <1>7 DEF Approve, Reject, ReadyForDecision, ActiveStage, Pipeline
  <2> QED
    BY <1>5, <2>1, <2>2
<1>8. ASSUME NEW c \in Clients, SubmitCommit(c)
      PROVE  LedgerExact'
  <2> DEFINE e == requests[c].expense
             stamp == requests[c].stamp
  <2>1. e \in Expenses /\ status[e] = "DRAFT"
    BY <1>8, RequestType DEF SubmitCommit, SubmitPasses, IsDraftUnderLock
  <2>2. PICK next \in {"APPROVED", "UNDER_REVIEW", "SUBMITTED"} :
            /\ status' = [status EXCEPT ![e] = next]
            /\ submittedAt' = [submittedAt EXCEPT ![e] = stamp]
            /\ SyncBudget(Snapshot(e),
                          [Snapshot(e) EXCEPT !.status = next, !.submittedAt = stamp])
    BY <1>8 DEF SubmitCommit, ResolveInitialSubmitStatus
  <2>3. UNCHANGED <<owner, amount>>
    BY <1>8 DEF SubmitCommit
  <2> DEFINE after == [Snapshot(e) EXCEPT !.status = next, !.submittedAt = stamp]
  <2> HIDE DEF e, stamp
  <2>4. /\ after.department = Snapshot(e).department /\ after.submittedAt = stamp
        /\ after.status = next /\ after.amount = Snapshot(e).amount
    BY DEF Snapshot
  <2>5. Snapshot(e).department = DeptOf[owner[e]] /\ Snapshot(e).amount = amount[e]
    BY DEF Snapshot, ExpenseDept
  <2>6. /\ status'[e] = next /\ submittedAt'[e] = stamp
        /\ \A x \in Expenses \ {e} : status'[x] = status[x] /\ submittedAt'[x] = submittedAt[x]
    BY <2>1, <2>2 DEF TypeOK
  <2>7. SyncBudget(Snapshot(e), after)
    BY <2>2
  <2> HIDE DEF after
  <2> QED
    BY <2>1, <2>2, <2>3, <2>4, <2>5, <2>6, <2>7, BooksEntry
<1> QED
  BY <1>1, <1>2, <1>3, <1>4, <1>6, <1>7, <1>8, ExpenseStepCases

\* An empty database has empty books.
LEMMA BooksStartExact == Init => LedgerExact
<1> SUFFICES ASSUME Init, NEW key \in BudgetKeys
             PROVE  committed[key] = SpendOf(key, Booked) /\ reimbursed[key] = SpendOf(key, Paid)
  BY DEF LedgerExact, Booked, Pipeline, Paid
<1>1. \A e \in Expenses : status[e] \notin Booked /\ status[e] \notin Paid
  BY DEF Init, Booked, Pipeline, Paid
<1>2. SumOf(amount, {}) = 0
  BY SumEmpty
<1>3. /\ SpendOf(key, Booked) = SumOf(amount, {})
      /\ SpendOf(key, Paid) = SumOf(amount, {})
  <2>1. /\ Fitting(status, owner, submittedAt, key, Booked) = {}
        /\ Fitting(status, owner, submittedAt, key, Paid) = {}
    BY <1>1 DEF Fitting
  <2>2. /\ SpendOf(key, Booked) = SumOf(amount, Fitting(status, owner, submittedAt, key, Booked))
        /\ SpendOf(key, Paid) = SumOf(amount, Fitting(status, owner, submittedAt, key, Paid))
    BY DEF SpendOf, SumOf, Fitting, ExpenseDept
  <2> QED
    BY <2>1, <2>2
<1>4. committed[key] = 0 /\ reimbursed[key] = 0
  BY DEF Init
<1> QED
  BY <1>2, <1>3, <1>4

\* The amounts that every transition of an expense adds to its budget row never
\* drift from what the nightly recount over all expenses gives.
THEOREM BooksAreExact == Spec => []LedgerExact
<1>1. Inv /\ Inv' /\ LedgerExact /\ [Next]_vars => LedgerExact'
  BY BooksStayExact DEF Inv
<1>2. Init => LedgerExact
  BY BooksStartExact
<1> QED
  BY <1>1, <1>2, Invariance, PTL DEF Spec
-----------------------------------------------------------------------------
(* The limit.                                                              *)

\* With the switch on, no budget row holds more than its limit.
RowsWithinLimit ==
    BlockSubmitOnOverspend =>
        \A key \in BudgetKeys : HasBudget(key) => committed[key] <= Limits[key]

\* An entry that does not raise what the expense contributes raises no row.
LEMMA SmallerEntry ==
    ASSUME TypeOK, RowsWithinLimit, NEW before, NEW after, SyncBudget(before, after),
           \A key \in BudgetKeys :
              /\ Contribution(before, key) \in Nat /\ Contribution(after, key) \in Nat
              /\ \/ Contribution(after, key) <= Contribution(before, key)
                 \/ /\ BlockSubmitOnOverspend /\ HasBudget(key)
                       => committed[key] + Contribution(after, key) <= Limits[key]
                    /\ Contribution(before, key) = 0
    PROVE  RowsWithinLimit'
<1> SUFFICES ASSUME BlockSubmitOnOverspend, NEW key \in BudgetKeys, HasBudget(key)
             PROVE  committed'[key] <= Limits[key]
  BY DEF RowsWithinLimit, HasBudget
<1>1. committed[key] \in Nat /\ committed[key] <= Limits[key] /\ Limits[key] \in Nat
  <2>1. committed[key] \in Nat
    BY DEF TypeOK
  <2>2. Limits[key] \in Nat
    BY ParametersAssumption DEF HasBudget, BudgetKeys
  <2> QED
    BY <2>1, <2>2 DEF RowsWithinLimit
<1>2. \/ committed'[key] = committed[key]
      \/ committed'[key] = AtLeastZero(committed[key] + CommittedDelta(before, after, key))
  BY DEF SyncBudget
<1>3. CommittedDelta(before, after, key) = Contribution(after, key) - Contribution(before, key)
  BY DEF CommittedDelta
<1> DEFINE b == Contribution(before, key)
           a == Contribution(after, key)
<1>4. /\ b \in Nat /\ a \in Nat
      /\ a <= b \/ (committed[key] + a <= Limits[key] /\ b = 0)
  OBVIOUS
<1>5. \/ committed'[key] = committed[key]
      \/ committed'[key] = AtLeastZero(committed[key] + (a - b))
  BY <1>2, <1>3
<1> HIDE DEF a, b
<1> QED
  BY <1>1, <1>4, <1>5 DEF AtLeastZero

\* The amounts of a well-typed state are natural numbers.
LEMMA AmountsAreNat ==
    ASSUME TypeOK, NEW e \in Expenses
    PROVE  amount[e] \in Nat
<1>1. Amounts \cup {0} \subseteq Nat
  BY ParametersAssumption
<1> QED
  BY <1>1 DEF TypeOK

\* What an existing expense contributes is a natural number.
LEMMA ContributionIsNat ==
    ASSUME TypeOK, NEW e \in Expenses, NEW key
    PROVE  Contribution(Snapshot(e), key) \in Nat
  BY AmountsAreNat DEF Contribution, Snapshot

\* Only a submission raises a row, and it has tested the limit under its lock.
LEMMA RowsStayWithinLimit ==
    ASSUME TypeOK, SubmittedHaveInstant, RowsWithinLimit, [Next]_vars
    PROVE  RowsWithinLimit'
<1> USE DEF PendingStatuses
<1>1. CASE UNCHANGED budgetVars
  BY <1>1 DEF budgetVars, RowsWithinLimit, HasBudget
<1>2. ASSUME NEW e \in Expenses, NEW a \in Amounts, UpdateDraft(e, a)
      PROVE  RowsWithinLimit'
  <2> DEFINE after == [Snapshot(e) EXCEPT !.amount = a]
  <2>1. SyncBudget(Snapshot(e), after) /\ status[e] = "DRAFT"
    BY <1>2 DEF UpdateDraft
  <2>2. Snapshot(e).status = "DRAFT" /\ after.status = "DRAFT"
    BY <2>1 DEF Snapshot
  <2> HIDE DEF after
  <2>3. \A key : Contribution(Snapshot(e), key) = 0 /\ Contribution(after, key) = 0
    BY <2>2 DEF Contribution, CountsTowardCommittedBudget
  <2> QED
    BY <2>1, <2>3, SmallerEntry
<1>3. ASSUME NEW e \in Expenses, NEW next,
             SyncBudget(Snapshot(e), [Snapshot(e) EXCEPT !.status = next]),
             status[e] \in Pipeline
      PROVE  RowsWithinLimit'
  <2> DEFINE after == [Snapshot(e) EXCEPT !.status = next]
  <2>1. /\ after.department = Snapshot(e).department /\ after.amount = Snapshot(e).amount
        /\ after.submittedAt = Snapshot(e).submittedAt /\ Snapshot(e).status \in Pipeline
    BY <1>3 DEF Snapshot
  <2>2. SyncBudget(Snapshot(e), after)
    BY <1>3
  <2> HIDE DEF after
  <2>3. ASSUME NEW key
        PROVE  /\ Contribution(Snapshot(e), key) \in Nat /\ Contribution(after, key) \in Nat
               /\ Contribution(after, key) <= Contribution(Snapshot(e), key)
    <3>1. Contribution(Snapshot(e), key) \in Nat
      BY ContributionIsNat
    <3>2. Contribution(after, key) \in {0, Contribution(Snapshot(e), key)}
      BY <2>1 DEF Contribution, CountsTowardCommittedBudget, Pipeline
    <3> QED
      BY <3>1, <3>2
  <2> QED
    BY <2>2, <2>3, SmallerEntry
<1>4. ASSUME NEW e \in Expenses, Reimburse(e)
      PROVE  RowsWithinLimit'
  BY <1>3, <1>4 DEF Reimburse, Pipeline
<1>5. ASSUME NEW e \in Expenses, NEW l \in Levels, Approve(e, l) \/ Reject(e, l)
      PROVE  RowsWithinLimit'
  <2>1. \E next : SyncBudget(Snapshot(e), [Snapshot(e) EXCEPT !.status = next])
    BY <1>5 DEF Approve, Reject
  <2>2. status[e] \in Pipeline
    BY <1>5 DEF Approve, Reject, ReadyForDecision, ActiveStage, Pipeline
  <2> QED
    BY <1>3, <2>1, <2>2
<1>6. ASSUME NEW c \in Clients, SubmitCommit(c)
      PROVE  RowsWithinLimit'
  <2> DEFINE e == requests[c].expense
             stamp == requests[c].stamp
             at == <<ExpenseDept(e), YearOf[stamp]>>
  <2>1. e \in Expenses /\ status[e] = "DRAFT" /\ BudgetAllowsSubmit(at, amount[e])
    BY <1>6, RequestType DEF SubmitCommit, SubmitPasses, IsDraftUnderLock
  <2>2. PICK next : SyncBudget(Snapshot(e),
                          [Snapshot(e) EXCEPT !.status = next, !.submittedAt = stamp])
    BY <1>6 DEF SubmitCommit
  <2> DEFINE after == [Snapshot(e) EXCEPT !.status = next, !.submittedAt = stamp]
  <2>3. SyncBudget(Snapshot(e), after)
    BY <2>2
  <2> HIDE DEF e, stamp
  <2>4. /\ after.department = ExpenseDept(e) /\ after.submittedAt = stamp
        /\ after.amount = amount[e] /\ Snapshot(e).status = "DRAFT"
    BY <2>1 DEF Snapshot
  <2>5. amount[e] \in Nat
    BY <2>1, AmountsAreNat
  <2> HIDE DEF after
  <2>6. \A key : /\ Contribution(Snapshot(e), key) = 0
                 /\ Contribution(after, key) = 0
                      \/ (key = at /\ Contribution(after, key) = amount[e])
    BY <2>4 DEF Contribution, CountsTowardCommittedBudget
  <2> HIDE DEF at
  <2>7. \A key \in BudgetKeys :
          /\ Contribution(Snapshot(e), key) \in Nat /\ Contribution(after, key) \in Nat
          /\ \/ Contribution(after, key) <= Contribution(Snapshot(e), key)
             \/ /\ BlockSubmitOnOverspend /\ HasBudget(key)
                   => committed[key] + Contribution(after, key) <= Limits[key]
                /\ Contribution(Snapshot(e), key) = 0
    BY <2>1, <2>5, <2>6 DEF BudgetAllowsSubmit
  <2> QED
    BY <2>3, <2>7, SmallerEntry
<1>7. ASSUME NEW e \in Expenses, NEW u \in Users, NEW a \in Amounts, Create(e, u, a)
      PROVE  UNCHANGED budgetVars
  BY <1>7 DEF Create
<1>8. ASSUME NEW e \in Expenses, Remove(e) \/ Reopen(e)
      PROVE  UNCHANGED budgetVars
  BY <1>8 DEF Remove, Reopen
<1> QED
  BY <1>1, <1>2, <1>4, <1>5, <1>6, <1>7, <1>8, ExpenseStepCases

\* With BUDGET_BLOCK_SUBMIT_ON_OVERSPEND the pending, approved and paid spend of a
\* department never exceeds its limit of the year, whatever submissions, edits and
\* decisions interleave.
THEOREM SpendStaysWithinLimit == Spec => []WithinLimit
<1>1. Inv /\ RowsWithinLimit /\ [Next]_vars => RowsWithinLimit'
  BY RowsStayWithinLimit DEF Inv
<1>2. Init => RowsWithinLimit
  <2> SUFFICES ASSUME Init, NEW key \in BudgetKeys, HasBudget(key)
               PROVE  committed[key] <= Limits[key]
    BY DEF RowsWithinLimit
  <2>1. Limits[key] \in Nat
    BY ParametersAssumption DEF HasBudget, BudgetKeys
  <2> QED
    BY <2>1 DEF Init
<1>3. LedgerExact /\ RowsWithinLimit => WithinLimit
  BY DEF LedgerExact, RowsWithinLimit, WithinLimit
<1> QED
  BY <1>1, <1>2, <1>3, Invariance, BooksAreExact, PTL DEF Spec
-----------------------------------------------------------------------------
(* The books are ledgers.                                                  *)

\* An expense goes to a status with an instant, and its budget row is synced.
MovesTo(e, next, stamp) ==
    /\ status' = [status EXCEPT ![e] = next]
    /\ submittedAt' = [submittedAt EXCEPT ![e] = stamp]
    /\ UNCHANGED <<owner, amount>>
    /\ \E after :
          /\ SyncBudget(Snapshot(e), after)
          /\ after.status = next /\ after.submittedAt = stamp
          /\ after.department = ExpenseDept(e) /\ after.amount = amount[e]

BookOf(e, stamp) == <<ExpenseDept(e), YearOf[stamp]>>

\* A move shows in the book of one department and year: at most this expense
\* changes its stage there.
LEMMA MoveInBook ==
    ASSUME TypeOK, NEW e \in Expenses, NEW next \in Statuses, NEW stamp \in Instants,
           MovesTo(e, next, stamp), NEW key
    PROVE  /\ \A x \in Expenses \ {e} : StageIn(key, x)' = StageIn(key, x)
           /\ StageIn(key, e)' = IF next \in Booked /\ key = BookOf(e, stamp)
                                 THEN IF next = "REIMBURSED" THEN "paid" ELSE "charged"
                                 ELSE "open"
<1>1. /\ status'[e] = next /\ submittedAt'[e] = stamp /\ stamp # 0
      /\ \A x \in Expenses \ {e} : status'[x] = status[x] /\ submittedAt'[x] = submittedAt[x]
      /\ owner' = owner
  BY DEF MovesTo, TypeOK, Instants
<1>2. \A x \in Expenses \ {e} : StageIn(key, x)' = StageIn(key, x)
  BY <1>1 DEF StageIn, ExpenseDept
<1>3. StageIn(key, e)' = IF next \in Booked /\ key = BookOf(e, stamp)
                         THEN IF next = "REIMBURSED" THEN "paid" ELSE "charged"
                         ELSE "open"
  BY <1>1 DEF StageIn, ExpenseDept, BookOf, Booked, Pipeline
<1> QED
  BY <1>2, <1>3

\* What a move that is no payment does to the row of one department and year.
LEMMA MoveOnRow ==
    ASSUME TypeOK, NEW e \in Expenses, NEW next \in Statuses, NEW stamp \in Instants,
           MovesTo(e, next, stamp), next # "REIMBURSED", NEW key \in BudgetKeys
    PROVE  /\ reimbursed'[key] = reimbursed[key]
           /\ committed'[key] =
                IF HasBudget(key)
                THEN AtLeastZero(committed[key]
                       + ( (IF next \in Pipeline /\ key = BookOf(e, stamp) THEN amount[e] ELSE 0)
                         - (IF /\ status[e] \in Pipeline /\ submittedAt[e] # 0
                               /\ key = BookOf(e, submittedAt[e])
                            THEN amount[e] ELSE 0) ))
                ELSE committed[key]
<1>1. PICK after :
         /\ SyncBudget(Snapshot(e), after)
         /\ after.status = next /\ after.submittedAt = stamp
         /\ after.department = ExpenseDept(e) /\ after.amount = amount[e]
  BY DEF MovesTo
<1>2. stamp # 0 /\ ~IsReimbursementTransition(Snapshot(e), after)
  BY <1>1 DEF IsReimbursementTransition, Instants
<1>3. Contribution(after, key) = IF next \in Pipeline /\ key = BookOf(e, stamp)
                                 THEN amount[e] ELSE 0
  BY <1>1, <1>2 DEF Contribution, CountsTowardCommittedBudget, Pipeline, BookOf
<1>4. Contribution(Snapshot(e), key) =
        IF status[e] \in Pipeline /\ submittedAt[e] # 0 /\ key = BookOf(e, submittedAt[e])
        THEN amount[e] ELSE 0
  BY DEF Contribution, CountsTowardCommittedBudget, Pipeline, BookOf, Snapshot
<1>5. /\ reimbursed' = reimbursed
      /\ committed'[key] = IF HasBudget(key)
                           THEN AtLeastZero(committed[key] + CommittedDelta(Snapshot(e), after, key))
                           ELSE committed[key]
  BY <1>1, <1>2 DEF SyncBudget
<1> QED
  BY <1>3, <1>4, <1>5 DEF CommittedDelta

\* A submission that the overspend test lets through is charged to the book of its
\* department and of the year of its instant, and to no other.
LEMMA SubmissionCharges ==
    ASSUME TypeOK, NEW e \in Expenses, status[e] = "DRAFT",
           NEW next \in Pipeline, NEW stamp \in Instants, MovesTo(e, next, stamp),
           BudgetAllowsSubmit(BookOf(e, stamp), amount[e]), NEW key \in BudgetKeys
    PROVE  [DepartmentLedger(key)!LedgerNext]_(DepartmentLedger(key)!ledgerVars)
<1>1. /\ next \in Statuses /\ next \in Booked /\ next # "REIMBURSED"
      /\ status[e] \notin Pipeline /\ status[e] \notin Booked
  BY DEF Pipeline, Booked, Statuses
<1>2. amount[e] \in Nat /\ committed[key] \in Nat /\ amount' = amount
  BY AmountsAreNat DEF TypeOK, MovesTo
<1>3. StageIn(key, e) = "open"
  BY <1>1 DEF StageIn
<1>4. /\ reimbursed'[key] = reimbursed[key]
      /\ committed'[key] = IF HasBudget(key) /\ key = BookOf(e, stamp)
                           THEN committed[key] + amount[e] ELSE committed[key]
  BY <1>1, <1>2, MoveOnRow DEF AtLeastZero
<1>5. CASE key = BookOf(e, stamp)
  <2>1. [x \in Expenses |-> StageIn(key, x)']
          = [[x \in Expenses |-> StageIn(key, x)] EXCEPT ![e] = "charged"]
    <3>1. StageIn(key, e)' = "charged" /\ \A x \in Expenses \ {e} : StageIn(key, x)' = StageIn(key, x)
      BY <1>1, <1>5, MoveInBook
    <3> QED
      BY <3>1
  <2>2. BlockSubmitOnOverspend /\ Limits[key] # NoBudget =>
          committed[key] + amount[e] <= Limits[key]
    BY <1>5 DEF BudgetAllowsSubmit, HasBudget
  <2>3. DepartmentLedger(key)!Charge(e)
    BY <1>2, <1>3, <1>4, <1>5, <2>1, <2>2 DEF DepartmentLedger!Charge, HasBudget
  <2> QED
    BY <2>3 DEF DepartmentLedger!LedgerNext
<1>6. CASE key # BookOf(e, stamp)
  <2>1. [x \in Expenses |-> StageIn(key, x)'] = [x \in Expenses |-> StageIn(key, x)]
    <3>1. /\ StageIn(key, e)' = StageIn(key, e)
          /\ \A x \in Expenses \ {e} : StageIn(key, x)' = StageIn(key, x)
      BY <1>1, <1>3, <1>6, MoveInBook
    <3> QED
      BY <3>1
  <2> QED
    BY <1>2, <1>4, <1>6, <2>1 DEF DepartmentLedger!ledgerVars
<1> QED
  BY <1>5, <1>6

\* A decision keeps an expense in its book; a rejection releases it there.
LEMMA DecisionReleases ==
    ASSUME TypeOK, NEW e \in Expenses, status[e] \in Pipeline,
           NEW stamp \in Instants, submittedAt[e] = stamp,
           NEW next \in Pipeline \cup {"REJECTED"}, MovesTo(e, next, stamp),
           NEW key \in BudgetKeys
    PROVE  [DepartmentLedger(key)!LedgerNext]_(DepartmentLedger(key)!ledgerVars)
<1>0. next \in Statuses
  BY DEF Pipeline, Statuses
<1>1. /\ next # "REIMBURSED" /\ (next \in Booked <=> next \in Pipeline)
      /\ status[e] \in Booked /\ status[e] # "REIMBURSED" /\ stamp # 0
  BY DEF Pipeline, Booked, Instants
<1>2. amount[e] \in Nat /\ committed[key] \in Nat /\ amount' = amount
  BY AmountsAreNat DEF TypeOK, MovesTo
<1>3. StageIn(key, e) = IF key = BookOf(e, stamp) THEN "charged" ELSE "open"
  BY <1>1 DEF StageIn, BookOf, Booked, Pipeline
<1>4. /\ reimbursed'[key] = reimbursed[key]
      /\ committed'[key] = IF HasBudget(key) /\ key = BookOf(e, stamp) /\ next \notin Pipeline
                           THEN AtLeastZero(committed[key] - amount[e]) ELSE committed[key]
  BY <1>0, <1>1, <1>2, MoveOnRow DEF AtLeastZero
<1>5. CASE key = BookOf(e, stamp) /\ next \notin Pipeline
  <2>1. [x \in Expenses |-> StageIn(key, x)']
          = [[x \in Expenses |-> StageIn(key, x)] EXCEPT ![e] = "open"]
    <3>1. StageIn(key, e)' = "open" /\ \A x \in Expenses \ {e} : StageIn(key, x)' = StageIn(key, x)
      BY <1>0, <1>1, <1>5, MoveInBook
    <3> QED
      BY <3>1
  <2>2. DepartmentLedger(key)!Release(e)
    BY <1>2, <1>3, <1>4, <1>5, <2>1
    DEF DepartmentLedger!Release, DepartmentLedger!AtLeastZero, AtLeastZero, HasBudget
  <2> QED
    BY <2>2 DEF DepartmentLedger!LedgerNext
<1>6. CASE ~(key = BookOf(e, stamp) /\ next \notin Pipeline)
  <2>1. [x \in Expenses |-> StageIn(key, x)'] = [x \in Expenses |-> StageIn(key, x)]
    <3>1. /\ StageIn(key, e)' = IF next \in Booked /\ key = BookOf(e, stamp)
                                THEN IF next = "REIMBURSED" THEN "paid" ELSE "charged"
                                ELSE "open"
          /\ \A x \in Expenses \ {e} : StageIn(key, x)' = StageIn(key, x)
      BY <1>0, MoveInBook
    <3>2. StageIn(key, e)' = StageIn(key, e)
      BY <1>1, <1>3, <1>6, <3>1
    <3> QED
      BY <3>1, <3>2
  <2> QED
    BY <1>2, <1>4, <1>6, <2>1 DEF DepartmentLedger!ledgerVars
<1> QED
  BY <1>5, <1>6

\* A reimbursement pays an expense in the book it was charged to.
LEMMA ReimbursementPays ==
    ASSUME TypeOK, NEW e \in Expenses, submittedAt[e] # 0, Reimburse(e), NEW key \in BudgetKeys
    PROVE  [DepartmentLedger(key)!LedgerNext]_(DepartmentLedger(key)!ledgerVars)
<1> DEFINE stamp == submittedAt[e]
           after == [Snapshot(e) EXCEPT !.status = "REIMBURSED"]
<1>1. /\ stamp \in Instants /\ "REIMBURSED" \in Statuses /\ "REIMBURSED" \in Booked
      /\ status[e] = "APPROVED"
  BY DEF Booked, Statuses, TypeOK, Reimburse
<1>2. amount' = amount /\ SyncBudget(Snapshot(e), after)
  BY DEF Reimburse
<1>3. /\ after.department = ExpenseDept(e) /\ after.submittedAt = stamp
      /\ after.status = "REIMBURSED" /\ after.amount = amount[e]
      /\ Snapshot(e).status = "APPROVED"
  BY <1>1 DEF Snapshot
<1> HIDE DEF after
<1>4. /\ committed' = committed
      /\ reimbursed'[key] = IF HasBudget(key) /\ key = BookOf(e, stamp)
                            THEN reimbursed[key] + amount[e] ELSE reimbursed[key]
  BY <1>2, <1>3 DEF SyncBudget, IsReimbursementTransition, BookOf
<1>5. StageIn(key, e) = IF key = BookOf(e, stamp) THEN "charged" ELSE "open"
  BY <1>1 DEF StageIn, BookOf
<1>6. [x \in Expenses |-> StageIn(key, x)']
        = [[x \in Expenses |-> StageIn(key, x)] EXCEPT
             ![e] = IF key = BookOf(e, stamp) THEN "paid" ELSE "open"]
  <2>1. /\ status'[e] = "REIMBURSED" /\ owner' = owner /\ submittedAt' = submittedAt
        /\ \A x \in Expenses \ {e} : status'[x] = status[x]
    BY DEF Reimburse, TypeOK
  <2>2. \A x \in Expenses \ {e} : StageIn(key, x)' = StageIn(key, x)
    BY <2>1 DEF StageIn, ExpenseDept
  <2>3. StageIn(key, e)' = IF key = BookOf(e, stamp) THEN "paid" ELSE "open"
    BY <2>1 DEF StageIn, ExpenseDept, BookOf
  <2> QED
    BY <2>2, <2>3
<1>7. CASE key = BookOf(e, stamp)
  <2>1. [x \in Expenses |-> StageIn(key, x)']
          = [[x \in Expenses |-> StageIn(key, x)] EXCEPT ![e] = "paid"]
    BY <1>6, <1>7
  <2>2. DepartmentLedger(key)!Pay(e)
    BY <1>2, <1>4, <1>5, <1>7, <2>1 DEF DepartmentLedger!Pay, HasBudget
  <2> QED
    BY <2>2 DEF DepartmentLedger!LedgerNext
<1>8. CASE key # BookOf(e, stamp)
  <2>1. [x \in Expenses |-> StageIn(key, x)'] = [x \in Expenses |-> StageIn(key, x)]
    BY <1>5, <1>6, <1>8
  <2> QED
    BY <1>2, <1>4, <1>8, <2>1 DEF DepartmentLedger!ledgerVars
<1> QED
  BY <1>7, <1>8

\* The amount of an expense is set while it is in no book.
LEMMA DraftReprices ==
    ASSUME TypeOK, TypeOK', NEW e \in Expenses, NEW a \in Amounts,
           UpdateDraft(e, a) \/ \E u \in Users : Create(e, u, a), NEW key \in BudgetKeys
    PROVE  DepartmentLedger(key)!Reprice(e)
<1>1. /\ status[e] \in {"ABSENT", "DRAFT"} /\ status'[e] = "DRAFT"
      /\ amount' = [amount EXCEPT ![e] = a]
      /\ submittedAt' = submittedAt
      /\ \A x \in Expenses \ {e} : status'[x] = status[x] /\ owner'[x] = owner[x]
  BY DEF Create, UpdateDraft, TypeOK
<1>2. amount'[e] = a /\ a \in Nat
  <2>1. amount'[e] = a
    BY <1>1 DEF TypeOK
  <2>2. a \in Nat
    BY ParametersAssumption
  <2> QED
    BY <2>1, <2>2
<1>3. [x \in Expenses |-> StageIn(key, x)'] = [x \in Expenses |-> StageIn(key, x)]
  <2>1. StageIn(key, e) = "open" /\ StageIn(key, e)' = "open"
    BY <1>1 DEF StageIn
  <2>2. \A x \in Expenses \ {e} : StageIn(key, x)' = StageIn(key, x)
    BY <1>1 DEF StageIn, ExpenseDept
  <2> QED
    BY <2>1, <2>2
<1>4. committed'[key] = committed[key] /\ reimbursed'[key] = reimbursed[key]
  <2>1. CASE \E u \in Users : Create(e, u, a)
    BY <2>1 DEF Create, budgetVars
  <2>2. CASE UpdateDraft(e, a)
    <3> DEFINE after == [Snapshot(e) EXCEPT !.amount = a]
    <3>1. /\ Snapshot(e).status = "DRAFT" /\ after.status = "DRAFT"
          /\ SyncBudget(Snapshot(e), after)
      BY <2>2 DEF UpdateDraft, Snapshot
    <3>2. Contribution(Snapshot(e), key) = 0 /\ Contribution(after, key) = 0
      BY <3>1 DEF Contribution, CountsTowardCommittedBudget
    <3> HIDE DEF after
    <3>3. committed[key] \in Nat
      BY DEF TypeOK
    <3> QED
      BY <3>1, <3>2, <3>3
      DEF SyncBudget, IsReimbursementTransition, CommittedDelta, AtLeastZero
  <2> QED
    BY <2>1, <2>2
<1>5. StageIn(key, e) = "open"
  BY <1>1 DEF StageIn
<1> QED
  BY <1>1, <1>2, <1>3, <1>4, <1>5 DEF DepartmentLedger!Reprice

\* Every step of the workflow is an entry, a new amount or nothing, in every book.
LEMMA StepIsLedgerStep ==
    ASSUME TypeOK, TypeOK', SubmittedHaveInstant, [Next]_vars, NEW key \in BudgetKeys
    PROVE  [DepartmentLedger(key)!LedgerNext]_(DepartmentLedger(key)!ledgerVars)
<1> USE DEF PendingStatuses
<1>1. CASE UNCHANGED <<expenseVars, budgetVars>>
  BY <1>1 DEF expenseVars, budgetVars, StageIn, ExpenseDept, DepartmentLedger!ledgerVars
<1>2. ASSUME NEW e \in Expenses, NEW a \in Amounts,
             UpdateDraft(e, a) \/ \E u \in Users : Create(e, u, a)
      PROVE  DepartmentLedger(key)!LedgerNext
  <2>1. DepartmentLedger(key)!Reprice(e)
    BY <1>2, DraftReprices
  <2> QED
    BY <2>1 DEF DepartmentLedger!LedgerNext
<1>3. ASSUME NEW e \in Expenses, Remove(e) \/ Reopen(e)
      PROVE  UNCHANGED DepartmentLedger(key)!ledgerVars
  <2>1. /\ status[e] \in {"DRAFT", "REJECTED"} /\ status'[e] \in {"DELETED", "DRAFT"}
        /\ \A x \in Expenses \ {e} : status'[x] = status[x]
        /\ UNCHANGED <<owner, amount, submittedAt, committed, reimbursed>>
    BY <1>3 DEF Remove, Reopen, TypeOK, budgetVars
  <2>2. \A x \in Expenses : StageIn(key, x)' = StageIn(key, x)
    BY <2>1 DEF StageIn, ExpenseDept
  <2> QED
    BY <2>1, <2>2 DEF DepartmentLedger!ledgerVars
<1>4. ASSUME NEW e \in Expenses, Reimburse(e)
      PROVE  [DepartmentLedger(key)!LedgerNext]_(DepartmentLedger(key)!ledgerVars)
  <2>1. submittedAt[e] # 0
    BY <1>4 DEF Reimburse, SubmittedHaveInstant
  <2> QED
    BY <1>4, <2>1, ReimbursementPays
<1>5. ASSUME NEW e \in Expenses, NEW l \in Levels, Approve(e, l) \/ Reject(e, l)
      PROVE  [DepartmentLedger(key)!LedgerNext]_(DepartmentLedger(key)!ledgerVars)
  <2>1. PICK next \in {"APPROVED", "UNDER_REVIEW", "REJECTED"} :
           /\ SyncBudget(Snapshot(e), [Snapshot(e) EXCEPT !.status = next])
           /\ status' = [status EXCEPT ![e] = next]
           /\ UNCHANGED <<owner, amount, submittedAt>>
    BY <1>5 DEF Approve, Reject, ResolveStatusAfterLevelApproval
  <2>2. status[e] \in Pipeline /\ submittedAt[e] # 0
    BY <1>5 DEF Approve, Reject, ReadyForDecision, ActiveStage, Pipeline, SubmittedHaveInstant
  <2>3. next \in Pipeline \cup {"REJECTED"}
    BY DEF Pipeline
  <2> DEFINE after == [Snapshot(e) EXCEPT !.status = next]
  <2>4. /\ after.status = next /\ after.submittedAt = submittedAt[e]
        /\ after.department = ExpenseDept(e) /\ after.amount = amount[e]
    BY DEF Snapshot
  <2>5. submittedAt' = [submittedAt EXCEPT ![e] = submittedAt[e]]
    BY <2>1 DEF TypeOK
  <2>6. SyncBudget(Snapshot(e), after)
    BY <2>1
  <2> HIDE DEF after
  <2>7. MovesTo(e, next, submittedAt[e])
    BY <2>1, <2>4, <2>5, <2>6 DEF MovesTo
  <2>8. submittedAt[e] \in Instants
    BY <2>2 DEF TypeOK
  <2> QED
    BY <2>2, <2>3, <2>7, <2>8, DecisionReleases
<1>6. ASSUME NEW c \in Clients, SubmitCommit(c)
      PROVE  [DepartmentLedger(key)!LedgerNext]_(DepartmentLedger(key)!ledgerVars)
  <2> DEFINE e == requests[c].expense
             stamp == requests[c].stamp
  <2>1. /\ e \in Expenses /\ stamp \in Instants /\ status[e] = "DRAFT"
        /\ BudgetAllowsSubmit(BookOf(e, stamp), amount[e])
    BY <1>6, RequestType DEF SubmitCommit, SubmitPasses, IsDraftUnderLock, BookOf
  <2>2. PICK next \in Pipeline :
            /\ status' = [status EXCEPT ![e] = next]
            /\ submittedAt' = [submittedAt EXCEPT ![e] = stamp]
            /\ SyncBudget(Snapshot(e),
                          [Snapshot(e) EXCEPT !.status = next, !.submittedAt = stamp])
            /\ UNCHANGED <<owner, amount>>
    BY <1>6 DEF SubmitCommit, ResolveInitialSubmitStatus, Pipeline
  <2> DEFINE after == [Snapshot(e) EXCEPT !.status = next, !.submittedAt = stamp]
  <2> HIDE DEF e, stamp
  <2>3. /\ after.status = next /\ after.submittedAt = stamp
        /\ after.department = ExpenseDept(e) /\ after.amount = amount[e]
    BY DEF Snapshot
  <2>4. SyncBudget(Snapshot(e), after)
    BY <2>2
  <2> HIDE DEF after
  <2>5. MovesTo(e, next, stamp)
    BY <2>2, <2>3, <2>4 DEF MovesTo
  <2> QED
    BY <2>1, <2>5, SubmissionCharges
<1> QED
  BY <1>1, <1>2, <1>3, <1>4, <1>5, <1>6, ExpenseStepCases

\* An empty database is an empty ledger for every department and year.
LEMMA LedgersStartEmpty ==
    ASSUME Init, NEW key \in BudgetKeys
    PROVE  DepartmentLedger(key)!LedgerInit
<1>1. \A e \in Expenses : StageIn(key, e) = "open"
  BY DEF Init, StageIn
<1>2. amount \in [Expenses -> Nat]
  BY DEF Init
<1>3. Limits[key] \in Nat \cup {NoBudget}
  BY ParametersAssumption DEF BudgetKeys
<1> QED
  BY <1>1, <1>2, <1>3 DEF Init, DepartmentLedger!LedgerInit

\* The workflow implements, at the budget row of every department and year, the
\* ledger of indivisible entries that the transactions of budget-committed.query
\* are proved to implement (BudgetImplementsLedger): between the two, no step of an
\* expense is entered twice, in a wrong book, or against an amount it no longer has.
THEOREM WorkflowImplementsLedgers == Spec => BudgetsAreLedgers
<1>1. Init => \A key \in BudgetKeys : DepartmentLedger(key)!LedgerInit
  BY LedgersStartEmpty
<1>2. Inv /\ Inv' /\ [Next]_vars =>
        \A key \in BudgetKeys :
           [DepartmentLedger(key)!LedgerNext]_(DepartmentLedger(key)!ledgerVars)
  BY StepIsLedgerStep DEF Inv
<1> QED
  BY <1>1, <1>2, Invariance, PTL DEF Spec, BudgetsAreLedgers

\* The same, row by row, as the specification of the ledger itself.
THEOREM EveryRowIsALedger ==
    ASSUME NEW key \in BudgetKeys
    PROVE  Spec => DepartmentLedger(key)!LedgerSpec
<1>1. Init => DepartmentLedger(key)!LedgerInit
  BY LedgersStartEmpty
<1>2. Inv /\ Inv' /\ [Next]_vars =>
        [DepartmentLedger(key)!LedgerNext]_(DepartmentLedger(key)!ledgerVars)
  BY StepIsLedgerStep DEF Inv
<1> QED
  BY <1>1, <1>2, Invariance, PTL DEF Spec, DepartmentLedger!LedgerSpec
-----------------------------------------------------------------------------
(* Nothing pending is stuck.                                               *)

\* The chain of a pending expense has a stage left to decide, was decided from its
\* first stage on, has someone for every stage, and its status tells whether a
\* manager who comes first has decided.
ChainIsMoving(e) ==
    /\ \E l \in RequiredLevels(e) : decisions[e][l] = "NONE"
    /\ \A k, l \in RequiredLevels(e) :
          Before(levels, k, l) /\ decisions[e][l] # "NONE" => decisions[e][k] # "NONE"
    /\ \A l \in RequiredLevels(e) : SomeoneMayAct(e, l)
    /\ \A l \in RequiredLevels(e) :
          IsFirst(levels, RequiredLevels(e), l) =>
             IF status[e] = "SUBMITTED" THEN levels[l].approverType = "DEPARTMENT_MANAGER"
             ELSE levels[l].approverType = "DEPARTMENT_MANAGER" => decisions[e][l] # "NONE"

PendingAreMoving == \A e \in Expenses : status[e] \in PendingStatuses => ChainIsMoving(e)

\* The levels an expense requires are rows with a place and an approver type, and
\* only one of them is first.
LEMMA RequiredAreLevels ==
    ASSUME TypeOK, ChainIsOrdered, NEW e \in Expenses
    PROVE  /\ \A l \in RequiredLevels(e) :
                /\ l \in Levels /\ levels[l] # NoLevel /\ levels[l].level \in Nat
                /\ levels[l].isActive /\ levels[l].approverType \in ApproverTypes
           /\ \A k, l \in RequiredLevels(e) :
                IsFirst(levels, RequiredLevels(e), k) /\ IsFirst(levels, RequiredLevels(e), l)
                    => k = l
<1>1. \A l \in RequiredLevels(e) : l \in Levels /\ levels[l] # NoLevel /\ levels[l].isActive
  BY DEF RequiredLevels, GetRequiredLevels, TypeOK
<1>2. \A l \in RequiredLevels(e) : levels[l] \in ApprovalLevel
  BY <1>1, ParametersAssumption DEF TypeOK
<1>3. \A l \in RequiredLevels(e) : levels[l].level \in Nat /\ levels[l].approverType \in ApproverTypes
  BY <1>2 DEF ApprovalLevel
<1>4. ASSUME NEW k \in RequiredLevels(e), NEW l \in RequiredLevels(e),
             IsFirst(levels, RequiredLevels(e), k), IsFirst(levels, RequiredLevels(e), l)
      PROVE  k = l
  <2>1. ~(levels[k].level < levels[l].level) /\ ~(levels[l].level < levels[k].level)
    BY <1>4 DEF IsFirst, Before
  <2>2. levels[k].level = levels[l].level
    BY <1>3, <2>1
  <2> QED
    BY <1>1, <2>2 DEF ChainIsOrdered
<1> QED
  BY <1>1, <1>3, <1>4

\* A moving chain has a stage that can be decided: the first one left.
LEMMA MovingCanBeDecided ==
    ASSUME TypeOK, ChainIsOrdered, DecisionsMatchStatus, NEW e \in Expenses,
           status[e] \in PendingStatuses, ChainIsMoving(e)
    PROVE  \E l \in Levels : ReadyForDecision(e, l)
<1> DEFINE req == RequiredLevels(e)
           left == {l \in req : decisions[e][l] = "NONE"}
           place == [l \in Levels |-> levels[l].level]
<1>1. left # {}
  BY DEF ChainIsMoving
<1>2. \A l \in left : place[l] \in Nat
  BY RequiredAreLevels
<1>3. PICK l \in left : \A k \in left : place[l] <= place[k]
  <2> HIDE DEF left, place
  <2> QED
    BY <1>1, <1>2, LeastExists
<1>4. l \in req /\ l \in Levels /\ decisions[e][l] = "NONE"
  BY RequiredAreLevels
<1>5. \A k \in req : Before(levels, k, l) => k \notin left
  <2> SUFFICES ASSUME NEW k \in left, Before(levels, k, l) PROVE FALSE
    OBVIOUS
  <2>1. k \in Levels /\ levels[k].level \in Nat /\ levels[l].level \in Nat
    BY <1>4, RequiredAreLevels
  <2>2. place[k] = levels[k].level /\ place[l] = levels[l].level
    BY <1>4, <2>1
  <2>3. levels[l].level <= levels[k].level
    BY <1>3, <2>2
  <2> QED
    BY <2>1, <2>3 DEF Before
<1>6. \A k \in req : decisions[e][k] \in {"NONE", "APPROVED"}
  <2>1. \A k \in req : k \in Levels
    BY RequiredAreLevels
  <2>2. \A k \in Levels : decisions[e][k] \in {"NONE", "APPROVED"}
    BY DEF DecisionsMatchStatus, PendingStatuses, TypeOK, Decisions
  <2> QED
    BY <2>1, <2>2
<1>7. ActiveStage(e, l)
  BY <1>4, <1>5, <1>6 DEF ActiveStage, IsActiveStage
<1>8. StatusFitsStage(levels, req, l, status[e])
  <2>1. CASE IsFirst(levels, req, l) /\ levels[l].approverType = "DEPARTMENT_MANAGER"
    <3>1. status[e] = "SUBMITTED"
      BY <1>4, <2>1 DEF ChainIsMoving
    <3> QED
      BY <2>1, <3>1 DEF StatusFitsStage
  <2>2. CASE ~(IsFirst(levels, req, l) /\ levels[l].approverType = "DEPARTMENT_MANAGER")
    <3>1. ASSUME status[e] = "SUBMITTED" PROVE FALSE
      <4>1. left = req
        <5>1. \A k \in req : k \in Levels
          BY RequiredAreLevels
        <5> QED
          BY <3>1, <5>1 DEF DecisionsMatchStatus
      <4>2. IsFirst(levels, req, l)
        BY <1>4, <1>5, <4>1 DEF IsFirst
      <4> QED
        BY <1>4, <2>2, <3>1, <4>2 DEF ChainIsMoving
    <3>2. status[e] = "UNDER_REVIEW"
      BY <3>1 DEF PendingStatuses
    <3> QED
      BY <2>2, <3>2 DEF StatusFitsStage
  <2> QED
    BY <2>1, <2>2
<1>9. SomeoneMayAct(e, l)
  BY <1>4 DEF ChainIsMoving
<1> QED
  BY <1>4, <1>7, <1>8, <1>9 DEF ReadyForDecision

\* What a chain is derived from: the administration, and the expense itself.
LEMMA SameRowsSameChain ==
    ASSUME NEW e \in Expenses, UNCHANGED <<levels, managerOf, deptActive>>,
           owner'[e] = owner[e], amount'[e] = amount[e]
    PROVE  /\ RequiredLevels(e)' = RequiredLevels(e)
           /\ \A l : SomeoneMayAct(e, l)' <=> SomeoneMayAct(e, l)
  BY DEF RequiredLevels, SkipsManagerStage, SomeoneMayAct, ExpenseDept, GetRequiredLevels,
         LevelAppliesToExpense

\* Administrators who wait until nothing is pending leave every pending chain alone.
LEMMA AdministrationWaits ==
    ASSUME EditsOnlyWhenIdle, [Next]_vars
    PROVE  \/ UNCHANGED <<levels, managerOf, deptActive>>
           \/ NothingPending /\ UNCHANGED expenseVars
<1>1. CASE UNCHANGED vars
  BY <1>1 DEF vars, adminVars
<1>2. ASSUME NEW e \in Expenses, Draft(e) \/ Decide(e)
      PROVE  UNCHANGED <<levels, managerOf, deptActive>>
  BY <1>2 DEF Draft, Decide, Create, UpdateDraft, Remove, Approve, Reject,
              HealWithNoApprovalChain, Reopen, Reimburse, adminVars
<1>3. ASSUME NEW c \in Clients, Submit(c)
      PROVE  UNCHANGED <<levels, managerOf, deptActive>>
  BY <1>3 DEF Submit, SubmitCheck, SubmitCommit, SubmitRollback, adminVars
<1>4. ASSUME NEW d \in Depts, AdministerDepartment(d)
      PROVE  \/ UNCHANGED <<levels, managerOf, deptActive>>
             \/ NothingPending /\ UNCHANGED expenseVars
  BY <1>4 DEF AdministerDepartment, AssignManager, ClearManagerCheck,
              ClearManagerCommit, SetDepartmentActive, MayEdit
<1>5. ASSUME NEW l \in Levels, AdministerLevel(l)
      PROVE  NothingPending /\ UNCHANGED expenseVars
  BY <1>5 DEF AdministerLevel, CreateLevel, UpdateLevel, RemoveLevel, MayEdit,
              LevelUnchangedElsewhere
<1>6. CASE Next
  BY <1>2, <1>3, <1>4, <1>5, <1>6 DEF Next
<1> QED
  BY <1>1, <1>6

\* A step that changes nothing of an expense and its chain keeps it moving.
LEMMA UndisturbedKeepsMoving ==
    ASSUME NEW e \in Expenses, ChainIsMoving(e), UNCHANGED <<levels, managerOf, deptActive>>,
           owner'[e] = owner[e], amount'[e] = amount[e], status'[e] = status[e],
           decisions'[e] = decisions[e]
    PROVE  ChainIsMoving(e)'
<1>1. /\ RequiredLevels(e)' = RequiredLevels(e)
      /\ \A l : SomeoneMayAct(e, l)' <=> SomeoneMayAct(e, l)
  BY SameRowsSameChain
<1> QED
  BY <1>1 DEF ChainIsMoving, Before, IsFirst

\* A submission starts a chain that moves: whoever it skips now is skipped later,
\* and the manager it found is there.
LEMMA SubmissionStartsChain ==
    ASSUME TypeOK, ChainIsOrdered, DecisionsMatchStatus, NEW e \in Expenses, NEW key,
           SubmitPasses(e, key), NEW next,
           next = ResolveInitialSubmitStatus(levels, SubmitRequiredLevels(e)),
           next \in PendingStatuses, UNCHANGED <<levels, managerOf, deptActive>>,
           owner'[e] = owner[e], amount'[e] = amount[e], status'[e] = next,
           decisions'[e] = decisions[e]
    PROVE  ChainIsMoving(e)'
<1> DEFINE req == RequiredLevels(e)
<1>1. owner[e] \in Users /\ owner[e] # NoUser
  BY ParametersAssumption DEF SubmitPasses, IsDraftUnderLock, TypeOK
<1>2. \A l \in SubmitRequiredLevels(e) \cup req :
        levels[l].approverType = "DEPARTMENT_MANAGER" =>
            /\ deptActive[ExpenseDept(e)] /\ managerOf[ExpenseDept(e)] # NoUser
  <2> SUFFICES ASSUME NEW l \in SubmitRequiredLevels(e) \cup req,
                      levels[l].approverType = "DEPARTMENT_MANAGER"
               PROVE  SubmitManager(ExpenseDept(e)) # NoUser
    BY DEF SubmitManager
  <2>1. RequiresDepartmentManager
    BY DEF RequiresDepartmentManager, SubmitRequiredLevels, RequiredLevels, GetRequiredLevels, TypeOK
  <2> QED
    BY <1>1, <2>1 DEF SubmitPasses, SubmitSkipsManager
<1>3. SubmitRequiredLevels(e) = req
  <2>1. ASSUME NEW l \in SubmitRequiredLevels(e) PROVE l \in req
    BY <1>2, <2>1 DEF SubmitRequiredLevels, RequiredLevels, GetRequiredLevels,
                      SubmitSkipsManager, SubmitManager, SkipsManagerStage
  <2>2. ASSUME NEW l \in req PROVE l \in SubmitRequiredLevels(e)
    BY <1>2, <2>2 DEF SubmitRequiredLevels, RequiredLevels, GetRequiredLevels,
                      SubmitSkipsManager, SubmitManager, SkipsManagerStage
  <2> QED
    BY <2>1, <2>2
<1>4. /\ \A l \in req : l \in Levels /\ levels[l].approverType \in ApproverTypes
      /\ \A k, l \in req : IsFirst(levels, req, k) /\ IsFirst(levels, req, l) => k = l
  BY RequiredAreLevels
<1>5. \A l \in Levels : decisions[e][l] = "NONE"
  BY DEF SubmitPasses, IsDraftUnderLock, DecisionsMatchStatus
<1>6. /\ RequiredLevels(e)' = req
      /\ \A l : SomeoneMayAct(e, l)' <=> SomeoneMayAct(e, l)
  BY SameRowsSameChain
<1>7. req # {}
  BY <1>3 DEF ResolveInitialSubmitStatus, PendingStatuses
<1>8. \A l \in req : IsFirst(levels, req, l) =>
        IF next = "SUBMITTED" THEN levels[l].approverType = "DEPARTMENT_MANAGER"
        ELSE levels[l].approverType # "DEPARTMENT_MANAGER"
  <2> SUFFICES ASSUME NEW l \in req, IsFirst(levels, req, l)
               PROVE  IF next = "SUBMITTED" THEN levels[l].approverType = "DEPARTMENT_MANAGER"
                      ELSE levels[l].approverType # "DEPARTMENT_MANAGER"
    OBVIOUS
  <2>1. (\E k \in req : IsFirst(levels, req, k) /\ levels[k].approverType = "FINANCE_MANAGER")
          <=> levels[l].approverType = "FINANCE_MANAGER"
    BY <1>4
  <2>2. next = IF levels[l].approverType = "FINANCE_MANAGER" THEN "UNDER_REVIEW" ELSE "SUBMITTED"
    BY <1>3, <1>7, <2>1 DEF ResolveInitialSubmitStatus
  <2>3. levels[l].approverType \in ApproverTypes
    BY <1>4
  <2> HIDE DEF req
  <2> QED
    BY <2>2, <2>3 DEF ApproverTypes
<1>9. \A l \in req : SomeoneMayAct(e, l)
  BY <1>2 DEF SomeoneMayAct
<1> HIDE DEF req
<1> QED
  BY <1>4, <1>5, <1>6, <1>7, <1>8, <1>9 DEF ChainIsMoving, IsFirst, Before

\* An approval that is not the last leaves the next stage to decide.
LEMMA ApprovalMovesChain ==
    ASSUME TypeOK, ChainIsOrdered, DecisionsMatchStatus, NEW e \in Expenses, NEW l \in Levels,
           ReadyForDecision(e, l), ChainIsMoving(e),
           ~IsLast(levels, RequiredLevels(e), l),
           UNCHANGED <<levels, managerOf, deptActive>>,
           owner'[e] = owner[e], amount'[e] = amount[e], status'[e] = "UNDER_REVIEW",
           decisions'[e] = [decisions[e] EXCEPT ![l] = "APPROVED"]
    PROVE  ChainIsMoving(e)'
<1> DEFINE req == RequiredLevels(e)
<1>1. l \in req /\ decisions[e][l] = "NONE"
      /\ \A k \in req : Before(levels, k, l) => decisions[e][k] = "APPROVED"
  BY DEF ReadyForDecision, ActiveStage, IsActiveStage
<1>2. /\ \A k \in req : k \in Levels /\ levels[k].level \in Nat
      /\ \A k, m \in req : IsFirst(levels, req, k) /\ IsFirst(levels, req, m) => k = m
  BY RequiredAreLevels
<1>3. /\ decisions'[e][l] = "APPROVED"
      /\ \A k \in Levels \ {l} : decisions'[e][k] = decisions[e][k]
  BY DEF TypeOK
<1>4. /\ RequiredLevels(e)' = req
      /\ \A k : SomeoneMayAct(e, k)' <=> SomeoneMayAct(e, k)
  BY SameRowsSameChain
<1>5. \E k \in req : decisions'[e][k] = "NONE"
  <2>1. PICK k \in req : Before(levels, l, k)
    BY DEF IsLast
  <2>2. decisions[e][k] = "NONE"
    BY <1>1, <2>1 DEF ChainIsMoving
  <2>3. k # l
    BY <1>2, <2>1 DEF Before
  <2> QED
    BY <1>2, <1>3, <2>2, <2>3
<1>6. \A k, m \in req : Before(levels, k, m) /\ decisions'[e][m] # "NONE" => decisions'[e][k] # "NONE"
  BY <1>1, <1>2, <1>3 DEF ChainIsMoving
<1>7. \A k \in req : IsFirst(levels, req, k) /\ levels[k].approverType = "DEPARTMENT_MANAGER"
                        => decisions'[e][k] # "NONE"
  <2> SUFFICES ASSUME NEW k \in req, IsFirst(levels, req, k),
                      levels[k].approverType = "DEPARTMENT_MANAGER", k # l
               PROVE  decisions[e][k] # "NONE"
    BY <1>2, <1>3
  <2>1. CASE status[e] = "SUBMITTED"
    <3>1. \A m \in req : decisions[e][m] = "NONE"
      BY <1>2, <2>1 DEF DecisionsMatchStatus
    <3>2. IsFirst(levels, req, l)
      BY <1>1, <3>1 DEF IsFirst
    <3> HIDE DEF req
    <3>3. k = l
      BY <1>1, <1>2, <3>2
    <3> QED
      BY <3>3
  <2>2. CASE status[e] # "SUBMITTED"
    BY <2>2 DEF ChainIsMoving
  <2> QED
    BY <2>1, <2>2
<1>8. \A k \in req : SomeoneMayAct(e, k)
  BY DEF ChainIsMoving
<1> HIDE DEF req
<1> QED
  BY <1>4, <1>5, <1>6, <1>7, <1>8 DEF ChainIsMoving, IsFirst, Before

\* While administrators wait, no step leaves a pending expense that nobody can move:
\* a step either leaves its chain alone, starts it, or moves it on.
LEMMA MovingStays ==
    ASSUME EditsOnlyWhenIdle, Inv, PendingAreMoving, [Next]_vars
    PROVE  PendingAreMoving'
<1> SUFFICES ASSUME NEW e \in Expenses, status'[e] \in PendingStatuses
             PROVE  ChainIsMoving(e)'
  BY DEF PendingAreMoving
<1> USE DEF Inv
<1>1. CASE NothingPending /\ UNCHANGED expenseVars
  BY <1>1 DEF NothingPending, expenseVars
<1>2. CASE UNCHANGED <<levels, managerOf, deptActive>>
  <2>1. CASE UNCHANGED <<expenseVars, budgetVars>>
    BY <1>2, <2>1, UndisturbedKeepsMoving DEF expenseVars, PendingAreMoving
  <2>2. ASSUME NEW x \in Expenses, NEW u \in Users, NEW a \in Amounts, Create(x, u, a)
        PROVE  ChainIsMoving(e)'
    <3>1. x # e
      BY <2>2 DEF Create, PendingStatuses, TypeOK
    <3> QED
      BY <1>2, <2>2, <3>1, UndisturbedKeepsMoving DEF Create, PendingAreMoving, TypeOK
  <2>3. ASSUME NEW x \in Expenses, NEW a \in Amounts, UpdateDraft(x, a)
        PROVE  ChainIsMoving(e)'
    <3>1. x # e
      BY <2>3 DEF UpdateDraft, PendingStatuses
    <3> QED
      BY <1>2, <2>3, <3>1, UndisturbedKeepsMoving DEF UpdateDraft, PendingAreMoving, TypeOK
  <2>4. ASSUME NEW x \in Expenses, Remove(x) \/ Reopen(x) \/ Reimburse(x)
        PROVE  ChainIsMoving(e)'
    <3>1. x # e
      BY <2>4 DEF Remove, Reopen, Reimburse, PendingStatuses, TypeOK
    <3>2. /\ owner'[e] = owner[e] /\ amount'[e] = amount[e]
          /\ status'[e] = status[e] /\ decisions'[e] = decisions[e]
      BY <2>4, <3>1 DEF Remove, Reopen, Reimburse, ClearedDecisions, TypeOK
    <3> QED
      BY <1>2, <3>2, UndisturbedKeepsMoving DEF PendingAreMoving
  <2>5. ASSUME NEW x \in Expenses, NEW l \in Levels, Approve(x, l) \/ Reject(x, l)
        PROVE  ChainIsMoving(e)'
    <3>1. CASE x # e
      <4>1. /\ owner'[e] = owner[e] /\ amount'[e] = amount[e]
            /\ status'[e] = status[e] /\ decisions'[e] = decisions[e]
        BY <2>5, <3>1 DEF Approve, Reject, RecordDecision, TypeOK
      <4> QED
        BY <1>2, <4>1, UndisturbedKeepsMoving DEF PendingAreMoving
    <3>2. CASE x = e
      <4>1. ~Reject(x, l)
        BY <3>2 DEF Reject, PendingStatuses, TypeOK
      <4>2. /\ ReadyForDecision(e, l) /\ status[e] \in PendingStatuses
            /\ owner'[e] = owner[e] /\ amount'[e] = amount[e]
            /\ status'[e] = ResolveStatusAfterLevelApproval(levels, RequiredLevels(e), l)
            /\ decisions'[e] = [decisions[e] EXCEPT ![l] = "APPROVED"]
        BY <2>5, <3>2, <4>1 DEF Approve, RecordDecision, ReadyForDecision, ActiveStage, TypeOK
      <4>3. ~IsLast(levels, RequiredLevels(e), l) /\ status'[e] = "UNDER_REVIEW"
        BY <4>2 DEF ResolveStatusAfterLevelApproval, PendingStatuses
      <4> QED
        BY <1>2, <4>2, <4>3, ApprovalMovesChain DEF PendingAreMoving
    <3> QED
      BY <3>1, <3>2
  <2>6. ASSUME NEW c \in Clients, SubmitCommit(c)
        PROVE  ChainIsMoving(e)'
    <3> DEFINE x == requests[c].expense
               key == <<ExpenseDept(x), YearOf[requests[c].stamp]>>
               next == ResolveInitialSubmitStatus(levels, SubmitRequiredLevels(x))
    <3>1. x \in Expenses
      BY <2>6, RequestType DEF SubmitCommit
    <3>2. /\ SubmitPasses(x, key) /\ status' = [status EXCEPT ![x] = next]
          /\ owner' = owner /\ amount' = amount /\ decisions' = decisions
      BY <2>6 DEF SubmitCommit
    <3> HIDE DEF x, key
    <3>3. CASE x # e
      BY <1>2, <3>1, <3>2, <3>3, UndisturbedKeepsMoving DEF PendingAreMoving, TypeOK
    <3>4. CASE x = e
      <4>1. /\ status'[e] = next /\ SubmitPasses(e, key)
            /\ next = ResolveInitialSubmitStatus(levels, SubmitRequiredLevels(e))
            /\ owner'[e] = owner[e] /\ amount'[e] = amount[e] /\ decisions'[e] = decisions[e]
        BY <3>1, <3>2, <3>4 DEF TypeOK
      <4> HIDE DEF next
      <4>2. next \in PendingStatuses
        BY <4>1
      <4> QED
        BY <1>2, <4>1, <4>2, SubmissionStartsChain
    <3> QED
      BY <3>3, <3>4
  <2> QED
    BY <2>1, <2>2, <2>3, <2>4, <2>5, <2>6, ExpenseStepCases
<1> QED
  BY <1>1, <1>2, AdministrationWaits

\* Provided levels, managers and departments change only while nothing is pending, no
\* submission, approval, rejection or reopening leaves a pending expense without a
\* stage that someone can decide now.
THEOREM PendingIsNeverStuck == ASSUME EditsOnlyWhenIdle PROVE Spec => []PendingCanBeDecided
<1>1. Init => PendingAreMoving
  BY DEF Init, PendingAreMoving, PendingStatuses
<1>2. Inv /\ PendingAreMoving /\ [Next]_vars => PendingAreMoving'
  BY MovingStays
<1>3. Inv /\ PendingAreMoving => PendingCanBeDecided
  BY MovingCanBeDecided DEF Inv, PendingAreMoving, PendingCanBeDecided
<1> QED
  BY <1>1, <1>2, <1>3, Invariance, PTL DEF Spec
=============================================================================
