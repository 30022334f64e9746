------------------------ MODULE ExpenseProperties ------------------------
(***************************************************************************)
(* What the expense workflow must guarantee: safety invariants and action  *)
(* properties of ExpenseLifecycle, and the statements the repository makes *)
(* about it that its code does not keep.                                   *)
(***************************************************************************)
EXTENDS ExpenseLifecycle, FiniteSetsExt

-----------------------------------------------------------------------------
(* The budget row against the expenses it summarises.                      *)

SpendOf(key, statuses) ==
    MapThenSumSet(LAMBDA e : amount[e],
        {e \in Expenses : /\ status[e] \in statuses
                          /\ submittedAt[e] # 0
                          /\ key = <<ExpenseDept(e), YearOf[submittedAt[e]]>>})

\* The incremental bookkeeping of syncCommittedAmountForExpenseTransition never
\* drifts from what a recount over the expenses gives, which is what the
\* nightly recalculateDepartmentBudgetCommitted computes: committed is pipeline
\* plus reimbursed spend, reimbursed is reimbursed spend.
LedgerExact ==
    \A key \in BudgetKeys : HasBudget(key) =>
        /\ committed[key] = SpendOf(key, {"SUBMITTED", "UNDER_REVIEW", "APPROVED", "REIMBURSED"})
        /\ reimbursed[key] = SpendOf(key, {"REIMBURSED"})

\* With BUDGET_BLOCK_SUBMIT_ON_OVERSPEND the approved and pending spend of a
\* department never exceeds its annual limit, however submissions, edits,
\* rejections and reopenings of different expenses interleave.
WithinLimit ==
    BlockSubmitOnOverspend =>
        \A key \in BudgetKeys :
            HasBudget(key) =>
                SpendOf(key, {"SUBMITTED", "UNDER_REVIEW", "APPROVED", "REIMBURSED"})
                    <= Limits[key]

\* Where an expense stands in the book of one department and year.
StageIn(key, e) ==
    IF /\ status[e] \in {"SUBMITTED", "UNDER_REVIEW", "APPROVED", "REIMBURSED"}
       /\ submittedAt[e] # 0
       /\ key = <<ExpenseDept(e), YearOf[submittedAt[e]]>>
    THEN IF status[e] = "REIMBURSED" THEN "paid" ELSE "charged"
    ELSE "open"

DepartmentLedger(key) == INSTANCE BudgetLedger WITH
    stage <- [e \in Expenses |-> StageIn(key, e)],
    cost <- amount,
    limit <- Limits[key],
    committed <- committed[key],
    reimbursed <- reimbursed[key]

\* To the budget row of every department and year, the workflow is the ledger that
\* the transactions of budget-committed.query are shown to be: each of its steps
\* charges, releases or pays one expense at one row, by the amount the expense has
\* then, changes the amount of an expense that is in no book, or leaves every book
\* as it is.
BudgetsAreLedgers ==
    /\ \A key \in BudgetKeys : DepartmentLedger(key)!LedgerInit
    /\ [][\A key \in BudgetKeys :
             [DepartmentLedger(key)!LedgerNext]_(DepartmentLedger(key)!ledgerVars)]_vars

-----------------------------------------------------------------------------
(* Status, decisions and events.                                           *)

\* A draft, a removed and a freshly submitted expense carry no decision, and an
\* expense is REJECTED exactly while a rejecting decision is on record: nothing
\* decided in one round of approval leaks into the next (reopenRejected).
DecisionsMatchStatus ==
    \A e \in Expenses :
        /\ status[e] \in {"ABSENT", "DRAFT", "DELETED", "SUBMITTED"}
               => \A l \in Levels : decisions[e][l] = "NONE"
        /\ status[e] = "REJECTED" <=> \E l \in Levels : decisions[e][l] = "REJECTED"

\* Every decision on record refers to an approval level that still exists,
\* through any interleaving of decisions with level removals.
DecisionsReferToLevels ==
    \A e \in Expenses, l \in Levels :
        decisions[e][l] # "NONE" => levels[l] # NoLevel

\* No two levels share a place in the chain, so the chain is a total order.
ChainIsOrdered ==
    \A k, l \in Levels :
        levels[k] # NoLevel /\ levels[l] # NoLevel /\ k # l
            => levels[k].level # levels[l].level

\* The last status event appended to the outbox is the one of the status the
\* expense is in, so a listener that keeps up is never told a stale outcome.
AnnouncementMatchesStatus ==
    \A e \in Expenses :
        announced[e] =
            CASE status[e] = "SUBMITTED" -> "submitted"
              [] status[e] = "UNDER_REVIEW" -> "pending_finance"
              [] status[e] = "APPROVED" -> "approved"
              [] status[e] = "REJECTED" -> "rejected"
              [] status[e] = "REIMBURSED" -> "reimbursed"
              [] OTHER -> IF submittedAt[e] = 0 THEN "none" ELSE "reopened"

\* An expense becomes APPROVED only when every level it requires at that moment
\* has approved it, whatever administrators changed since it was submitted.
ApprovedThroughChain ==
    [][\A e \in Expenses :
          status'[e] = "APPROVED" /\ status[e] \in PendingStatuses
              => \A l \in RequiredLevels(e) : decisions'[e][l] = "APPROVED"]_vars

\* No level decides before the required levels that come earlier in the chain.
StagesInOrder ==
    [][\A e \in Expenses, l \in Levels :
          decisions[e][l] = "NONE" /\ decisions'[e][l] # "NONE"
              => /\ l \in RequiredLevels(e)
                 /\ \A k \in RequiredLevels(e) :
                        Before(levels, k, l) => decisions[e][k] = "APPROVED"]_vars

\* Money is paid once and only for an approval: a reimbursed expense keeps its
\* amount, its budget year and its decisions for good, and an expense whose
\* amount counts in a budget is never edited.
SettledIsFinal ==
    [][\A e \in Expenses :
          /\ status[e] = "REIMBURSED"
                => /\ status'[e] = "REIMBURSED"
                   /\ decisions'[e] = decisions[e]
          /\ status[e] \in PendingStatuses \cup {"APPROVED", "REIMBURSED"}
                => amount'[e] = amount[e] /\ submittedAt'[e] = submittedAt[e]]_vars

\* Every pending expense has a stage that someone can decide now: provided
\* levels, managers and departments are changed only while nothing is pending,
\* no submission or approval leaves an expense that nobody can move.
PendingCanBeDecided ==
    \A e \in Expenses :
        status[e] \in PendingStatuses => \E l \in Levels : ReadyForDecision(e, l)

-----------------------------------------------------------------------------
(* Statements of the repository that runs refute.                          *)

\* "Rejected - reopen as a draft to edit and resubmit." (expense-detail.util.ts):
\* a reopened draft that passes every check of submit is not turned away by the
\* unique idempotency key of the outbox.
ReopenedCanBeResubmitted ==
    \A e \in Expenses :
        status[e] = "DRAFT" /\ announced[e] = "reopened" =>
            LET stamp == SubmissionInstant(e)
                key == <<ExpenseDept(e), YearOf[stamp]>>
                next == ResolveInitialSubmitStatus(levels, SubmitRequiredLevels(e))
            IN  SubmitPasses(e, key) => OutboxAccepts(SubmitEventKeys(e, next, stamp, key))

\* "This expense has no approval stages configured and was marked approved"
\* (approval.service.ts): an expense whose approver was told so is approved.
ToldApprovedIsApproved ==
    \A e \in toldApproved : status[e] \in {"APPROVED", "REIMBURSED"}

\* "Cannot remove the department manager while expenses are awaiting approval."
\* (department-manager.service.ts): an expense at its manager stage has one.
AwaitingManagerHasManager ==
    \A e \in Expenses :
        \A l \in Levels :
            ActiveStage(e, l) /\ levels[l].approverType = "DEPARTMENT_MANAGER"
                => managerOf[ExpenseDept(e)] # NoUser
=============================================================================
