-------------------------- MODULE ApprovalRouting --------------------------
(***************************************************************************)
(* The approval chain of an expense, as approval-routing.service.ts        *)
(* derives it: which levels an expense needs, which of them is active,     *)
(* and the status an expense takes on submission and after an approval.    *)
(* The service sorts the levels by their chain order and walks them; here  *)
(* the order is a relation on the set of required levels.                  *)
(*                                                                         *)
(* `levels' maps each level id to its row, or to NoLevel when the row does *)
(* not exist; `decided' maps a level id to the decision recorded for one   *)
(* expense.                                                                *)
(***************************************************************************)
EXTENDS Integers, FiniteSets

CONSTANTS NoLevel,      \* an approval level id without a row
          NoMaximum     \* maximum_amount IS NULL

ApproverTypes == {"DEPARTMENT_MANAGER", "FINANCE_MANAGER"}

ApprovalLevel ==
    [level : Nat, approverType : ApproverTypes, isActive : BOOLEAN,
     minimumAmount : Nat, maximumAmount : Nat \cup {NoMaximum}]

Decisions == {"NONE", "APPROVED", "REJECTED"}

PendingStatuses == {"SUBMITTED", "UNDER_REVIEW"}

LevelAppliesToExpense(row, amount) ==
    /\ amount >= row.minimumAmount
    /\ row.maximumAmount = NoMaximum \/ amount <= row.maximumAmount

\* The levels an expense of this amount needs. `skipManager' says that the
\* department-manager stages are skipped because the owner is the manager.
GetRequiredLevels(levels, amount, skipManager) ==
    {l \in DOMAIN levels :
        /\ levels[l] # NoLevel
        /\ levels[l].isActive
        /\ LevelAppliesToExpense(levels[l], amount)
        /\ levels[l].approverType = "DEPARTMENT_MANAGER" => ~skipManager}

Before(levels, k, l) == levels[k].level < levels[l].level

IsFirst(levels, required, l) ==
    l \in required /\ \A k \in required : ~Before(levels, k, l)

\* A plausible slip of the index test: the chain is taken to be complete one
\* stage early.
IsLastOffByOne(levels, required, l) ==
    Cardinality({k \in required : Before(levels, l, k)}) <= 1

IsLast(levels, required, l) ==
    \A k \in required : ~Before(levels, l, k)

\* A submission that forgets that the chain may start with finance.
ResolveInitialSubmitStatusPlain(levels, required) ==
    IF required = {} THEN "APPROVED" ELSE "SUBMITTED"

\* resolveInitialSubmitStatus; without any level the submission approves.
ResolveInitialSubmitStatus(levels, required) ==
    IF required = {} THEN "APPROVED"
    ELSE IF \E l \in required :
                /\ IsFirst(levels, required, l)
                /\ levels[l].approverType = "FINANCE_MANAGER"
         THEN "UNDER_REVIEW"
         ELSE "SUBMITTED"

\* An active stage taken without looking at the stages before it.
IsActiveStageUnordered(levels, required, decided, l) ==
    l \in required /\ decided[l] = "NONE"

\* The first required level without a decision, provided every level before
\* it was approved; the status test of getActiveStage is the caller's.
IsActiveStage(levels, required, decided, l) ==
    /\ l \in required
    /\ decided[l] = "NONE"
    /\ \A k \in required : Before(levels, k, l) => decided[k] = "APPROVED"

ResolveStatusAfterLevelApproval(levels, required, l) ==
    IF IsLast(levels, required, l) THEN "APPROVED" ELSE "UNDER_REVIEW"

\* assertExpenseStatusForStage: the first stage wants the status its
\* submission produced, a later one wants UNDER_REVIEW.
StatusFitsStage(levels, required, l, status) ==
    IF IsFirst(levels, required, l) /\ levels[l].approverType = "DEPARTMENT_MANAGER"
    THEN status = "SUBMITTED"
    ELSE status = "UNDER_REVIEW"
=============================================================================
