------------------------------ MODULE Delegation ------------------------------
(***************************************************************************)
(* Who may decide on an expense that waits for approval.  Two paths ask    *)
(* it: the decision itself, and the queue of what a user can act on, which *)
(* reads the approval levels through a cache of its process.  An approver  *)
(* may name someone who acts for him between two instants; meanwhile the   *)
(* stages are decided, the levels edited and managers replaced.            *)
(***************************************************************************)
EXTENDS AccessRules, ApprovalRouting

CONSTANTS People,        \* the users, as the auth context holds them but for
                         \* the departments they manage
          FiledExpenses, \* [userId, departmentId, ownerDepartmentId, amount]
          LevelTables,   \* contents of approval_levels
          ManagerTables, \* departments.manager_id: department -> user id
          MaxDelegations,\* bound: delegations created
          MaxEdits,      \* bound: edits of levels and replacements of managers
          MaxInstant     \* bound: instants of the clock; two make a day

(* approval_levels.level is unique; departments are numbered from 1. *)
ASSUME LevelTablesAssumption ==
  /\ \A table \in LevelTables : \A k, l \in DOMAIN table :
       /\ table[l] # NoLevel => table[l] \in ApprovalLevel
       /\ table[k] # NoLevel /\ table[l] # NoLevel /\ k # l => table[k].level # table[l].level
  /\ \A s, t \in LevelTables : DOMAIN s = DOMAIN t

VARIABLES instant,       \* the clock
          delegations,   \* rows of approval_delegations
          awaiting,      \* the expense
          decided,       \* level -> the decision on the expense
          levels,        \* approval_levels
          manager,       \* departments.manager_id
          cached,        \* the levels the queue's process holds, if any
          loading,       \* levels it has read and not yet put into its cache
          unseen,        \* history: the levels were edited behind a copy
          edited,        \* history: the expense's chain is not the one it was submitted to
          edits          \* edits so far
delegationVars == <<instant, delegations, awaiting, decided, levels, manager, cached, loading,
                    unseen, edited, edits>>
levelVars == <<levels, manager, cached, loading, unseen, edited, edits>>

InstantsOfClock == 0..MaxInstant
Today(t) == t \div 2

(* The auth context of a user, and of a delegator (toAuthUser). *)
ContextOf(u) ==
  [u EXCEPT !.managedDepartmentIds = {d \in DOMAIN manager : manager[d] = u.id}]
Users == {ContextOf(p) : p \in People}

(* The stages of the expense, by the rows of table. *)
shouldSkipDepartmentManagerStage(e, heads) ==
  e.departmentId # 0 /\ heads[e.departmentId] = e.userId
Required(table) ==
  GetRequiredLevels(table, awaiting.amount, shouldSkipDepartmentManagerStage(awaiting, manager))
ActiveStages(table) ==
  {l \in Required(table) : awaiting.status \in Pending /\ IsActiveStage(table, Required(table), decided, l)}
Chain == [l \in Required(levels) |-> levels[l]]

(* A department's manager is one of its members; the owner keeps his department. *)
IsMember(id, d) == id = awaiting.userId => d = awaiting.ownerDepartmentId
InitDelegations ==
  /\ instant = 0 /\ delegations = {}
  /\ levels \in LevelTables /\ manager \in ManagerTables
  /\ \E e \in FiledExpenses :
       awaiting = [userId |-> e.userId, departmentId |-> e.departmentId,
                   ownerDepartmentId |-> e.ownerDepartmentId, amount |-> e.amount,
                   status |-> "DRAFT"]
  /\ \A d \in DOMAIN manager : IsMember(manager[d], d)
  /\ decided = [l \in DOMAIN levels |-> "NONE"]
  /\ cached = {} /\ loading = {} /\ unseen = FALSE /\ edited = FALSE /\ edits = 0

(* The draft passes what else a submission asks; a rejected expense becomes a
   draft again and loses its decisions. *)
Submit ==
  /\ awaiting.status = "DRAFT"
  /\ awaiting' = [awaiting EXCEPT !.status = ResolveInitialSubmitStatus(levels, Required(levels))]
  /\ edited' = FALSE
  /\ UNCHANGED <<instant, delegations, decided, levels, manager, cached, loading, unseen, edits>>
Reopen ==
  /\ awaiting.status = "REJECTED"
  /\ awaiting' = [awaiting EXCEPT !.status = "DRAFT"]
  /\ decided' = [l \in DOMAIN levels |-> "NONE"]
  /\ UNCHANGED <<instant, delegations>> /\ UNCHANGED levelVars

(* create; assertDelegationDates compares calendar dates, and years, which
   the dates imply. *)
CreateDelegation(delegator, delegate) ==
  /\ Cardinality(delegations) < MaxDelegations
  /\ canDecideOnApproval(delegator) /\ delegator.id # delegate.id
  /\ \E startsAt, endsAt \in InstantsOfClock :
       /\ endsAt > startsAt
       /\ Today(startsAt) >= Today(instant) /\ Today(endsAt) >= Today(instant)
       /\ delegations' = delegations \cup
            {[delegatorId |-> delegator.id, delegateId |-> delegate.id, startsAt |-> startsAt,
              endsAt |-> endsAt, isActive |-> TRUE]}
  /\ UNCHANGED <<instant, awaiting, decided>> /\ UNCHANGED levelVars

Revoke(d) ==
  /\ d.isActive
  /\ delegations' = (delegations \ {d}) \cup {[d EXCEPT !.isActive = FALSE]}
  /\ UNCHANGED <<instant, awaiting, decided>> /\ UNCHANGED levelVars

Tick ==
  /\ instant < MaxInstant /\ instant' = instant + 1
  /\ UNCHANGED <<delegations, awaiting, decided>> /\ UNCHANGED levelVars

(* findActiveDelegationsForDelegate *)
InForce(d) == d.isActive /\ d.startsAt <= instant /\ instant <= d.endsAt
canActAsDelegate(u, e, stage) ==
  \E d \in delegations, delegator \in Users :
    /\ d.delegateId = u.id /\ d.delegatorId = delegator.id /\ InForce(d)
    /\ canActOnApprovalStage(delegator, e, stage)
canActOnStage(u, e, stage) == canActOnApprovalStage(u, e, stage) \/ canActAsDelegate(u, e, stage)

-----------------------------------------------------------------------------
(* ApprovalService.approve and reject up to the decision: loadExpenseForDecision,
   assertReadyForStageApproval, assertCanActOnStage.  They read the levels in
   their transaction, past the cache. *)
MayDecideAt(u, l) ==
  /\ awaiting.status \in Pending
  /\ l \in ActiveStages(levels)
  /\ StatusFitsStage(levels, Required(levels), l, awaiting.status)
  /\ mayDecideOnExpense(u, awaiting)
  /\ canActOnStage(u, awaiting, levels[l])
MayApprove(u) == \E l \in DOMAIN levels : MayDecideAt(u, l)

Decide(u, l, decision, status) ==
  /\ MayDecideAt(u, l)
  /\ decided' = [decided EXCEPT ![l] = decision]
  /\ awaiting' = [awaiting EXCEPT !.status = status]
  /\ UNCHANGED <<instant, delegations>> /\ UNCHANGED levelVars
Approve(u, l) ==
  Decide(u, l, "APPROVED", ResolveStatusAfterLevelApproval(levels, Required(levels), l))
Reject(u, l) == Decide(u, l, "REJECTED", "REJECTED")

(* ActionableApprovalQueueService: loadPendingCandidates, isActionableForUser. *)
CandidateByOwnerOnly(u, e) ==
  /\ e.status \in Pending /\ e.userId # u.id
  /\ isManagerApprover(u) /\ ~hasGlobalApprovalPermission(u)
       => e.ownerDepartmentId \in u.managedDepartmentIds
Candidate(u, e) ==
  /\ e.status \in Pending /\ e.userId # u.id
  /\ isManagerApprover(u) /\ ~hasGlobalApprovalPermission(u)
       => {e.departmentId, e.ownerDepartmentId} \cap u.managedDepartmentIds # {}
QueueTables == IF cached = {} THEN {levels} ELSE cached
Actionable(u) ==
  /\ Candidate(u, awaiting) /\ canDecideOnExpense(u, awaiting)
  /\ \E table \in QueueTables : \E l \in ActiveStages(table) : canActOnStage(u, awaiting, table[l])

(* ApprovalLevelCatalogService.getActiveLevels without a transaction: two
   steps, between which the levels may be edited; a copy lives for CACHE_TTL_MS. *)
CacheSame == UNCHANGED <<instant, delegations, awaiting, decided, levels, manager, edited, edits>>
ReadLevels ==
  /\ cached = {} /\ loading = {}
  /\ loading' = {levels} /\ UNCHANGED <<cached, unseen>> /\ CacheSame
KeepLevels ==
  /\ loading # {}
  /\ cached' = loading /\ loading' = {} /\ UNCHANGED unseen /\ CacheSame
ForgetLevels ==
  /\ cached # {}
  /\ cached' = {} /\ unseen' = (unseen /\ loading # {}) /\ UNCHANGED loading /\ CacheSame

(* ApprovalLevelService: an edit changes one row, and the process that makes it
   invalidates its own cache.  A level with a decision is not removed. *)
EditLevels(table, here) ==
  /\ edits < MaxEdits /\ edits' = edits + 1
  /\ \E l \in DOMAIN levels :
       /\ table[l] # levels[l] /\ \A k \in DOMAIN levels \ {l} : table[k] = levels[k]
       /\ table[l] = NoLevel => decided[l] = "NONE"
  /\ levels' = table
  /\ cached' = IF here THEN {} ELSE cached
  /\ unseen' = (cached' \cup loading # {})
  /\ UNCHANGED <<instant, delegations, awaiting, decided, manager, loading>>
  /\ edited' = (edited \/ Chain' # Chain)

(* A department gets another manager. *)
ReplaceManager(d, heads) ==
  /\ edits < MaxEdits /\ edits' = edits + 1
  /\ heads = [manager EXCEPT ![d] = heads[d]] /\ heads[d] # manager[d]
  /\ IsMember(heads[d], d)
  /\ manager' = heads
  /\ UNCHANGED <<instant, delegations, awaiting, decided, levels, cached, loading, unseen>>
  /\ edited' = (edited \/ Chain' # Chain)

StepDelegations ==
  \/ \E delegator, delegate \in Users : CreateDelegation(delegator, delegate)
  \/ \E d \in delegations : Revoke(d)
  \/ \E u \in Users, l \in DOMAIN levels : Approve(u, l) \/ Reject(u, l)
  \/ \E table \in LevelTables, here \in BOOLEAN : EditLevels(table, here)
  \/ \E d \in DOMAIN manager, heads \in ManagerTables : ReplaceManager(d, heads)
  \/ Submit \/ Reopen \/ Tick \/ ReadLevels \/ KeepLevels \/ ForgetLevels
DelegationSpec == InitDelegations /\ [][StepDelegations]_delegationVars

-----------------------------------------------------------------------------
(* The queue shows a user exactly the expenses he may decide on, for himself
   or for someone else, except that behind an edit by another process, or one
   that overtook its own reading, it follows the old levels, and that it shows
   what a change of the chain has put at a stage its status does not fit.
   Whatever it shows he may read, and list. *)
QueueIsWhatCanBeDecided ==
  \A u \in Users :
    /\ MayApprove(u) => Actionable(u) \/ unseen
    /\ Actionable(u) => MayApprove(u) \/ unseen \/ edited
    /\ Actionable(u) =>
         canReadExpense(u, awaiting) /\ mayList(u, "approval") /\ expenseListVisibility(u) # "own"
=============================================================================
