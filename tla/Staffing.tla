------------------------------ MODULE Staffing ------------------------------
(***************************************************************************)
(* Who works in and who manages a department: UserService.adminUpdate,     *)
(* suspendUser and activateUser, DepartmentMutationService.update and      *)
(* remove.  Each request reads and checks first, and commits later what it *)
(* read; nothing is locked in between.  A user row is saved whole.  The    *)
(* recount of committed budgets a transfer starts finds no expense         *)
(* (submission always sets the department it looks for the absence of) and *)
(* is left out.                                                            *)
(***************************************************************************)
EXTENDS Naturals, FiniteSets

CONSTANTS Staff,         \* users
          Units,         \* departments
          Desks,         \* administrative requests that may be under way
          MaxJobs        \* bound on the requests

ASSUME UnitsAssumption == 0 \notin Units /\ 0 \notin Staff

VARIABLES member,        \* user -> its department, 0 for none
          active,        \* user -> whether the account is active
          headOf,        \* department -> its manager, 0 for none
          history,       \* department -> managers with an open row in the history
          removed,       \* departments deleted
          waiting,       \* [owner, unit]: expenses waiting for approval
          desk,          \* desk -> the request being handled
          jobs,          \* requests so far
          contended      \* departments two overlapping requests were about
staffingVars == <<member, active, headOf, history, removed, waiting, desk, jobs, contended>>

Free == [stage |-> "free", kind |-> "none", user |-> 0, unit |-> 0, from |-> 0,
         active |-> FALSE, rows |-> {}, releases |-> FALSE]

(* A department starts without employees or manager, a user without department. *)
InitStaffing ==
  /\ member = [u \in Staff |-> 0] /\ active = [u \in Staff |-> TRUE]
  /\ headOf = [d \in Units |-> 0] /\ history = [d \in Units |-> {}]
  /\ removed = {} /\ waiting = {} /\ contended = {} /\ jobs = 0
  /\ desk = [w \in Desks |-> Free]

(* The departments a request is about; two requests that share one, or the user,
   and overlap leave the departments of both to chance. *)
About(job) == {job.unit, job.from} \ {0}
Share(job, other) ==
  About(job) \cap About(other) # {} \/ (job.user # 0 /\ job.user = other.user)

Take(w, job) ==
  /\ desk[w] = Free /\ jobs < MaxJobs
  /\ jobs' = jobs + 1
  /\ desk' = [desk EXCEPT ![w] = job]
  /\ contended' = contended \cup
       UNION {About(job) \cup About(desk[v]) : v \in {v \in Desks : Share(job, desk[v])}}

MoveTo(w, stage) == desk' = [desk EXCEPT ![w].stage = stage]
Leave(w) == desk' = [desk EXCEPT ![w] = Free]

(* update with a manager: a member of the department whose account is active. *)
AssignManager(w, d, u) ==
  /\ d \notin removed /\ u # headOf[d]
  /\ u # 0 => active[u] /\ member[u] = d
  /\ Take(w, [Free EXCEPT !.stage = IF u = 0 THEN "count" ELSE "begin",
                          !.kind = "assign", !.user = u, !.unit = d])
  /\ UNCHANGED <<member, active, headOf, history, removed, waiting>>

(* adminUpdate with a department, 0 for null. *)
TransferUser(w, u, d) ==
  /\ d \notin removed
  /\ Take(w, [Free EXCEPT !.stage = IF member[u] \in {0, d} THEN "begin" ELSE "leave",
                          !.kind = "transfer", !.user = u, !.unit = d,
                          !.from = member[u], !.active = active[u]])
  /\ UNCHANGED <<member, active, headOf, history, removed, waiting>>

ChangeActivity(w, u) ==
  /\ Take(w, [Free EXCEPT !.stage = "save", !.kind = "activity", !.user = u,
                          !.from = member[u], !.active = ~active[u]])
  /\ UNCHANGED <<member, active, headOf, history, removed, waiting>>

RemoveUnit(w, d) ==
  /\ d \notin removed
  /\ Take(w, [Free EXCEPT !.stage = "users", !.kind = "remove", !.unit = d])
  /\ UNCHANGED <<member, active, headOf, history, removed, waiting>>

(* assertManagerCanLeaveDepartment. *)
CheckLeaving(w) ==
  /\ desk[w].stage = "leave"
  /\ MoveTo(w, IF desk[w].from \notin removed /\ headOf[desk[w].from] = desk[w].user
               THEN "count" ELSE "begin")
  /\ UNCHANGED <<member, active, headOf, history, removed, waiting, jobs, contended>>

AwaitsFiledUnit(e, d) == e.unit = d
AwaitsUnit(e, d) == e.unit = d \/ member[e.owner] = d

(* assertManagerCanBeCleared, for the department that would lose its manager. *)
CountPendingApprovals(w) ==
  LET d == IF desk[w].kind = "assign" THEN desk[w].unit ELSE desk[w].from
  IN /\ desk[w].stage = "count"
     /\ IF \E e \in waiting : AwaitsUnit(e, d) THEN Leave(w) ELSE MoveTo(w, "begin")
     /\ UNCHANGED <<member, active, headOf, history, removed, waiting, jobs, contended>>

ReleasesOnClear(job) == job.unit = 0 /\ job.from # 0 /\ headOf[job.from] = job.user
ReleasesManager(job) ==
  /\ job.from # 0 /\ job.from # job.unit /\ job.from \notin removed
  /\ headOf[job.from] = job.user

(* The statements of the transaction see the history rows open when it began. *)
BeginTransaction(w) ==
  /\ desk[w].stage = "begin"
  /\ desk' = [desk EXCEPT
       ![w].stage = "commit",
       ![w].releases = desk[w].kind = "transfer" /\ ReleasesManager(desk[w]),
       ![w].rows = UNION {history[d] : d \in IF desk[w].kind = "assign" THEN {desk[w].unit}
                                             ELSE {desk[w].from} \ {0}}]
  /\ UNCHANGED <<member, active, headOf, history, removed, waiting, jobs, contended>>

(* applyManagerChange and the update of the department. *)
ApplyManagerChange(w, d, u) ==
  /\ history' = [history EXCEPT ![d] = (@ \ desk[w].rows) \cup ({u} \ {0})]
  /\ headOf' = [headOf EXCEPT ![d] = u]

CommitAssign(w) ==
  /\ desk[w].stage = "commit" /\ desk[w].kind = "assign"
  /\ ApplyManagerChange(w, desk[w].unit, desk[w].user)
  /\ Leave(w)
  /\ UNCHANGED <<member, active, removed, waiting, jobs, contended>>

(* Saving a user whose department was set to undefined leaves the column alone,
   though the department is left otherwise. *)
SaveUserRow(job) ==
  /\ member' = [member EXCEPT ![job.user] = IF job.kind = "activity" THEN job.from
                                            ELSE IF job.unit = 0 THEN @ ELSE job.unit]
  /\ active' = [active EXCEPT ![job.user] = job.active]

CommitTransfer(w) ==
  /\ desk[w].stage = "commit" /\ desk[w].kind = "transfer"
  /\ SaveUserRow(desk[w])
  /\ IF desk[w].releases THEN ApplyManagerChange(w, desk[w].from, 0)
                         ELSE UNCHANGED <<headOf, history>>
  /\ Leave(w)
  /\ UNCHANGED <<removed, waiting, jobs, contended>>

(* Suspending a manager leaves the department to its manager. *)
SaveActivity(w) ==
  /\ desk[w].stage = "save"
  /\ SaveUserRow(desk[w])
  /\ Leave(w)
  /\ UNCHANGED <<headOf, history, removed, waiting, jobs, contended>>

CountMembers(w) ==
  /\ desk[w].stage = "users"
  /\ IF \E u \in Staff : member[u] = desk[w].unit THEN Leave(w) ELSE MoveTo(w, "delete")
  /\ UNCHANGED <<member, active, headOf, history, removed, waiting, jobs, contended>>

DeleteUnit(w) ==
  /\ desk[w].stage = "delete"
  /\ removed' = removed \cup {desk[w].unit}
  /\ Leave(w)
  /\ UNCHANGED <<member, active, headOf, history, waiting, jobs, contended>>

(* Expenses come and go meanwhile. *)
FileExpense(u) ==
  /\ member[u] # 0 /\ active[u]
  /\ waiting' = waiting \cup {[owner |-> u, unit |-> member[u]]}
  /\ contended' = contended \cup ({member[u]} \cap UNION {About(desk[w]) : w \in Desks})
  /\ UNCHANGED <<member, active, headOf, history, removed, desk, jobs>>

SettleExpense ==
  /\ \E e \in waiting : waiting' = waiting \ {e}
  /\ UNCHANGED <<member, active, headOf, history, removed, desk, jobs, contended>>

StepStaffing ==
  \/ SettleExpense
  \/ \E u \in Staff : FileExpense(u)
  \/ \E w \in Desks :
       \/ \E d \in Units, u \in Staff \cup {0} : AssignManager(w, d, u)
       \/ \E d \in Units \cup {0}, u \in Staff : TransferUser(w, u, d)
       \/ \E u \in Staff : ChangeActivity(w, u)
       \/ \E d \in Units : RemoveUnit(w, d)
       \/ CheckLeaving(w) \/ CountPendingApprovals(w) \/ BeginTransaction(w)
       \/ CommitAssign(w) \/ CommitTransfer(w) \/ SaveActivity(w)
       \/ CountMembers(w) \/ DeleteUnit(w)
StaffingSpec == InitStaffing /\ [][StepStaffing]_staffingVars

(* A department that was never at stake in two overlapping requests keeps its books: its
   manager works there and is the one with an open row in the history, and a
   deleted one has neither manager nor employees, whatever overlapping requests
   do to other departments. *)
DepartmentIsConsistent ==
  \A d \in Units \ contended :
    /\ headOf[d] # 0 => member[headOf[d]] = d
    /\ history[d] = {headOf[d]} \ {0}
    /\ d \in removed => headOf[d] = 0 /\ \A u \in Staff : member[u] # d

(* Such a department never loses its manager while an expense of the department,
   or of someone who works there now, waits for approval. *)
ManagerStaysForWaiting ==
  [][\A d \in Units \ contended' :
       headOf[d] # 0 /\ headOf'[d] = 0 =>
         \A e \in waiting : e.unit # d /\ member[e.owner] # d]_staffingVars
=============================================================================
