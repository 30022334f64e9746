------------------------------ MODULE Escalation ------------------------------
(***************************************************************************)
(* The reminder of a pending expense: ApprovalEscalationService keeps one  *)
(* delayed job per expense, named after it, which every submission         *)
(* replaces; ApprovalEscalationProcessor reads the expense when the delay  *)
(* is over and reminds its approvers if it is still pending.  The queue    *)
(* refuses to remove a job a worker holds, and ignores a job whose name is *)
(* taken; a handler that fails is run again.                               *)
(***************************************************************************)
EXTENDS Naturals, FiniteSets

CONSTANTS MaxSubmissions  \* bound: times the expense is submitted

ASSUME MaxSubmissionsAssumption == MaxSubmissions \in Nat

VARIABLES pending,        \* whether the expense is SUBMITTED or UNDER_REVIEW
          rounds,         \* submissions so far
          scheduler,      \* per submission: the handler of its expense.submitted
          timer,          \* the job named escalation-<id>
          reminded,       \* submissions after which a reminder was published
          unpublished     \* submissions whose reminder could not be published
escalationVars == <<pending, rounds, scheduler, timer, reminded, unpublished>>

Submissions == 1..MaxSubmissions
InitEscalation ==
  /\ pending = FALSE /\ rounds = 0
  /\ scheduler = [s \in Submissions |-> "none"]
  /\ timer = "none" /\ reminded = {} /\ unpublished = {}

SubmitExpense ==
  /\ ~pending /\ rounds < MaxSubmissions
  /\ pending' = TRUE /\ rounds' = rounds + 1
  /\ scheduler' = [scheduler EXCEPT ![rounds + 1] = "look"]
  /\ UNCHANGED <<timer, reminded, unpublished>>

(* Approved, rejected or, once rejected, reopened: no longer pending. *)
DecideExpense ==
  /\ pending /\ pending' = FALSE
  /\ UNCHANGED <<rounds, scheduler, timer, reminded, unpublished>>

Held == timer \in {"active", "remind", "over"}

(* scheduleForExpense: getJob, remove, add. *)
AfterLookKept(found) == "add"
AfterLook(found) == IF found THEN "remove" ELSE "add"

LookForJob(s) ==
  /\ scheduler[s] = "look"
  /\ scheduler' = [scheduler EXCEPT ![s] = AfterLook(timer # "none")]
  /\ UNCHANGED <<pending, rounds, timer, reminded, unpublished>>

(* A locked job, and possibly one that is gone by now, cannot be removed: the
   handler fails and is run again from the start. *)
RemoveJob(s) ==
  /\ scheduler[s] = "remove"
  /\ \/ /\ ~Held /\ timer' = "none"
        /\ scheduler' = [scheduler EXCEPT ![s] = "add"]
     \/ /\ Held \/ timer = "none"
        /\ UNCHANGED timer
        /\ scheduler' = [scheduler EXCEPT ![s] = "look"]
  /\ UNCHANGED <<pending, rounds, reminded, unpublished>>

AddJob(s) ==
  /\ scheduler[s] = "add"
  /\ timer' = IF timer = "none" THEN "delayed" ELSE timer
  /\ scheduler' = [scheduler EXCEPT ![s] = "done"]
  /\ UNCHANGED <<pending, rounds, reminded, unpublished>>

(* The handler fails at any call and is run again. *)
SchedulerFails(s) ==
  /\ scheduler[s] \in {"remove", "add"}
  /\ scheduler' = [scheduler EXCEPT ![s] = "look"]
  /\ UNCHANGED <<pending, rounds, timer, reminded, unpublished>>

TimerFires ==
  /\ timer = "delayed" /\ timer' = "active"
  /\ UNCHANGED <<pending, rounds, scheduler, reminded, unpublished>>

(* process reads the expense first. *)
ReadPending ==
  /\ timer = "active" /\ timer' = IF pending THEN "remind" ELSE "over"
  /\ UNCHANGED <<pending, rounds, scheduler, reminded, unpublished>>

(* The job has one attempt: it is removed once done and stays, failed, when the
   event cannot be published. *)
EndJob ==
  /\ \/ timer = "over" /\ timer' = "none" /\ UNCHANGED <<reminded, unpublished>>
     \/ /\ timer = "remind"
        /\ \/ timer' = "none" /\ reminded' = reminded \cup {rounds} /\ UNCHANGED unpublished
           \/ timer' = "failed" /\ unpublished' = unpublished \cup {rounds} /\ UNCHANGED reminded
  /\ UNCHANGED <<pending, rounds, scheduler>>

StepEscalation ==
  \/ SubmitExpense \/ DecideExpense \/ TimerFires \/ ReadPending \/ EndJob
  \/ \E s \in Submissions : LookForJob(s) \/ RemoveJob(s) \/ AddJob(s) \/ SchedulerFails(s)

EscalationSpec == InitEscalation /\ [][StepEscalation]_escalationVars

(* Once the handlers of its submissions are through, a pending expense has a
   reminder coming, or got one after its last submission, or lost it when
   publishing failed: whatever order the handlers ran in, a job left over from an
   earlier submission never takes the place of the last one's. *)
PendingIsReminded ==
  pending /\ (\A s \in 1..rounds : scheduler[s] = "done") =>
    \/ timer \in {"delayed", "active", "remind"} \/ rounds \in reminded \cup unpublished
=============================================================================
