----------------------------- MODULE ServiceProofs -----------------------------
(***************************************************************************)
(* What the services around the expense guarantee, for any number of       *)
(* thresholds, checks in flight, submissions, events, attempts, failures   *)
(* and rows: the alerts of a budget, the escalation of a pending expense,  *)
(* the notices to the users, and the figures of reports and dashboards.    *)
(***************************************************************************)
EXTENDS BudgetAlerts, Escalation, Notifications, Figures, SumTheorems

CheckStages == {"new", "find", "save", "publish", "ended", "failed"}
AlertTypeOK ==
  /\ utilization \in Nat
  /\ dispatched \in SUBSET Thresholds /\ settled \in SUBSET Thresholds
  /\ check \in [Checks -> [pc : CheckStages, left : SUBSET Thresholds, crossed : SUBSET Thresholds]]
  /\ announced \in [Thresholds -> Nat]
  /\ alertFaults \in Nat

\* Only a check that has a threshold to its turn writes or publishes it, and the
\* row of what it publishes is its own.
PublishersHoldRows ==
  \A c \in Checks :
    /\ check[c].pc \in {"save", "publish"} => check[c].left # {}
    /\ check[c].pc = "publish" => /\ Turn(c) \in dispatched /\ announced[Turn(c)] = 0
                                  /\ \A d \in Checks \ {c} : check[d].pc = "publish" => Turn(d) # Turn(c)

AnnouncedAreDispatched ==
  \A t \in Thresholds : announced[t] <= 1 /\ (announced[t] = 1 => t \in dispatched)

\* A row stands for a threshold that was announced, is about to be, or was lost.
Covered(t) ==
  \/ announced[t] = 1
  \/ \E c \in Checks : check[c].pc = "publish" /\ Turn(c) = t
  \/ alertFaults > 0
RowsAreCovered == \A t \in dispatched : Covered(t)

\* A check leaves no threshold behind without a row.
PassedHaveRows ==
  /\ settled \subseteq dispatched
  /\ \A c \in Checks :
       check[c].pc \in {"find", "save", "publish"} => check[c].crossed \ check[c].left \subseteq dispatched

AlertInv ==
  AlertTypeOK /\ PublishersHoldRows /\ AnnouncedAreDispatched /\ RowsAreCovered /\ PassedHaveRows

(* The least of a non-empty set of thresholds exists, so that a check with
   thresholds left has a turn (the ascending order of evaluateThresholds). *)
LEMMA TurnIsLeft ==
  ASSUME AlertTypeOK, NEW c \in Checks, check[c].left # {}
  PROVE  Turn(c) \in check[c].left
  BY ThresholdsAssumption DEF AlertTypeOK, Turn

LEMMA WritersHaveATurn ==
  ASSUME AlertTypeOK, PublishersHoldRows, NEW c \in Checks, check[c].pc \in {"save", "publish"}
  PROVE  Turn(c) \in check[c].left /\ Turn(c) \in Thresholds
<1>1. check[c].left # {}
  BY DEF PublishersHoldRows
<1>2. Turn(c) \in check[c].left
  BY <1>1, TurnIsLeft
<1> QED
  BY <1>2 DEF AlertTypeOK

LEMMA AlertInit == InitAlerts => AlertInv
  BY AlertBoundsAssumption DEF InitAlerts, AlertInv, AlertTypeOK, PublishersHoldRows, AnnouncedAreDispatched,
     RowsAreCovered, PassedHaveRows, Waiting, CheckStages

(* Every action of BudgetAlertService keeps the well-typed state. *)
LEMMA AlertTypeStep == ASSUME AlertInv, [StepAlerts]_alertVars PROVE AlertTypeOK'
<1> USE AlertBoundsAssumption DEF AlertInv, AlertTypeOK, CheckStages
<1>1. ASSUME NEW u \in 0..MaxUtilization, Commit(u) PROVE AlertTypeOK'
  BY <1>1 DEF Commit
<1>2. ASSUME NEW c \in Checks, BeginCheck(c) PROVE AlertTypeOK'
  BY <1>2 DEF BeginCheck
<1>3. ASSUME NEW c \in Checks, FindDispatch(c) PROVE AlertTypeOK'
  BY <1>3 DEF FindDispatch, Done
<1>4. ASSUME NEW c \in Checks, SaveDispatch(c) PROVE AlertTypeOK'
  BY <1>4, WritersHaveATurn DEF SaveDispatch, InsertAccepts
<1>5. ASSUME NEW c \in Checks, Publish(c) PROVE AlertTypeOK'
  <2>1. Turn(c) \in Thresholds
    BY <1>5, WritersHaveATurn DEF Publish
  <2>2. announced' \in [Thresholds -> Nat] /\ alertFaults' \in Nat
    BY <1>5, <2>1 DEF Publish
  <2>3. Done(c) \in SUBSET Thresholds
    BY DEF Done
  <2>4. check' \in [Checks -> [pc : CheckStages, left : SUBSET Thresholds, crossed : SUBSET Thresholds]]
    BY <1>5, <2>3 DEF Publish, AfterPublish
  <2> QED
    BY <1>5, <2>2, <2>4 DEF Publish
<1>6. ASSUME NEW c \in Checks, EndCheck(c) PROVE AlertTypeOK'
  BY <1>6 DEF EndCheck, Waiting
<1>7. ASSUME NEW c \in Checks, CheckDies(c) PROVE AlertTypeOK'
  BY <1>7 DEF CheckDies
<1>8. CASE UNCHANGED alertVars
  BY <1>8 DEF alertVars
<1> QED
  BY <1>1, <1>2, <1>3, <1>4, <1>5, <1>6, <1>7, <1>8 DEF StepAlerts

(* A step of one check leaves the turn of the others alone. *)
LEMMA OtherTurns ==
  ASSUME NEW c \in Checks, NEW d \in Checks, check'[d].left = check[d].left
  PROVE  Turn(d)' = Turn(d)
  BY DEF Turn
LEMMA SameTurns == ASSUME UNCHANGED check, NEW d \in Checks PROVE Turn(d)' = Turn(d)
  BY DEF Turn

(* The unique row keeps two checks from publishing the same threshold. *)
LEMMA PublishersStep ==
  ASSUME AlertInv, AlertTypeOK', [StepAlerts]_alertVars
  PROVE  PublishersHoldRows' /\ AnnouncedAreDispatched'
<1> DEFINE Goal == PublishersHoldRows' /\ AnnouncedAreDispatched'
<1> USE DEF AlertInv, AlertTypeOK, PublishersHoldRows, AnnouncedAreDispatched
<1>1. ASSUME NEW u \in 0..MaxUtilization, Commit(u) PROVE Goal
  BY <1>1, SameTurns DEF Commit
<1>2. ASSUME NEW c \in Checks, BeginCheck(c) PROVE Goal
  <2>1. \A d \in Checks \ {c} : Turn(d)' = Turn(d)
    BY <1>2, OtherTurns DEF BeginCheck
  <2>2. check'[c].pc = "find" /\ check'[c].crossed \ check'[c].left = {}
        /\ \A d \in Checks \ {c} : check'[d] = check[d]
    BY <1>2 DEF BeginCheck
  <2> QED
    BY <1>2, <2>1, <2>2 DEF BeginCheck
<1>3. ASSUME NEW c \in Checks, FindDispatch(c) PROVE Goal
  BY <1>3, OtherTurns DEF FindDispatch, Done
<1>4. ASSUME NEW c \in Checks, SaveDispatch(c) PROVE Goal
  <2>1. \A d \in Checks : Turn(d)' = Turn(d)
    BY <1>4, OtherTurns DEF SaveDispatch
  <2>2. Turn(c) \in check[c].left
    BY <1>4, WritersHaveATurn DEF SaveDispatch
  <2>3. CASE InsertAccepts(Turn(c))
    <3>1. \A d \in Checks : Turn(d) # Turn(c) \/ check[d].pc # "publish"
      BY <2>3 DEF InsertAccepts
    <3>2. announced[Turn(c)] = 0
      <4>1. announced[Turn(c)] \in Nat /\ announced[Turn(c)] <= 1 /\ announced[Turn(c)] # 1
        BY <2>2, <2>3 DEF InsertAccepts
      <4>2. \A n \in Nat : n <= 1 /\ n # 1 => n = 0
        OBVIOUS
      <4> QED
        BY <4>1, <4>2, Zenon
    <3>3. check' = [check EXCEPT ![c].pc = "publish"] /\ dispatched' = dispatched \cup {Turn(c)}
          /\ UNCHANGED announced
      BY <1>4, <2>3 DEF SaveDispatch
    <3> QED
      BY <1>4, <2>1, <2>2, <3>1, <3>2, <3>3
  <2>4. CASE ~InsertAccepts(Turn(c))
    BY <1>4, <2>1, <2>4 DEF SaveDispatch
  <2> QED
    BY <2>3, <2>4
<1>5. ASSUME NEW c \in Checks, Publish(c) PROVE Goal
  <2>1. \A d \in Checks \ {c} : Turn(d)' = Turn(d)
    BY <1>5, OtherTurns DEF Publish
  <2>2. Turn(c) \in check[c].left
    BY <1>5, WritersHaveATurn DEF Publish
  <2> QED
    BY <1>5, <2>1, <2>2 DEF Publish
<1>6. ASSUME NEW c \in Checks, EndCheck(c) PROVE Goal
  BY <1>6, OtherTurns DEF EndCheck, Waiting
<1>7. ASSUME NEW c \in Checks, CheckDies(c) PROVE Goal
  BY <1>7, OtherTurns DEF CheckDies
<1>8. CASE UNCHANGED alertVars
  BY <1>8, SameTurns DEF alertVars
<1> QED
  BY <1>1, <1>2, <1>3, <1>4, <1>5, <1>6, <1>7, <1>8 DEF StepAlerts

(* A row is announced, about to be announced or lost, and a check passes a
   threshold only when it has a row. *)
LEMMA CoverageStep ==
  ASSUME AlertInv, AlertTypeOK', [StepAlerts]_alertVars
  PROVE  RowsAreCovered' /\ PassedHaveRows'
<1> DEFINE Goal == RowsAreCovered' /\ PassedHaveRows'
<1> USE DEF AlertInv, AlertTypeOK, RowsAreCovered, Covered, PassedHaveRows
<1>1. ASSUME NEW u \in 0..MaxUtilization, Commit(u) PROVE Goal
  BY <1>1, SameTurns DEF Commit
<1>2. ASSUME NEW c \in Checks, BeginCheck(c) PROVE Goal
  <2>1. \A d \in Checks \ {c} : Turn(d)' = Turn(d)
    BY <1>2, OtherTurns DEF BeginCheck
  <2>2. check'[c].pc = "find" /\ check'[c].crossed \ check'[c].left = {}
        /\ \A d \in Checks \ {c} : check'[d] = check[d]
    BY <1>2 DEF BeginCheck
  <2> QED
    BY <1>2, <2>1, <2>2 DEF BeginCheck
<1>3. ASSUME NEW c \in Checks, FindDispatch(c) PROVE Goal
  <2>1. \A d \in Checks \ {c} : Turn(d)' = Turn(d)
    BY <1>3, OtherTurns DEF FindDispatch
  <2> QED
    BY <1>3, <2>1 DEF FindDispatch, Done
<1>4. ASSUME NEW c \in Checks, SaveDispatch(c) PROVE Goal
  <2>1. \A d \in Checks : Turn(d)' = Turn(d)
    BY <1>4, OtherTurns DEF SaveDispatch
  <2>2. RowsAreCovered'
    BY <1>4, <2>1 DEF SaveDispatch
  <2>3. PassedHaveRows'
    BY <1>4 DEF SaveDispatch
  <2> QED
    BY <2>2, <2>3
<1>5. ASSUME NEW c \in Checks, Publish(c) PROVE Goal
  <2>1. \A d \in Checks \ {c} : Turn(d)' = Turn(d)
    BY <1>5, OtherTurns DEF Publish
  <2>2. Turn(c) \in dispatched /\ Turn(c) \in check[c].left /\ announced[Turn(c)] = 0
    BY <1>5, WritersHaveATurn DEF Publish, PublishersHoldRows
  <2>3. RowsAreCovered'
    <3>1. CASE announced' = [announced EXCEPT ![Turn(c)] = @ + 1]
      BY <1>5, <2>1, <2>2, <3>1 DEF Publish
    <3>2. CASE alertFaults' = alertFaults + 1
      BY <3>2
    <3> QED
      BY <1>5, <3>1, <3>2 DEF Publish
  <2>4. PassedHaveRows'
    BY <1>5, <2>2 DEF Publish, AfterPublish, Done
  <2> QED
    BY <2>3, <2>4
<1>6. ASSUME NEW c \in Checks, EndCheck(c) PROVE Goal
  <2>1. \A d \in Checks \ {c} : Turn(d)' = Turn(d)
    BY <1>6, OtherTurns DEF EndCheck
  <2> QED
    BY <1>6, <2>1 DEF EndCheck, Waiting
<1>7. ASSUME NEW c \in Checks, CheckDies(c) PROVE Goal
  BY <1>7, OtherTurns DEF CheckDies
<1>8. CASE UNCHANGED alertVars
  BY <1>8, SameTurns DEF alertVars
<1> QED
  BY <1>1, <1>2, <1>3, <1>4, <1>5, <1>6, <1>7, <1>8 DEF StepAlerts

LEMMA AlertInvariant == AlertSpec => []AlertInv
<1>1. AlertInv /\ [StepAlerts]_alertVars => AlertInv'
  BY AlertTypeStep, PublishersStep, CoverageStep DEF AlertInv
<1> QED
  BY AlertInit, <1>1, PTL DEF AlertSpec

(* Commitments that cross a threshold at the same time announce it once: the
   unique row of budget_alert_dispatches decides, and its owner publishes once. *)
THEOREM AlertsAreAnnouncedOnce == AlertSpec => []AnnouncedOnce
<1>1. AlertInv => AnnouncedOnce
  BY DEF AlertInv, AnnouncedAreDispatched, AnnouncedOnce
<1> QED
  BY AlertInvariant, <1>1, PTL

(* A check that ran to its end left no crossed threshold silent, unless a write
   failed or a worker stopped. *)
THEOREM CrossingsAreAnnounced == AlertSpec => []CrossedIsAnnounced
<1>1. AlertInv => CrossedIsAnnounced
  BY DEF AlertInv, PassedHaveRows, RowsAreCovered, Covered, CrossedIsAnnounced
<1> QED
  BY AlertInvariant, <1>1, PTL

-----------------------------------------------------------------------------
(* The escalation of a pending expense. *)

SchedulerStages == {"none", "look", "remove", "add", "done"}
TimerStates == {"none", "delayed", "active", "remind", "over", "failed"}
EscalationTypeOK ==
  /\ pending \in BOOLEAN /\ rounds \in 0..MaxSubmissions
  /\ scheduler \in [Submissions -> SchedulerStages]
  /\ timer \in TimerStates
  /\ reminded \subseteq Submissions /\ unpublished \subseteq Submissions

\* Every submission, and nothing else, has a handler, and a job comes from one.
HandlersAreOfSubmissions ==
  /\ \A s \in Submissions : scheduler[s] # "none" <=> s <= rounds
  /\ pending \/ timer # "none" => rounds > 0

Reminded == rounds \in reminded \cup unpublished

\* Once the last handler has cleared the name, the job that holds it is one that
\* still will remind: none is over without having looked at this submission.
ClearedNameIsFresh ==
  pending /\ scheduler[rounds] \in {"add", "done"} =>
    Reminded \/ timer \in {"none", "delayed", "active", "remind"}

\* And when the name is free again, a handler that freed it is about to take it.
FreeNameIsTaken ==
  pending /\ scheduler[rounds] = "done" /\ timer = "none" =>
    Reminded \/ \E s \in 1..rounds : scheduler[s] # "done"

EscalationInv ==
  EscalationTypeOK /\ HandlersAreOfSubmissions /\ ClearedNameIsFresh /\ FreeNameIsTaken

LEMMA EscalationInit == InitEscalation => EscalationInv
<1> SUFFICES ASSUME InitEscalation PROVE EscalationInv
  OBVIOUS
<1> USE MaxSubmissionsAssumption DEF InitEscalation, Submissions
<1>1. EscalationTypeOK
  <2>1. rounds \in 0..MaxSubmissions
    OBVIOUS
  <2>2. scheduler \in [Submissions -> SchedulerStages] /\ timer \in TimerStates /\ pending \in BOOLEAN
    BY DEF SchedulerStages, TimerStates
  <2> QED
    BY <2>1, <2>2 DEF EscalationTypeOK
<1>2. HandlersAreOfSubmissions
  BY DEF HandlersAreOfSubmissions
<1> QED
  BY <1>1, <1>2 DEF EscalationInv, ClearedNameIsFresh, FreeNameIsTaken

LEMMA EscalationStep == ASSUME EscalationInv, [StepEscalation]_escalationVars PROVE EscalationInv'
<1> USE MaxSubmissionsAssumption DEF EscalationInv, EscalationTypeOK, HandlersAreOfSubmissions,
        ClearedNameIsFresh, FreeNameIsTaken, Submissions, SchedulerStages, TimerStates, Reminded
<1>1. CASE SubmitExpense
  BY <1>1 DEF SubmitExpense
<1>2. CASE DecideExpense
  BY <1>2 DEF DecideExpense
<1>3. CASE TimerFires
  BY <1>3 DEF TimerFires
<1>4. CASE ReadPending
  BY <1>4 DEF ReadPending
<1>5. CASE EndJob
  <2>1. rounds \in 1..MaxSubmissions
    BY <1>5 DEF EndJob
  <2>2. CASE timer = "over"
    BY <1>5, <2>2 DEF EndJob
  <2>3. CASE timer = "remind" /\ timer' = "none"
    BY <1>5, <2>1, <2>3 DEF EndJob
  <2>4. CASE timer = "remind" /\ timer' = "failed"
    BY <1>5, <2>1, <2>4 DEF EndJob
  <2> QED
    BY <1>5, <2>2, <2>3, <2>4 DEF EndJob
<1>6. ASSUME NEW s \in Submissions, LookForJob(s) PROVE EscalationInv'
  BY <1>6 DEF LookForJob, AfterLook
<1>7. ASSUME NEW s \in Submissions, RemoveJob(s) PROVE EscalationInv'
  BY <1>7 DEF RemoveJob, Held
<1>8. ASSUME NEW s \in Submissions, AddJob(s) PROVE EscalationInv'
  BY <1>8 DEF AddJob
<1>9. ASSUME NEW s \in Submissions, SchedulerFails(s) PROVE EscalationInv'
  BY <1>9 DEF SchedulerFails
<1>10. CASE UNCHANGED escalationVars
  BY <1>10 DEF escalationVars
<1> QED
  BY <1>1, <1>2, <1>3, <1>4, <1>5, <1>6, <1>7, <1>8, <1>9, <1>10 DEF StepEscalation

(* However the handlers of several submissions of an expense interleave with
   each other and with the job, the last submission is reminded of, or the
   failure to publish its reminder is recorded. *)
THEOREM PendingExpensesAreReminded == EscalationSpec => []PendingIsReminded
<1>1. EscalationInv /\ [StepEscalation]_escalationVars => EscalationInv'
  BY EscalationStep
<1>2. EscalationInv => PendingIsReminded
  BY MaxSubmissionsAssumption DEF EscalationInv, EscalationTypeOK, HandlersAreOfSubmissions,
     ClearedNameIsFresh, FreeNameIsTaken, PendingIsReminded, Submissions, Reminded
<1> QED
  BY EscalationInit, <1>1, <1>2, PTL DEF EscalationSpec

-----------------------------------------------------------------------------
(* The notices of domain events. *)

ListenerStages == {"new", "next", "prefer", "insert", "save", "queue"}
JobStates == {"none", "waiting", "sending", "marking", "failed", "gone"}
NoticeTypeOK ==
  /\ staff \in [manager : SUBSET Addressees, finance : SUBSET Addressees]
  /\ configured \in BOOLEAN /\ hasRow \subseteq Addressees
  /\ listener \in [Told -> [pc : ListenerStages, left : SUBSET Addressees,
                            user : Addressees \cup {"nobody"}]]
  /\ notice \in [NoticeKeys -> {"none", "pending", "sent", "failed"}]
  /\ mailJob \in [NoticeKeys -> [state : JobStates, attempts : Nat, stalls : Nat]]
  /\ accepted \in [NoticeKeys -> Nat]
  /\ lost \subseteq NoticeKeys /\ declined \subseteq NoticeKeys /\ cutShort \subseteq Told
  /\ faults \in Nat
  /\ \A r \in Told : listener[r].pc \notin {"new", "next"} => listener[r].user \in Addressees

\* Whom a listener has still to tell has no job: it visits everyone once.
ToBeTold(r, u) ==
  \/ listener[r].pc = "new" \/ u \in listener[r].left
  \/ listener[r].user = u /\ listener[r].pc \in {"prefer", "insert", "save", "queue"}
VisitedOnce ==
  \A r \in Told, u \in Addressees :
    /\ ToBeTold(r, u) => mailJob[<<r, u>>].state = "none"
    /\ u \in listener[r].left =>
         listener[r].user # u \/ listener[r].pc \in {"new", "next"}

\* Attempts are made one after another, and without a failure there is one.
JobsAreCounted ==
  \A n \in NoticeKeys :
    LET j == mailJob[n] IN
    /\ j.state = "none" => accepted[n] = 0 /\ notice[n] # "failed"
    /\ j.state = "waiting" => j.attempts < MaxAttempts
    /\ j.state \in {"sending", "marking"} => 0 < j.attempts /\ j.attempts <= MaxAttempts
    /\ j.state = "marking" => accepted[n] > 0 \/ ~configured
    /\ ~configured => accepted[n] = 0
    /\ j.state \in {"none", "waiting", "sending", "marking"} => j.stalls <= MaxStalls
    /\ j.state = "failed" =>
         /\ faults > 0 /\ j.attempts <= MaxAttempts
         /\ j.attempts = MaxAttempts \/ j.stalls > MaxStalls
    /\ faults = 0 => accepted[n] <= IF j.state \in {"marking", "gone"} THEN 1 ELSE 0
    /\ notice[n] = "failed" => j.state = "gone"

\* Whoever was not told yet, and is not to be told, turned the channel off.
NobodyIsForgotten ==
  \A r \in Told \ cutShort : listener[r].pc # "new" =>
    \A u \in Recipients(r) :
      \/ u \in listener[r].left
      \/ listener[r].user = u /\ listener[r].pc \in {"prefer", "insert", "save"}
      \/ notice[<<r, u>>] # "none"
      \/ <<r, u>> \in declined

NoticeInv ==
  /\ NoticeTypeOK /\ VisitedOnce /\ JobsAreCounted /\ NobodyIsForgotten
  /\ PendingIsUnderWay /\ OutcomeIsTrue

(* The recipients of an event are users, and the same as long as the staff is. *)
LEMMA RecipientsAreAddressees == ASSUME NoticeTypeOK, NEW r PROVE Recipients(r) \subseteq Addressees
  BY DEF NoticeTypeOK, Addressees, Recipients, ApprovalMail, DecisionMail, BudgetMail, AuthMail,
     ExpenseInApp, ApproverInApp, ManagerChangeInApp, TransferInApp, SuspensionInApp
LEMMA SameRecipients == ASSUME UNCHANGED staff, NEW r PROVE Recipients(r)' = Recipients(r)
  BY DEF Recipients, ApprovalMail, DecisionMail, BudgetMail, AuthMail,
     ExpenseInApp, ApproverInApp, ManagerChangeInApp, TransferInApp, SuspensionInApp

LEMMA NoticeInit == InitNotifications => NoticeInv
<1> SUFFICES ASSUME InitNotifications PROVE NoticeInv
  OBVIOUS
<1> USE NoticeBoundsAssumption DEF InitNotifications, NoJob, MaxStalls
<1>1. NoticeTypeOK
  BY DEF NoticeTypeOK, ListenerStages, JobStates
<1>2. VisitedOnce /\ JobsAreCounted /\ NobodyIsForgotten
  BY DEF VisitedOnce, JobsAreCounted, NobodyIsForgotten, NoticeKeys
<1>3. PendingIsUnderWay /\ OutcomeIsTrue
  BY DEF PendingIsUnderWay, OutcomeIsTrue
<1> QED
  BY <1>1, <1>2, <1>3 DEF NoticeInv

(* The listeners, and the users who change their preferences meanwhile. *)
LEMMA ListenerTypes ==
  ASSUME NoticeInv, NEW r \in Told,
         \/ BeginListener(r) \/ NextRecipient(r) \/ ReadPreference(r) \/ InsertPreference(r)
         \/ SaveNotice(r) \/ QueueMail(r) \/ ListenerFails(r)
  PROVE  NoticeTypeOK'
<1> USE NoticeBoundsAssumption DEF NoticeInv, NoticeTypeOK, ListenerStages, JobsSame, PreferencesSame
<1>1. CASE BeginListener(r)
  BY <1>1, RecipientsAreAddressees DEF BeginListener
<1>2. CASE NextRecipient(r)
  BY <1>2 DEF NextRecipient
<1>3. CASE ReadPreference(r)
  BY <1>3 DEF ReadPreference, ListenerAt, WithoutRow, NoticeKeys
<1> DEFINE Entry == [pc : ListenerStages, left : SUBSET Addressees, user : Addressees \cup {"nobody"}]
<1>8. \A v \in Entry, pc \in ListenerStages :
        /\ [v EXCEPT !.pc = pc] \in Entry
        /\ \A left \in SUBSET Addressees : [v EXCEPT !.pc = pc, !.left = left] \in Entry
  OBVIOUS
<1>9. listener[r] \in Entry
  OBVIOUS
<1>10. ASSUME NEW v \in Entry, v.user \in Addressees, listener' = [listener EXCEPT ![r] = v]
       PROVE  /\ listener' \in [Told -> Entry]
              /\ \A s \in Told : listener'[s].pc \notin {"new", "next"} => listener'[s].user \in Addressees
  BY <1>10
<1>4. CASE InsertPreference(r)
  <2>1. listener' = [listener EXCEPT ![r] = [listener[r] EXCEPT !.pc = "save"]]
    BY <1>4 DEF InsertPreference, ListenerAt
  <2>2. [listener[r] EXCEPT !.pc = "save"] \in Entry /\ listener[r].user \in Addressees
    <3>1. "save" \in ListenerStages /\ listener[r].user \in Addressees
      BY <1>4 DEF InsertPreference
    <3> HIDE DEF Entry
    <3> QED
      BY <1>8, <1>9, <3>1
  <2>3. [listener[r] EXCEPT !.pc = "save"].user = listener[r].user
    BY <1>9
  <2>4. /\ listener' \in [Told -> Entry]
        /\ \A s \in Told : listener'[s].pc \notin {"new", "next"} => listener'[s].user \in Addressees
    <3> DEFINE v == [listener[r] EXCEPT !.pc = "save"]
    <3> HIDE DEF v, Entry
    <3> QED
      BY <1>10, <2>1, <2>2, <2>3 DEF v
  <2> QED
    BY <1>4, <2>4 DEF InsertPreference
<1> DEFINE n == <<r, listener[r].user>>
<1>0. listener[r].pc \in {"save", "queue"} => n \in NoticeKeys
  BY DEF NoticeKeys
<1>5. CASE SaveNotice(r)
  <2>1. notice' = [notice EXCEPT ![n] = IF r[2] = "email" THEN "pending" ELSE "sent"]
    BY <1>5 DEF SaveNotice
  <2>2. notice' \in [NoticeKeys -> {"none", "pending", "sent", "failed"}]
    BY <2>1
  <2>3. /\ listener' = [listener EXCEPT ![r] = [listener[r] EXCEPT !.pc = AfterNotice(r)]]
        /\ AfterNotice(r) \in ListenerStages /\ listener[r].user \in Addressees
    BY <1>5 DEF SaveNotice, ListenerAt, AfterNotice
  <2>4. [listener[r] EXCEPT !.pc = AfterNotice(r)] \in Entry
    <3> HIDE DEF Entry
    <3> QED
      BY <1>8, <1>9, <2>3
  <2>6. [listener[r] EXCEPT !.pc = AfterNotice(r)].user = listener[r].user
    BY <1>9
  <2>5. /\ listener' \in [Told -> Entry]
        /\ \A s \in Told : listener'[s].pc \notin {"new", "next"} => listener'[s].user \in Addressees
    <3> DEFINE v == [listener[r] EXCEPT !.pc = AfterNotice(r)]
    <3> HIDE DEF v, Entry
    <3> QED
      BY <1>10, <2>3, <2>4, <2>6 DEF v
  <2> QED
    BY <1>5, <2>2, <2>5 DEF SaveNotice
<1>6. CASE QueueMail(r)
  <2>1. mailJob' = [mailJob EXCEPT ![n] = [state |-> "waiting", attempts |-> 0, stalls |-> 0]]
    BY <1>6 DEF QueueMail
  <2>2. mailJob' \in [NoticeKeys -> [state : JobStates, attempts : Nat, stalls : Nat]]
    BY <2>1 DEF JobStates
  <2>3. listener' = [listener EXCEPT ![r] = [listener[r] EXCEPT !.pc = "next"]]
    BY <1>6 DEF QueueMail, ListenerAt
  <2>4. [listener[r] EXCEPT !.pc = "next"] \in Entry /\ [listener[r] EXCEPT !.pc = "next"].pc = "next"
    BY <1>9
  <2>5. /\ listener' \in [Told -> Entry]
        /\ \A s \in Told : listener'[s].pc \notin {"new", "next"} => listener'[s].user \in Addressees
    <3> DEFINE v == [listener[r] EXCEPT !.pc = "next"]
    <3>1. v \in Entry /\ v.pc = "next" /\ listener' = [listener EXCEPT ![r] = v]
      BY <2>3, <2>4
    <3>2. listener \in [Told -> Entry]
      OBVIOUS
    <3> HIDE DEF v, Entry
    <3> QED
      BY <3>1, <3>2
  <2> QED
    BY <1>6, <2>2, <2>5 DEF QueueMail
<1>7. CASE ListenerFails(r)
  <2>1. faults' \in Nat
    BY <1>7 DEF ListenerFails, Fault
  <2>2. lost' \subseteq lost \cup (IF listener[r].pc = "queue" THEN {n} ELSE {})
    BY <1>7 DEF ListenerFails
  <2>3. lost' \subseteq NoticeKeys
    BY <1>0, <2>2
  <2>4. listener[r].left \ GivenUp(r) \in SUBSET Addressees
    OBVIOUS
  <2>5. listener' \in [Told -> Entry]
    <3> DEFINE left == listener[r].left \ GivenUp(r)
    <3>1. listener' = [listener EXCEPT ![r] = [listener[r] EXCEPT !.pc = "next", !.left = left]]
      BY <1>7 DEF ListenerFails
    <3> HIDE DEF left
    <3>2. [listener[r] EXCEPT !.pc = "next", !.left = left] \in Entry
      <4>1. "next" \in ListenerStages /\ left \in SUBSET Addressees
        BY <2>4 DEF left
      <4> HIDE DEF Entry
      <4> QED
        BY <1>8, <1>9, <4>1
    <3> QED
      BY <3>1, <3>2
  <2>6. \A s \in Told : listener'[s].pc \notin {"new", "next"} => listener'[s].user \in Addressees
    BY <1>7 DEF ListenerFails
  <2> QED
    BY <1>7, <2>1, <2>3, <2>5, <2>6 DEF ListenerFails
<1> QED
  BY <1>1, <1>2, <1>3, <1>4, <1>5, <1>6, <1>7

LEMMA ListenerSteps ==
  ASSUME NoticeInv, NoticeTypeOK', NEW r \in Told,
         \/ BeginListener(r) \/ NextRecipient(r) \/ ReadPreference(r) \/ InsertPreference(r)
         \/ SaveNotice(r) \/ QueueMail(r) \/ ListenerFails(r)
  PROVE  VisitedOnce' /\ JobsAreCounted' /\ PendingIsUnderWay' /\ OutcomeIsTrue'
<1> DEFINE Goal == VisitedOnce' /\ JobsAreCounted' /\ PendingIsUnderWay' /\ OutcomeIsTrue'
<1> USE NoticeBoundsAssumption DEF NoticeInv, NoticeTypeOK, VisitedOnce, ToBeTold, JobsAreCounted,
        PendingIsUnderWay, OutcomeIsTrue, JobsSame, PreferencesSame, NoticeKeys
<1>1. CASE BeginListener(r)
  BY <1>1 DEF BeginListener
<1>2. CASE NextRecipient(r)
  BY <1>2 DEF NextRecipient
<1>3. CASE ReadPreference(r)
  BY <1>3 DEF ReadPreference, ListenerAt, WithoutRow
<1>4. CASE InsertPreference(r)
  BY <1>4 DEF InsertPreference, ListenerAt
<1>5. CASE SaveNotice(r)
  BY <1>5 DEF SaveNotice, ListenerAt, AfterNotice
<1>6. CASE QueueMail(r)
  BY <1>6 DEF QueueMail, ListenerAt, MaxStalls
<1>7. CASE ListenerFails(r)
  <2>1. /\ listener'[r].left \subseteq listener[r].left /\ listener'[r].pc = "next"
        /\ listener'[r].user = listener[r].user
        /\ \A s \in Told \ {r} : listener'[s] = listener[s]
    BY <1>7 DEF ListenerFails
  <2>6. /\ lost' = IF listener[r].pc = "queue" THEN lost \cup {<<r, listener[r].user>>} ELSE lost
        /\ listener[r].pc # "new"
        /\ faults' = faults \/ faults' = faults + 1
        /\ UNCHANGED <<notice, mailJob, accepted, configured>>
    BY <1>7 DEF ListenerFails, Fault
  <2>0. VisitedOnce
    OBVIOUS
  <2>2. VisitedOnce'
    <3> HIDE DEF NoticeInv, NoticeTypeOK, JobsAreCounted, PendingIsUnderWay, OutcomeIsTrue
    <3>1. SUFFICES ASSUME NEW s \in Told, NEW u \in Addressees
                   PROVE  /\ ToBeTold(s, u)' => mailJob'[<<s, u>>].state = "none"
                          /\ u \in listener'[s].left =>
                               listener'[s].user # u \/ listener'[s].pc \in {"new", "next"}
      BY DEF VisitedOnce
    <3>2. ToBeTold(s, u)' => ToBeTold(s, u)
      BY <2>1 DEF ToBeTold
    <3> QED
      BY <2>0, <2>1, <2>6, <3>2
  <2>3. JobsAreCounted'
    BY <2>6
  <2>4. PendingIsUnderWay'
    BY <2>1, <2>6
  <2>5. OutcomeIsTrue'
    BY <2>6
  <2> QED
    BY <2>2, <2>3, <2>4, <2>5
<1> QED
  BY <1>1, <1>2, <1>3, <1>4, <1>5, <1>6, <1>7

LEMMA NobodyForgottenStep ==
  ASSUME NoticeInv, NoticeTypeOK', NEW r \in Told,
         \/ BeginListener(r) \/ NextRecipient(r) \/ ReadPreference(r) \/ InsertPreference(r)
         \/ SaveNotice(r) \/ QueueMail(r) \/ ListenerFails(r)
  PROVE  NobodyIsForgotten'
<1>1. UNCHANGED staff
  BY DEF BeginListener, NextRecipient, ReadPreference, InsertPreference, SaveNotice, QueueMail, ListenerFails
<1> DEFINE Accounted(x, u) ==
      \/ u \in listener[x].left
      \/ listener[x].user = u /\ listener[x].pc \in {"prefer", "insert", "save"}
      \/ notice[<<x, u>>] # "none"
      \/ <<x, u>> \in declined
<1>2. SUFFICES ASSUME NEW x \in Told \ cutShort', listener'[x].pc # "new", NEW u \in Recipients(x)
               PROVE  Accounted(x, u)'
  BY <1>1, SameRecipients DEF NobodyIsForgotten
<1>3. u \in Addressees /\ <<x, u>> \in NoticeKeys
  BY RecipientsAreAddressees DEF NoticeInv, NoticeKeys
<1>4. x \notin cutShort
  BY <1>2 DEF BeginListener, NextRecipient, ReadPreference, InsertPreference, SaveNotice, QueueMail,
     ListenerFails
<1>5. listener[x].pc # "new" => Accounted(x, u)
  BY <1>4 DEF NoticeInv, NobodyIsForgotten
<1> USE DEF NoticeInv, NoticeTypeOK, JobsSame, PreferencesSame
<1>6. CASE BeginListener(r)
  <2>1. CASE x = r
    <3>1. listener'[x].left = Recipients(x)
      BY <1>6, <2>1 DEF BeginListener
    <3> QED
      BY <1>2, <3>1
  <2>2. CASE x # r
    <3>1. listener'[x] = listener[x] /\ UNCHANGED <<notice, declined>>
      BY <1>6, <2>2 DEF BeginListener
    <3>2. Accounted(x, u)
      BY <1>2, <1>5, <3>1
    <3> QED
      BY <3>1, <3>2
  <2> QED
    BY <2>1, <2>2
<1>7. CASE NextRecipient(r)
  BY <1>2, <1>5, <1>7 DEF NextRecipient
<1>8. CASE ReadPreference(r)
  <2>1. Accounted(x, u) /\ notice' = notice /\ declined \subseteq declined'
        /\ listener'[x].left = listener[x].left /\ listener'[x].user = listener[x].user
    BY <1>2, <1>5, <1>8 DEF ReadPreference, ListenerAt
  <2>2. CASE x = r /\ listener[r].user = u
    BY <1>8, <2>2 DEF ReadPreference, ListenerAt, WithoutRow
  <2>3. CASE x # r
    BY <1>8, <2>1, <2>3 DEF ReadPreference, ListenerAt
  <2>4. CASE x = r /\ listener[r].user # u
    BY <2>1, <2>4
  <2> QED
    BY <2>2, <2>3, <2>4
<1>9. CASE InsertPreference(r)
  BY <1>2, <1>5, <1>9 DEF InsertPreference, ListenerAt
<1>10. CASE SaveNotice(r)
  <2>1. notice' = [notice EXCEPT ![<<r, listener[r].user>>] = IF r[2] = "email" THEN "pending" ELSE "sent"]
        /\ listener' = [listener EXCEPT ![r].pc = AfterNotice(r)]
        /\ listener[r].pc = "save" /\ UNCHANGED declined
    BY <1>10 DEF SaveNotice, ListenerAt
  <2>2. CASE x = r /\ listener[r].user = u
    BY <1>3, <2>1, <2>2
  <2>3. CASE ~(x = r /\ listener[r].user = u)
    <3>1. notice[<<x, u>>] # "none" => notice'[<<x, u>>] # "none"
      BY <1>3, <2>1
    <3>2. listener'[x].left = listener[x].left /\ listener[x].pc # "new"
          /\ (x # r => listener'[x] = listener[x])
      BY <1>2, <2>1
    <3>3. Accounted(x, u)
      BY <1>5, <3>2
    <3> QED
      BY <2>1, <2>3, <3>1, <3>2, <3>3
  <2> QED
    BY <2>2, <2>3
<1>11. CASE QueueMail(r)
  BY <1>2, <1>5, <1>11 DEF QueueMail, ListenerAt
<1>12. CASE ListenerFails(r)
  BY <1>2, <1>4, <1>5, <1>12 DEF ListenerFails
<1> QED
  BY <1>6, <1>7, <1>8, <1>9, <1>10, <1>11, <1>12

(* What a stall makes of a job. *)
LEMMA StalledJob ==
  ASSUME NEW j, j.stalls \in Nat, j.attempts \in Nat, NEW counted \in {0, 1},
         counted = 1 => j.stalls >= MaxStalls
  PROVE  LET k == Stalled(j, counted) IN
         /\ k.stalls = j.stalls + 1
         /\ j.stalls < MaxStalls => k.state = "waiting" /\ k.attempts = j.attempts - 1
         /\ j.stalls >= MaxStalls => k.state = "failed" /\ k.attempts <= j.attempts
  BY DEF Stalled, MaxStalls

(* The jobs of the e-mail queue: attempts, outcomes and failures. *)
LEMMA JobSteps ==
  ASSUME NoticeInv, NEW n \in NoticeKeys,
         \/ TakeMail(n) \/ MailAccepted(n) \/ MailSkipped(n) \/ AttemptFails(n) \/ WorkerStops(n) \/ MarkSent(n)
         \/ OnFailed(n)
  PROVE  NoticeInv'
<1> USE NoticeBoundsAssumption DEF MailSame, PreferencesSame, JobAt, Fault
<1>1. NoticeTypeOK'
  <2> USE DEF NoticeInv, NoticeTypeOK, JobStates, JobsAreCounted
  <2>1. CASE TakeMail(n)
    BY <2>1 DEF TakeMail
  <2>2. CASE MailAccepted(n)
    BY <2>2 DEF MailAccepted
  <2>7. CASE MailSkipped(n)
    BY <2>7 DEF MailSkipped
  <2>3. CASE AttemptFails(n)
    <3>1. Retry(n) \in {"waiting", "failed"}
      BY DEF Retry
    <3>2. mailJob' \in [NoticeKeys -> [state : JobStates, attempts : Nat, stalls : Nat]]
      BY <2>3, <3>1 DEF AttemptFails
    <3>3. accepted' \in [NoticeKeys -> Nat]
      BY <2>3 DEF AttemptFails
    <3> QED
      BY <2>3, <3>2, <3>3 DEF AttemptFails
  <2>4. CASE WorkerStops(n)
    BY <2>4 DEF WorkerStops, Stalled, MaxStalls
  <2>5. CASE MarkSent(n)
    BY <2>5 DEF MarkSent
  <2>6. CASE OnFailed(n)
    BY <2>6 DEF OnFailed, ReturnsEarly
  <2> QED
    BY <2>1, <2>2, <2>3, <2>4, <2>5, <2>6, <2>7
<1>2. UNCHANGED <<staff, listener, declined, cutShort>> /\ mailJob[n].state # "none"
      /\ (\A m \in NoticeKeys \ {n} : mailJob'[m] = mailJob[m]) /\ mailJob'[n].state # "none"
  BY <1>1 DEF NoticeInv, NoticeTypeOK, TakeMail, MailAccepted, MailSkipped, AttemptFails, WorkerStops, MarkSent,
     OnFailed, ReturnsEarly, Retry, Stalled
<1>3. VisitedOnce'
  <2>1. \A m \in NoticeKeys : mailJob[m].state = "none" => mailJob'[m].state = "none"
    BY <1>2
  <2> QED
    BY <1>2, <2>1 DEF NoticeInv, VisitedOnce, ToBeTold, NoticeKeys
<1> USE DEF NoticeInv, NoticeTypeOK, JobsAreCounted, PendingIsUnderWay, GivenUpStalled, OutcomeIsTrue
<1>4. JobsAreCounted' /\ PendingIsUnderWay' /\ OutcomeIsTrue'
  <2>1. CASE TakeMail(n)
    BY <2>1 DEF TakeMail
  <2>2. CASE MailAccepted(n)
    BY <2>2 DEF MailAccepted
  <2>7. CASE MailSkipped(n)
    BY <2>7 DEF MailSkipped
  <2>3. CASE AttemptFails(n)
    BY <2>3 DEF AttemptFails, Retry
  <2>4. CASE WorkerStops(n)
    <3>1. PICK counted \in {0, 1} :
            /\ counted = 1 => mailJob[n].stalls >= MaxStalls
            /\ mailJob' = [mailJob EXCEPT ![n] = Stalled(mailJob[n], counted)]
      BY <2>4 DEF WorkerStops
    <3>2. /\ mailJob[n].state \in {"sending", "marking"} /\ faults' = faults + 1
          /\ UNCHANGED <<staff, configured, listener, notice, accepted, lost>>
      BY <2>4 DEF WorkerStops
    <3>3. /\ mailJob'[n].stalls = mailJob[n].stalls + 1 /\ mailJob[n].stalls \in Nat
          /\ mailJob[n].stalls < MaxStalls =>
               mailJob'[n].state = "waiting" /\ mailJob'[n].attempts = mailJob[n].attempts - 1
          /\ mailJob[n].stalls >= MaxStalls =>
               mailJob'[n].state = "failed" /\ mailJob'[n].attempts <= mailJob[n].attempts
          /\ \A m \in NoticeKeys \ {n} : mailJob'[m] = mailJob[m]
      <4>1. mailJob'[n] = Stalled(mailJob[n], counted) /\ \A m \in NoticeKeys \ {n} : mailJob'[m] = mailJob[m]
        BY <3>1
      <4>2. mailJob[n].stalls \in Nat /\ mailJob[n].attempts \in Nat
        OBVIOUS
      <4> QED
        BY <3>1, <4>1, <4>2, StalledJob DEF MaxStalls
    <3>4. JobsAreCounted'
      <4>1. SUFFICES ASSUME NEW m \in NoticeKeys
                     PROVE  LET j == mailJob'[m] IN
                            /\ j.state = "none" => accepted[m] = 0 /\ notice[m] # "failed"
                            /\ j.state = "waiting" => j.attempts < MaxAttempts
                            /\ j.state \in {"sending", "marking"} => 0 < j.attempts /\ j.attempts <= MaxAttempts
                            /\ j.state = "marking" => accepted[m] > 0 \/ ~configured
                            /\ ~configured => accepted[m] = 0
                            /\ j.state \in {"none", "waiting", "sending", "marking"} => j.stalls <= MaxStalls
                            /\ j.state = "failed" => /\ j.attempts <= MaxAttempts
                                                     /\ j.attempts = MaxAttempts \/ j.stalls > MaxStalls
                            /\ notice[m] = "failed" => j.state = "gone"
        BY <3>2
      <4>2. CASE m # n
        BY <3>3, <4>2
      <4>3. CASE m = n
        <5>1. mailJob'[n].attempts \in Nat /\ mailJob'[n].stalls \in Nat
          BY <1>1
        <5>2. LET j == mailJob[n] IN
              /\ 0 < j.attempts /\ j.attempts <= MaxAttempts /\ j.attempts \in Nat
              /\ ~configured => accepted[n] = 0
              /\ notice[n] # "failed"
          BY <3>2
        <5> HIDE DEF NoticeInv, NoticeTypeOK, JobsAreCounted, PendingIsUnderWay, GivenUpStalled, OutcomeIsTrue
        <5> QED
          BY <3>2, <3>3, <4>3, <5>1, <5>2 DEF MaxStalls
      <4> QED
        BY <4>2, <4>3
    <3>6. PendingIsUnderWay'
      BY <3>2, <3>3 DEF MaxStalls, GivenUpStalled
    <3>7. OutcomeIsTrue'
      BY <3>2, <3>3
    <3> QED
      BY <3>4, <3>6, <3>7
  <2>5. CASE MarkSent(n)
    BY <2>5 DEF MarkSent
  <2>6. CASE OnFailed(n)
    BY <2>6 DEF OnFailed, ReturnsEarly
  <2> QED
    BY <2>1, <2>2, <2>3, <2>4, <2>5, <2>6, <2>7
<1>5. \A m \in NoticeKeys : notice[m] # "none" => notice'[m] # "none"
  BY DEF TakeMail, MailAccepted, MailSkipped, AttemptFails, WorkerStops, MarkSent, OnFailed, ReturnsEarly
<1>6. NobodyIsForgotten'
  <2>1. \A r : Recipients(r)' = Recipients(r) /\ Recipients(r) \subseteq Addressees
    BY <1>2, SameRecipients, RecipientsAreAddressees
  <2> QED
    BY <1>2, <1>5, <2>1 DEF NobodyIsForgotten, NoticeKeys
<1> QED
  BY <1>1, <1>3, <1>4, <1>6

LEMMA NoticeInvariant == NoticeSpec => []NoticeInv
<1>1. ASSUME NoticeInv, [StepNotifications]_noticeVars PROVE NoticeInv'
  <2>1. CASE UNCHANGED noticeVars
    BY <1>1, <2>1, SameRecipients DEF noticeVars, NoticeInv, NoticeTypeOK, NoticeKeys, VisitedOnce, ToBeTold,
       JobsAreCounted, NobodyIsForgotten, PendingIsUnderWay, OutcomeIsTrue
  <2>2. ASSUME NEW r \in Told,
               \/ BeginListener(r) \/ NextRecipient(r) \/ ReadPreference(r) \/ InsertPreference(r)
               \/ SaveNotice(r) \/ QueueMail(r) \/ ListenerFails(r)
        PROVE  NoticeInv'
    <3>1. NoticeTypeOK'
      BY <1>1, <2>2, ListenerTypes
    <3>2. VisitedOnce' /\ JobsAreCounted' /\ PendingIsUnderWay' /\ OutcomeIsTrue'
      BY <1>1, <2>2, <3>1, ListenerSteps
    <3>3. NobodyIsForgotten'
      BY <1>1, <2>2, <3>1, NobodyForgottenStep
    <3> QED
      BY <3>1, <3>2, <3>3 DEF NoticeInv
  <2>3. ASSUME NEW u \in Addressees, NEW c \in PreferenceSets, UpdatePreferences(u, c) PROVE NoticeInv'
    BY <1>1, <2>3, SameRecipients DEF UpdatePreferences, JobsSame, NoticeInv, NoticeTypeOK, NoticeKeys,
       VisitedOnce, ToBeTold, JobsAreCounted, NobodyIsForgotten, PendingIsUnderWay, OutcomeIsTrue
  <2>4. ASSUME NEW n \in NoticeKeys,
               \/ TakeMail(n) \/ MailAccepted(n) \/ MailSkipped(n) \/ AttemptFails(n) \/ WorkerStops(n) \/ MarkSent(n)
               \/ OnFailed(n)
        PROVE  NoticeInv'
    BY <1>1, <2>4, JobSteps
  <2> QED
    BY <1>1, <2>1, <2>2, <2>3, <2>4 DEF StepNotifications
<1> QED
  BY NoticeInit, <1>1, PTL DEF NoticeSpec

(* A notice the database shows as pending has a job that will settle it, or one
   of the two writes about it failed (sendEmail saves the row before the job is
   queued, onFailed does not await its write), or its job stalled twice and was
   given up by the queue with attempts left, which onFailed passes over. *)
THEOREM PendingNoticesAreUnderWay == NoticeSpec => []PendingIsUnderWay
<1>1. NoticeInv => PendingIsUnderWay
  BY DEF NoticeInv
<1> QED
  BY <1>1, NoticeInvariant, PTL

(* What a row says of its mail is true, whatever fails and however often the
   queue hands its job out again: SENT of a mail the service took, or of none when
   no service is configured, and FAILED of a job that used up its attempts. *)
THEOREM OutcomesAreTrue == NoticeSpec => []OutcomeIsTrue
<1>1. NoticeInv => OutcomeIsTrue
  BY DEF NoticeInv
<1> QED
  BY <1>1, NoticeInvariant, PTL

(* A listener that reached its end without a failing call left out only those
   whose preferences held the notice back, whatever they change meanwhile. *)
THEOREM EveryoneIsTold == NoticeSpec => []EveryoneTold
<1>1. NoticeInv => EveryoneTold
  <2> SUFFICES ASSUME NoticeInv, NEW r \in Told, Finished(r), r \notin cutShort, NEW u \in Recipients(r)
               PROVE  notice[<<r, u>>] # "none" \/ <<r, u>> \in declined
    BY DEF EveryoneTold
  <2> QED
    BY DEF NoticeInv, NobodyIsForgotten, Finished
<1> QED
  BY <1>1, NoticeInvariant, PTL

-----------------------------------------------------------------------------
(* What reports, dashboards and lists compute from the rows of the expenses: *)
(* every series is the rows of a period divided by a key, so that its        *)
(* figures add up to those of the period, whatever the rows are.             *)

Dates == CalendarDays \cup {Never}
RowsOf(c) ==
  [id : {c}, amount : Nat \ {0}, category : DOMAIN CategoryCaps, status : AllStatuses,
   unit : FigureUnits, created : CalendarDays, submitted : Dates, approved : Dates,
   reimbursed : Dates]

\* A row has the dates that its status has needed.
HasDates(row) ==
  /\ row.status # "DRAFT" => row.submitted # Never
  /\ row.status \in {"APPROVED", "REIMBURSED"} => row.approved # Never
  /\ row.status = "REIMBURSED" => row.reimbursed # Never

IsFormed(c) ==
  \/ claimBook[c] = NoRow
  \/ claimBook[c] \in RowsOf(c) /\ HasDates(claimBook[c])

\* The inductive invariant: every row is formed, and today is a day of the calendar.
FigureInv ==
  /\ claimBook = [c \in FiledClaims |-> claimBook[c]]
  /\ \A c \in FiledClaims : IsFormed(c)
  /\ ownersUnit \in FigureUnits \cup {None}
  /\ calendarDay \in CalendarDays

\* The least of some days is one of them.
LEMMA LeastDay ==
  ASSUME NEW D \in SUBSET CalendarDays, D # {} PROVE Min(D) \in CalendarDays
<1>1. \E x \in D : \A y \in D : x <= y
  <2> DEFINE rank == [x \in D |-> x]
  <2>1. \A x \in D : rank[x] \in Nat /\ rank[x] = x
    BY FiguresAssumption
  <2> HIDE DEF rank
  <2>2. \E x \in D : \A y \in D : rank[x] <= rank[y]
    BY <2>1, LeastExists
  <2> QED
    BY <2>1, <2>2
<1> QED
  BY <1>1 DEF Min

\* The first rows: none.
LEMMA FiguresInit == InitFigures => FigureInv
<1> SUFFICES ASSUME InitFigures PROVE FigureInv
  OBVIOUS
<1>1. calendarDay \in CalendarDays
  BY LeastDay, FiguresAssumption DEF InitFigures
<1>2. claimBook = [c \in FiledClaims |-> NoRow]
  BY DEF InitFigures
<1>3. \A c \in FiledClaims : IsFormed(c)
  <2>1. \A c \in FiledClaims : claimBook[c] = NoRow
    BY <1>2
  <2> QED
    BY <2>1 DEF IsFormed
<1>4. claimBook = [c \in FiledClaims |-> claimBook[c]]
  BY <1>2
<1>5. ownersUnit \in FigureUnits \cup {None}
  BY DEF InitFigures
<1> QED
  BY <1>1, <1>3, <1>4, <1>5 DEF FigureInv

\* A row that is written is formed if the service wrote the dates of its status.
LEMMA WritingStep ==
  ASSUME FigureInv, NEW c \in FiledClaims, NEW row, Write(c, row),
         row = NoRow \/ (row \in RowsOf(c) /\ HasDates(row))
  PROVE  FigureInv'
<1>1. /\ claimBook' = [claimBook EXCEPT ![c] = row]
      /\ UNCHANGED <<ownersUnit, calendarDay>>
  BY DEF Write
<1>2. claimBook = [d \in FiledClaims |-> claimBook[d]]
  BY DEF FigureInv
<1>3. claimBook' = [d \in FiledClaims |-> claimBook'[d]]
  BY <1>1, <1>2
<1>4. \A d \in FiledClaims : claimBook'[d] = IF d = c THEN row ELSE claimBook[d]
  BY <1>1, <1>2
<1>5. \A d \in FiledClaims : IsFormed(d)'
  BY <1>4 DEF FigureInv, IsFormed
<1> QED
  BY <1>1, <1>3, <1>5 DEF FigureInv

\* Every write of the services leaves formed rows.
LEMMA FiguresStep == ASSUME FigureInv, [StepFigures]_figureVars PROVE FigureInv'
<1>0. \A c \in FiledClaims : claimBook[c].status \in AllStatuses =>
         claimBook[c] \in RowsOf(c) /\ HasDates(claimBook[c])
  BY DEF FigureInv, IsFormed, NoRow, AllStatuses, Spent
<1>1. CASE UNCHANGED figureVars
  BY <1>1 DEF figureVars, FigureInv, IsFormed
<1>2. ASSUME NEW c \in FiledClaims, CreateRow(c) PROVE FigureInv'
  <2>1. PICK kind \in ClaimKinds :
           Write(c, [id |-> c, amount |-> kind.amount, category |-> kind.category,
                     status |-> "DRAFT", unit |-> ownersUnit, created |-> calendarDay,
                     submitted |-> Never, approved |-> Never, reimbursed |-> Never])
    BY <1>2 DEF CreateRow
  <2> DEFINE row == [id |-> c, amount |-> kind.amount, category |-> kind.category,
                     status |-> "DRAFT", unit |-> ownersUnit, created |-> calendarDay,
                     submitted |-> Never, approved |-> Never, reimbursed |-> Never]
  <2>2. kind.amount \in Nat \ {0} /\ kind.category \in DOMAIN CategoryCaps
    BY FiguresAssumption
  <2>3. ownersUnit \in FigureUnits /\ calendarDay \in CalendarDays
    BY <1>2 DEF CreateRow, FigureInv
  <2>4. row \in RowsOf(c) /\ HasDates(row)
    BY <2>2, <2>3 DEF RowsOf, HasDates, AllStatuses, Dates
  <2>5. Write(c, row)
    BY <2>1
  <2> HIDE DEF row
  <2> QED
    BY <2>4, <2>5, WritingStep
<1>3. ASSUME NEW c \in FiledClaims, RemoveRow(c) PROVE FigureInv'
  <2> DEFINE row == NoRow
  <2>1. Write(c, row) /\ row = NoRow
    BY <1>3 DEF RemoveRow
  <2> HIDE DEF row
  <2> QED
    BY <2>1, WritingStep
<1>4. ASSUME NEW c \in FiledClaims, EditRow(c) PROVE FigureInv'
  <2> DEFINE old == claimBook[c]
  <2>1. PICK kind \in ClaimKinds :
           Write(c, [old EXCEPT !.amount = kind.amount, !.category = kind.category])
    BY <1>4 DEF EditRow
  <2> DEFINE row == [old EXCEPT !.amount = kind.amount, !.category = kind.category]
  <2>2. kind.amount \in Nat \ {0} /\ kind.category \in DOMAIN CategoryCaps
    BY FiguresAssumption
  <2>3. old \in RowsOf(c) /\ HasDates(old)
    BY <1>0, <1>4 DEF EditRow, AllStatuses
  <2> HIDE DEF old
  <2>4. row \in RowsOf(c) /\ HasDates(row)
    BY <2>2, <2>3 DEF RowsOf, HasDates
  <2>5. Write(c, row)
    BY <2>1
  <2> HIDE DEF row
  <2> QED
    BY <2>4, <2>5, WritingStep
<1>5. ASSUME NEW c \in FiledClaims, NEW status \in InApproval \cup {"APPROVED"}, SubmitRow(c, status)
      PROVE  FigureInv'
  <2> DEFINE old == claimBook[c]
             row == [old EXCEPT !.status = status, !.submitted = calendarDay,
                                !.approved = IF status = "APPROVED" THEN calendarDay ELSE @]
  <2>1. Write(c, row) /\ calendarDay \in Dates /\ calendarDay # Never
    BY <1>5, FiguresAssumption DEF SubmitRow, FigureInv, Dates, Never
  <2>2. old \in RowsOf(c) /\ HasDates(old)
    BY <1>0, <1>5 DEF SubmitRow, AllStatuses
  <2> HIDE DEF old
  <2>3. row \in RowsOf(c) /\ HasDates(row)
    BY <2>1, <2>2 DEF RowsOf, HasDates, InApproval, AllStatuses, Spent
  <2> HIDE DEF row
  <2> QED
    BY <2>1, <2>3, WritingStep
<1>6. ASSUME NEW c \in FiledClaims, ReviewRow(c) \/ RejectRow(c) PROVE FigureInv'
  <2> DEFINE old == claimBook[c]
  <2>1. /\ old.status \in InApproval
        /\ \E status \in {"UNDER_REVIEW", "REJECTED"} : Write(c, [old EXCEPT !.status = status])
    BY <1>6 DEF ReviewRow, RejectRow, InApproval
  <2>2. old \in RowsOf(c) /\ HasDates(old)
    BY <1>0, <2>1 DEF InApproval, AllStatuses, Spent
  <2> HIDE DEF old
  <2>3. PICK status \in {"UNDER_REVIEW", "REJECTED"} : Write(c, [old EXCEPT !.status = status])
    BY <2>1
  <2> DEFINE row == [old EXCEPT !.status = status]
  <2>4. row \in RowsOf(c) /\ HasDates(row)
    BY <2>1, <2>2 DEF RowsOf, HasDates, InApproval, AllStatuses, Spent
  <2>5. Write(c, row)
    BY <2>3
  <2> HIDE DEF row
  <2> QED
    BY <2>4, <2>5, WritingStep
<1>7. ASSUME NEW c \in FiledClaims, ApproveRow(c) PROVE FigureInv'
  <2> DEFINE old == claimBook[c]
             row == [old EXCEPT !.status = "APPROVED", !.approved = calendarDay]
  <2>1. /\ old.status \in InApproval /\ Write(c, row)
        /\ calendarDay \in Dates /\ calendarDay # Never
    BY <1>7, FiguresAssumption DEF ApproveRow, FigureInv, Dates, Never
  <2>2. old \in RowsOf(c) /\ HasDates(old)
    BY <1>0, <2>1 DEF InApproval, AllStatuses, Spent
  <2> HIDE DEF old
  <2>3. row \in RowsOf(c) /\ HasDates(row)
    BY <2>1, <2>2 DEF RowsOf, HasDates, InApproval, AllStatuses, Spent
  <2> HIDE DEF row
  <2> QED
    BY <2>1, <2>3, WritingStep
<1>8. ASSUME NEW c \in FiledClaims, ReopenRow(c) PROVE FigureInv'
  <2> DEFINE old == claimBook[c]
             row == [old EXCEPT !.status = "DRAFT"]
  <2>1. old.status = "REJECTED" /\ Write(c, row)
    BY <1>8 DEF ReopenRow
  <2>2. old \in RowsOf(c) /\ HasDates(old)
    BY <1>0, <2>1 DEF AllStatuses
  <2> HIDE DEF old
  <2>3. row \in RowsOf(c) /\ HasDates(row)
    BY <2>1, <2>2 DEF RowsOf, HasDates, AllStatuses
  <2> HIDE DEF row
  <2> QED
    BY <2>1, <2>3, WritingStep
<1>9. ASSUME NEW c \in FiledClaims, ReimburseRow(c) PROVE FigureInv'
  <2> DEFINE old == claimBook[c]
             row == [old EXCEPT !.status = "REIMBURSED", !.reimbursed = calendarDay]
  <2>1. /\ old.status = "APPROVED" /\ Write(c, row)
        /\ calendarDay \in Dates /\ calendarDay # Never
    BY <1>9, FiguresAssumption DEF ReimburseRow, FigureInv, Dates, Never
  <2>2. old \in RowsOf(c) /\ HasDates(old)
    BY <1>0, <2>1 DEF AllStatuses, Spent
  <2> HIDE DEF old
  <2>3. row \in RowsOf(c) /\ HasDates(row)
    BY <2>1, <2>2 DEF RowsOf, HasDates, AllStatuses, Spent
  <2> HIDE DEF row
  <2> QED
    BY <2>1, <2>3, WritingStep
<1>10. CASE MoveOwner
  BY <1>10 DEF MoveOwner, FigureInv, IsFormed
<1>11. CASE NextDay
  <2>1. calendarDay' \in CalendarDays
    <3> DEFINE D == {d \in CalendarDays : d > calendarDay}
    <3>1. calendarDay' = Min(D) /\ D \in SUBSET CalendarDays /\ D # {}
      BY <1>11 DEF NextDay
    <3> HIDE DEF D
    <3> QED
      BY <3>1, LeastDay
  <2> QED
    BY <1>11, <2>1 DEF NextDay, FigureInv, IsFormed
<1> QED
  BY <1>1, <1>2, <1>3, <1>4, <1>5, <1>6, <1>7, <1>8, <1>9, <1>10, <1>11 DEF StepFigures

\* A total of figures, as the recursion that Total is: one term after another.
TotalStep(F, g, s) == IF s = {} THEN Nothing ELSE AddFigures(F[Pick(s)], g[s \ {Pick(s)}])
Totals(F, K) == CHOOSE g : g = [s \in SUBSET K |-> TotalStep(F, g, s)]

\* The figures of a series, taken apart.
HasFigures(F, K, count, amount) ==
  \A k \in K : F[k] = [count |-> count[k], totalAmount |-> amount[k]]

\* It adds up the counts and the amounts.
LEMMA TotalIsSums ==
  ASSUME NEW K, IsFiniteSet(K), NEW F, DOMAIN F = K, NEW count, NEW amount,
         HasFigures(F, K, count, amount)
  PROVE  Total(F) = [count |-> SumOf(count, K), totalAmount |-> SumOf(amount, K)]
<1> DEFINE A(s) == Sums(count, K)[s]
           B(s) == Sums(amount, K)[s]
           G == [s \in SUBSET K |-> [count |-> A(s), totalAmount |-> B(s)]]
           T == Totals(F, K)
           N == {n \in Nat : \A s \in SUBSET K : Cardinality(s) = n => T[s] = G[s]}
<1>1. \A s \in SUBSET K : /\ IsFiniteSet(s) /\ Cardinality(s) \in Nat
                          /\ (Cardinality(s) = 0 <=> s = {})
  BY FS_Subset, FS_CardinalityType, FS_EmptySet
<1>2. \A s \in SUBSET K : G[s] = TotalStep(F, G, s)
  <2> SUFFICES ASSUME NEW s \in SUBSET K PROVE G[s] = TotalStep(F, G, s)
    OBVIOUS
  <2>1. A(s) = Partial(count, Sums(count, K), s) /\ B(s) = Partial(amount, Sums(amount, K), s)
    BY SumsDefined
  <2>2. CASE s = {}
    BY <2>1, <2>2 DEF Partial, TotalStep, Nothing
  <2>3. CASE s # {}
    <3> DEFINE x == Pick(s)
               r == s \ {x}
    <3>1. x \in K /\ r \in SUBSET K
      BY <2>3, PickSmaller
    <3>2. A(s) = count[x] + A(r) /\ B(s) = amount[x] + B(r)
      BY <2>1, <2>3 DEF Partial
    <3>3. TotalStep(F, G, s) = AddFigures(F[x], G[r])
      BY <2>3 DEF TotalStep
    <3> HIDE DEF x, r
    <3>4. G[r] = [count |-> A(r), totalAmount |-> B(r)] /\ G[s] = [count |-> A(s), totalAmount |-> B(s)]
      BY <3>1
    <3>5. F[x] = [count |-> count[x], totalAmount |-> amount[x]]
      BY <3>1 DEF HasFigures
    <3> HIDE DEF A, B, G, T, N
    <3>6. AddFigures(F[x], G[r]) = [count |-> count[x] + A(r), totalAmount |-> amount[x] + B(r)]
      BY <3>4, <3>5 DEF AddFigures
    <3> QED
      BY <3>2, <3>3, <3>4, <3>6
  <2> QED
    BY <2>2, <2>3
<1>3. G = [s \in SUBSET K |-> G[s]]
  OBVIOUS
<1> HIDE DEF G
<1>4. G = [s \in SUBSET K |-> TotalStep(F, G, s)]
  BY <1>2, <1>3
<1>5. T = [s \in SUBSET K |-> TotalStep(F, T, s)]
  BY <1>4 DEF Totals
<1> HIDE DEF T
<1>6. \A s \in SUBSET K : T[s] = TotalStep(F, T, s)
  BY <1>5
<1>7. 0 \in N
  <2>1. T[{}] = G[{}]
    BY <1>2, <1>6 DEF TotalStep
  <2> QED
    BY <1>1, <2>1
<1>8. ASSUME NEW n \in Nat, n \in N PROVE n + 1 \in N
  <2> SUFFICES ASSUME NEW s \in SUBSET K, Cardinality(s) = n + 1 PROVE T[s] = G[s]
    OBVIOUS
  <2>1. s # {}
    BY <1>1
  <2>2. Pick(s) \in s /\ s \ {Pick(s)} \in SUBSET K /\ Cardinality(s \ {Pick(s)}) = n
    BY <2>1, PickSmaller
  <2>3. T[s \ {Pick(s)}] = G[s \ {Pick(s)}]
    BY <1>8, <2>2
  <2> QED
    BY <1>2, <1>6, <2>1, <2>3 DEF TotalStep
<1> HIDE DEF N
<1>9. Nat \subseteq N
  BY <1>7, <1>8, SetInduction
<1>10. Cardinality(K) \in N
  BY <1>1, <1>9
<1>11. T[K] = G[K]
  BY <1>10 DEF N
<1>12. SumOf(count, K) = Sums(count, K)[K] /\ SumOf(amount, K) = Sums(amount, K)[K]
  BY SumIsSums
<1>13. Total(F) = T[K]
  BY DEF Total, MapThenFoldSet, T, Totals, TotalStep, Pick
<1>14. K \in SUBSET K
  OBVIOUS
<1> QED
  BY <1>11, <1>12, <1>13, <1>14 DEF G

\* What the policies add up is a sum over the rows.
LEMMA AmountsAreSum ==
  ASSUME NEW S PROVE Policies!AmountsOf(S) = SumOf([e \in S |-> e.amount], S)
<1> DEFINE f == [e \in S |-> e.amount]
           Term(g, s) == (CHOOSE x \in s : TRUE).amount + g[s \ {CHOOSE x \in s : TRUE}]
           Step(g, s) == IF s = {} THEN 0 ELSE Term(g, s)
<1>1. \A s : s \in SUBSET S /\ s # {} =>
         (CHOOSE x \in s : TRUE).amount = f[CHOOSE x \in s : TRUE]
  OBVIOUS
<1>2. \A g : [s \in SUBSET S |-> Step(g, s)] = [s \in SUBSET S |-> Partial(f, g, s)]
  BY <1>1 DEF Partial, Pick
<1>3. Sums(f, S) = CHOOSE g : g = [s \in SUBSET S |-> Step(g, s)]
  BY <1>2 DEF Sums
<1>4. Policies!AmountsOf(S) = (CHOOSE g : g = [s \in SUBSET S |-> Step(g, s)])[S]
  BY DEF Policies!AmountsOf, Policies!MapThenSumSet, Policies!MapThenFoldSet
<1> QED
  BY <1>3, <1>4, SumIsSums

\* Rows divided by a key: the figures of the parts add up to those of the whole.
LEMMA FiguresSplit ==
  ASSUME NEW S, IsFiniteSet(S), \A e \in S : e.amount \in Nat,
         NEW K, IsFiniteSet(K), NEW key, \A e \in S : key[e] \in K,
         NEW F, DOMAIN F = K, \A k \in K : F[k] = Figure(Part(S, key, k))
  PROVE  Total(F) = Figure(S)
<1> DEFINE f == [e \in S |-> e.amount]
           count == [k \in K |-> Cardinality(Part(S, key, k))]
           amount == [k \in K |-> SumOf(f, Part(S, key, k))]
<1>1. \A e \in S : f[e] = e.amount /\ f[e] \in Int
  OBVIOUS
<1>2. Policies!AmountsOf(S) = SumOf(f, S)
  BY AmountsAreSum
<1> HIDE DEF f
<1>3. ASSUME NEW k \in K PROVE Policies!AmountsOf(Part(S, key, k)) = SumOf(f, Part(S, key, k))
  <2> DEFINE P == Part(S, key, k)
             h == [e \in P |-> e.amount]
  <2>1. IsFiniteSet(P) /\ P \subseteq S
    BY FS_Subset DEF Part
  <2> HIDE DEF P
  <2>2. \A e \in P : h[e] = f[e]
    BY <1>1, <2>1
  <2>3. Policies!AmountsOf(P) = SumOf(h, P)
    BY AmountsAreSum
  <2> HIDE DEF h
  <2>4. SumOf(h, P) = SumOf(f, P)
    BY <2>1, <2>2, SumCongruence
  <2> QED
    BY <2>3, <2>4 DEF P
<1>4. \A k \in K : count[k] = Cardinality(Part(S, key, k)) /\ amount[k] = SumOf(f, Part(S, key, k))
  OBVIOUS
<1> HIDE DEF count, amount
<1>5. SumOf(count, K) = Cardinality(S)
  BY <1>4, CountPartition
<1>6. SumOf(amount, K) = SumOf(f, S)
  BY <1>1, <1>4, SumPartition
<1>7. HasFigures(F, K, count, amount)
  BY <1>3, <1>4 DEF Figure, HasFigures
<1>8. Total(F) = [count |-> SumOf(count, K), totalAmount |-> SumOf(amount, K)]
  BY <1>7, TotalIsSums
<1> QED
  BY <1>2, <1>5, <1>6, <1>8 DEF Figure

\* No rows, no figures.
LEMMA NoFigure == Figure({}) = Nothing
<1> DEFINE f == [e \in {} |-> e.amount]
<1>1. Policies!AmountsOf({}) = SumOf(f, {})
  BY AmountsAreSum
<1> HIDE DEF f
<1> QED
  BY <1>1, SumEmpty, FS_EmptySet DEF Figure, Nothing

\* The total of a series without rows.
LEMMA NothingInAll ==
  ASSUME NEW F, IsFiniteSet(DOMAIN F), \A k \in DOMAIN F : F[k] = Figure({}) PROVE Total(F) = Nothing
<1> DEFINE none == {}
           K == DOMAIN F
           key == [e \in none |-> e]
<1>1. \A k \in K : F[k] = Figure(Part(none, key, k))
  BY DEF Part
<1>2. IsFiniteSet(none) /\ (\A e \in none : e.amount \in Nat) /\ (\A e \in none : key[e] \in K)
  BY FS_EmptySet
<1>3. IsFiniteSet(K) /\ DOMAIN F = K
  OBVIOUS
<1> HIDE DEF key, none, K
<1>4. Total(F) = Figure(none)
  BY <1>1, <1>2, <1>3, FiguresSplit
<1> QED
  BY <1>4, NoFigure DEF none

\* Every day is of one month of one year.
LEMMA DayIsOfMonth ==
  ASSUME NEW day \in Nat
  PROVE  /\ YearOf(day) \in Nat /\ MonthInYear(day) \in 1..12
         /\ FirstDay(YearOf(day), MonthInYear(day)) <= day
         /\ day < FirstDay(YearOf(day), MonthInYear(day)) + 31
<1> DEFINE q == day \div 31
<1>1. q \in Nat /\ 31 * q <= day /\ day < 31 * q + 31
  OBVIOUS
<1>2. YearOf(day) \in Nat /\ 372 * YearOf(day) <= day /\ day < 372 * YearOf(day) + 372
  BY DEF YearOf
<1>3. MonthInYear(day) = (q % 12) + 1
  BY DEF MonthInYear
<1> HIDE DEF q
<1>4. q % 12 \in 0..11 /\ q = 12 * (q \div 12) + (q % 12) /\ q \div 12 \in Nat
  BY <1>1
<1> DEFINE y == YearOf(day)
           z == q \div 12
           r == q % 12
<1> HIDE DEF y, z, r
<1>5. z = y
  BY <1>1, <1>2, <1>4 DEF y, z, r
<1> QED
  BY <1>1, <1>2, <1>3, <1>4, <1>5 DEF y, z, r, FirstDay

\* A day is between the first days of a month and of the next one exactly if it is of that
\* month.
LEMMA MonthsRange ==
  ASSUME NEW day \in Nat, NEW year \in Nat, NEW month \in 1..12
  PROVE  (FirstDay(year, month) <= day /\ day < FirstDay(year, month) + 31)
           <=> (YearOf(day) = year /\ MonthInYear(day) = month)
<1> DEFINE y == YearOf(day)
           m == MonthInYear(day)
<1>1. /\ y \in Nat /\ m \in 1..12
      /\ y * 372 + (m - 1) * 31 <= day
      /\ day < y * 372 + (m - 1) * 31 + 31
  BY DayIsOfMonth DEF FirstDay
<1> HIDE DEF y, m
<1> QED
  BY <1>1 DEF y, m, FirstDay

\* The same of a quarter.
LEMMA QuartersRange ==
  ASSUME NEW day \in Nat, NEW year \in Nat, NEW quarter \in 1..4
  PROVE  (FirstDay(year, (quarter - 1) * 3 + 1) <= day /\ day < FirstDay(year, quarter * 3 + 1))
           <=> (YearOf(day) = year /\ MonthInYear(day) \in (quarter - 1) * 3 + 1 .. (quarter - 1) * 3 + 3)
<1> DEFINE y == YearOf(day)
           m == MonthInYear(day)
<1>1. /\ y \in Nat /\ m \in 1..12
      /\ y * 372 + (m - 1) * 31 <= day
      /\ day < y * 372 + (m - 1) * 31 + 31
  BY DayIsOfMonth DEF FirstDay
<1> HIDE DEF y, m
<1> QED
  BY <1>1 DEF y, m, FirstDay

\* The same of a year.
LEMMA YearsRange ==
  ASSUME NEW day \in Nat, NEW year \in Nat
  PROVE  (FirstDay(year, 1) <= day /\ day < FirstDay(year + 1, 1)) <=> YearOf(day) = year
<1> DEFINE y == YearOf(day)
<1>1. y \in Nat /\ 372 * y <= day /\ day < 372 * y + 372
  BY DEF YearOf
<1>2. FirstDay(year, 1) = 372 * year /\ FirstDay(year + 1, 1) = 372 * year + 372
  BY DEF FirstDay
<1> HIDE DEF y
<1>3. (372 * year <= day /\ day < 372 * year + 372) <=> y = year
  BY <1>1
<1> QED
  BY <1>2, <1>3 DEF y

\* A day of a month is of one of its five weeks.
LEMMA DayIsOfWeek == ASSUME NEW day \in Nat PROVE WeekOf(day) \in 1..5
<1>1. DayOfMonth(day) \in 1..31
  BY DEF DayOfMonth
<1> QED
  BY <1>1 DEF WeekOf

\* The period before the next one is the period itself.
LEMMA BackAndForth ==
  ASSUME NEW mode \in DOMAIN PartsOf, NEW year \in Nat, NEW part \in 1..PartsOf[mode]
  PROVE  previousReportPeriod(shiftReportPeriodByMode(Period(mode, year, part), 1))
           = Period(mode, year, part)
<1> DEFINE n == PartsOf[mode]
           p == Period(mode, year, part)
           after == shiftReportPeriodByMode(p, 1)
           absolute == year * n + part - 1
<1>1. n \in {1, 4, 12} /\ part \in 1..n
  BY DEF PartsOf
<1>2. after = Period(mode, (absolute + 1) \div n, ((absolute + 1) % n) + 1)
  BY DEF shiftReportPeriodByMode, Period
<1>3. previousReportPeriod(after)
        = LET a == ((absolute + 1) \div n) * n + (((absolute + 1) % n) + 1) - 1 + (-1)
          IN  Period(mode, a \div n, (a % n) + 1)
  BY <1>2 DEF previousReportPeriod, shiftReportPeriodByMode, Period
<1> DEFINE a == ((absolute + 1) \div n) * n + (((absolute + 1) % n) + 1) - 1 + (-1)
<1>4. a = absolute
  BY <1>1
<1>5. absolute \div n = year /\ (absolute % n) + 1 = part
  BY <1>1
<1> QED
  BY <1>3, <1>4, <1>5

\* A date is a number.
LEMMA DatesAreNumbers == \A day \in Dates : day \in Nat
<1>1. \A day \in CalendarDays : day \in Nat
  BY FiguresAssumption
<1> QED
  BY <1>1 DEF Dates, Never

\* Rows are finitely many, each under its id.
LEMMA RowsAreFormed ==
  ASSUME FigureInv
  PROVE  /\ IsFiniteSet(Rows)
         /\ \A e \in Rows : /\ e.id \in FiledClaims /\ e = claimBook[e.id]
                            /\ e \in RowsOf(e.id) /\ HasDates(e)
<1> DEFINE D == {d \in FiledClaims : claimBook[d] # NoRow}
<1>1. IsFiniteSet(D)
  BY FS_Subset, FiguresAssumption
<1>2. IsFiniteSet(Rows)
  <2> DEFINE f == [c \in D |-> claimBook[c]]
  <2>1. f \in Surjection(D, Rows)
    BY DEF Rows, Surjection
  <2> HIDE DEF D, f
  <2> QED
    BY <1>1, <2>1, FS_Surjection
<1>3. ASSUME NEW e \in Rows
      PROVE  e.id \in FiledClaims /\ e = claimBook[e.id] /\ e \in RowsOf(e.id) /\ HasDates(e)
  <2>1. PICK c \in FiledClaims : claimBook[c] # NoRow /\ e = claimBook[c]
    BY DEF Rows
  <2>2. e \in RowsOf(c) /\ HasDates(e)
    BY <2>1 DEF FigureInv, IsFormed
  <2>3. e.id = c
    BY <2>2 DEF RowsOf
  <2> QED
    BY <2>1, <2>2, <2>3
<1> QED
  BY <1>2, <1>3

\* What the figures read of a row.
LEMMA RowFields ==
  ASSUME FigureInv, NEW e \in Rows
  PROVE  /\ e.amount \in Nat \ {0} /\ e.category \in DOMAIN CategoryCaps
         /\ e.status \in AllStatuses /\ e.unit \in FigureUnits
         /\ e.created \in CalendarDays /\ e.submitted \in Dates
         /\ e.approved \in Dates /\ e.reimbursed \in Dates
BY RowsAreFormed DEF RowsOf

\* The same as numbers; no row has the id None of a claim that is not a row.
LEMMA RowNumbers ==
  ASSUME FigureInv, NEW e \in Rows
  PROVE  e.id # None /\ e.submitted \in Nat /\ e.amount \in Nat
<1>1. e.submitted \in Dates /\ e.amount \in Nat \ {0}
  BY RowFields
<1>2. e.id \in FiledClaims
  BY RowsAreFormed
<1>3. \A day \in Dates : day \in Nat
  BY DatesAreNumbers
<1>4. None \notin FiledClaims
  BY FiguresAssumption
<1> QED
  BY <1>1, <1>2, <1>3, <1>4

\* A selection of rows can be divided.
LEMMA RowsCanBeSplit ==
  ASSUME FigureInv, NEW S \in SUBSET Rows
  PROVE  IsFiniteSet(S) /\ \A e \in S : e.amount \in Nat
BY RowsAreFormed, RowFields, FS_Subset

\* A period and the months that make it up.
MonthsOf(mode, part) == IF mode = "MONTH" THEN {part} ELSE resolveMonthsInPeriod(mode, part)

\* They are finitely many.
LEMMA MonthsAreFew ==
  ASSUME NEW mode \in DOMAIN PartsOf, NEW part \in 1..PartsOf[mode]
  PROVE  IsFiniteSet(resolveMonthsInPeriod(mode, part))
<1> DEFINE M == resolveMonthsInPeriod(mode, part)
<1>1. mode = "QUARTER" => part \in 1..4
  BY DEF PartsOf
<1>2. M \in SUBSET Nat /\ (\A m \in M : m <= 12)
  BY <1>1 DEF resolveMonthsInPeriod
<1> HIDE DEF M
<1>3. IsFiniteSet(M)
  BY <1>2, FS_BoundedSetOfNaturals
<1> QED
  BY <1>3 DEF M

\* A day is in the range of a period exactly if its month is one of these.
LEMMA InPeriod ==
  ASSUME NEW day \in Dates, NEW mode \in DOMAIN PartsOf, NEW year \in Nat,
         NEW part \in 1..PartsOf[mode]
  PROVE  Between(day, resolveReportPeriodRange(Period(mode, year, part)))
           <=> /\ day # Never
               /\ YearOf(day) = year /\ MonthInYear(day) \in MonthsOf(mode, part)
<1> DEFINE p == Period(mode, year, part)
<1>1. day \in Nat
  BY DatesAreNumbers
<1>2. p.mode = mode /\ p.year = year /\ p.part = part
  BY DEF Period
<1> HIDE DEF p
<1>3. CASE mode = "MONTH"
  <2>1. part \in 1..12
    BY <1>3 DEF PartsOf
  <2>2. resolveReportPeriodRange(p) = [start |-> FirstDay(year, part), end |-> FirstDay(year, part) + 31]
    BY <1>2, <1>3, <2>1 DEF resolveReportPeriodRange, budgetPeriodRange, FirstDay
  <2> QED
    BY <1>1, <1>3, <2>1, <2>2, MonthsRange DEF Between, MonthsOf, p
<1>4. CASE mode = "QUARTER"
  <2>1. part \in 1..4
    BY <1>4 DEF PartsOf
  <2>2. resolveReportPeriodRange(p)
          = [start |-> FirstDay(year, (part - 1) * 3 + 1), end |-> FirstDay(year, part * 3 + 1)]
    BY <1>2, <1>4 DEF resolveReportPeriodRange, budgetQuarterRange
  <2>3. MonthsOf(mode, part) = (part - 1) * 3 + 1 .. (part - 1) * 3 + 3
    BY <1>4 DEF MonthsOf, resolveMonthsInPeriod
  <2> DEFINE range == resolveReportPeriodRange(p)
             months == MonthsOf(mode, part)
  <2> HIDE DEF range, months
  <2>4. Between(day, range) <=> /\ day # Never
                                /\ FirstDay(year, (part - 1) * 3 + 1) <= day
                                /\ day < FirstDay(year, part * 3 + 1)
    BY <2>2 DEF Between, range
  <2>5. Between(day, range) <=> day # Never /\ YearOf(day) = year /\ MonthInYear(day) \in months
    BY <1>1, <2>1, <2>3, <2>4, QuartersRange DEF months
  <2> QED
    BY <2>5 DEF range, months, p
<1>5. CASE mode = "YEAR"
  <2>1. resolveReportPeriodRange(p) = [start |-> FirstDay(year, 1), end |-> FirstDay(year + 1, 1)]
    BY <1>2, <1>5 DEF resolveReportPeriodRange, budgetYearRange
  <2>2. MonthsOf(mode, part) = 1..12
    BY <1>5 DEF MonthsOf, resolveMonthsInPeriod
  <2> QED
    BY <1>1, <2>1, <2>2, YearsRange, DayIsOfMonth DEF Between, p
<1> QED
  BY <1>3, <1>4, <1>5 DEF PartsOf

\* The range of the months of a year.
LEMMA InYear ==
  ASSUME NEW day \in Dates, NEW year \in Nat
  PROVE  Between(day, budgetYearRange(year)) <=> day # Never /\ YearOf(day) = year
<1>1. day \in Nat
  BY DatesAreNumbers
<1> QED
  BY <1>1, YearsRange DEF Between, budgetYearRange

\* The dashboard's periods are those of the reports.
LEMMA SamePeriods ==
  ASSUME NEW mode \in DOMAIN PartsOf, NEW year \in Nat, NEW part \in 1..PartsOf[mode]
  PROVE  DashboardRange(Period(mode, year, part)) = resolveReportPeriodRange(Period(mode, year, part))
<1>1. CASE mode = "MONTH"
  <2>1. part \in 1..12
    BY <1>1 DEF PartsOf
  <2> QED
    BY <1>1, <2>1 DEF DashboardRange, resolvePeriod, resolveReportPeriodRange, budgetPeriodRange,
                      Period, FirstDay
<1>2. CASE mode = "QUARTER"
  <2>1. part \in 1..4
    BY <1>2 DEF PartsOf
  <2> QED
    BY <1>2, <2>1 DEF DashboardRange, resolvePeriod, resolveReportPeriodRange, budgetQuarterRange,
                      Period, FirstDay
<1>3. CASE mode = "YEAR"
  BY <1>3 DEF DashboardRange, resolvePeriod, resolveReportPeriodRange, budgetYearRange, Period
<1> QED
  BY <1>1, <1>2, <1>3 DEF PartsOf

\* What is asked of the periods in which something happens.
LEMMA PeriodAsked ==
  ASSUME NEW mode \in DOMAIN PartsOf, NEW p \in PeriodsAsked(mode)
  PROVE  /\ p = Period(mode, p.year, p.part) /\ p.mode = mode
         /\ p.year \in Nat /\ p.part \in 1..PartsOf[mode]
<1>1. PICK day \in CalendarDays : p = Period(mode, YearOf(day), PartOf(mode, day))
  BY DEF PeriodsAsked
<1>2. YearOf(day) \in Nat /\ MonthInYear(day) \in 1..12
  BY FiguresAssumption, DayIsOfMonth
<1>3. PartOf(mode, day) \in 1..PartsOf[mode]
  BY <1>2 DEF PartOf, PartsOf
<1> QED
  BY <1>1, <1>2, <1>3 DEF Period

\* A month of the series of a year is that month of every period it belongs to.
LEMMA MonthOfSummary ==
  ASSUME FigureInv, NEW viewer, NEW statuses,
         NEW mode \in DOMAIN PartsOf, NEW year \in Nat, NEW part \in 1..PartsOf[mode],
         NEW m \in MonthsOf(mode, part)
  PROVE  getSpendingByMonth(viewer, statuses, year, m)
           = Figure({e \in getSpendingSummary(viewer, statuses, Period(mode, year, part)) :
                       MonthInYear(e.submitted) = m})
<1> DEFINE Y == scopedQuery(viewer, statuses, budgetYearRange(year), None)
           Q == getSpendingSummary(viewer, statuses, Period(mode, year, part))
<1>1. ASSUME NEW e \in Rows
      PROVE  (e \in Y /\ MonthInYear(e.submitted) = m) <=> (e \in Q /\ MonthInYear(e.submitted) = m)
  <2>1. e.submitted \in Dates
    BY RowFields
  <2>2. Between(e.submitted, budgetYearRange(year))
          <=> e.submitted # Never /\ YearOf(e.submitted) = year
    BY <2>1, InYear
  <2>3. Between(e.submitted, resolveReportPeriodRange(Period(mode, year, part)))
          <=> /\ e.submitted # Never
              /\ YearOf(e.submitted) = year /\ MonthInYear(e.submitted) \in MonthsOf(mode, part)
    BY <2>1, InPeriod
  <2> QED
    BY <2>2, <2>3 DEF getSpendingSummary, scopedQuery
<1>2. Y \subseteq Rows /\ Q \subseteq Rows
  BY DEF getSpendingSummary, scopedQuery
<1> HIDE DEF Y, Q
<1>3. {e \in Y : MonthInYear(e.submitted) = m} = {e \in Q : MonthInYear(e.submitted) = m}
  BY <1>1, <1>2
<1> QED
  BY <1>3 DEF getSpendingByMonth, Y, Q

\* The reports agree: months, statuses and categories are keys of the rows of a period.
LEMMA ReportsHold == ASSUME FigureInv PROVE ReportsAddUp
<1> SUFFICES ASSUME NEW viewer \in Viewers, NEW scope \in DOMAIN reportStatuses
             PROVE  LET statuses == reportStatuses[scope]
                        Asked(p) == getSpendingSummary(viewer, statuses, p)
                    IN  /\ \A p \in PeriodsAsked("MONTH") :
                             getSpendingByMonth(viewer, statuses, p.year, p.part) = Figure(Asked(p))
                        /\ \A p \in PeriodsAsked("QUARTER") \cup PeriodsAsked("YEAR") :
                             LET claims == Asked(p)
                                 ofMonth == [m \in resolveMonthsInPeriod(p.mode, p.part) |->
                                               getSpendingByMonth(viewer, statuses, p.year, m)]
                                 ofCategory == [k \in DOMAIN CategoryCaps |-> getSpendingByCategory(claims, k)]
                                 ofStatus == [s \in statuses |-> byStatus(claims, s)]
                             IN  /\ getSpendComparison(viewer, statuses, shiftReportPeriodByMode(p, 1)).previous
                                      = Figure(claims)
                                 /\ Figure(claims) = Total(ofMonth)
                                 /\ Figure(claims) = Total(ofStatus)
                                 /\ Figure(claims) = Total(ofCategory)
  BY DEF ReportsAddUp
<1> DEFINE statuses == reportStatuses[scope]
           Asked(p) == getSpendingSummary(viewer, statuses, p)
<1>1. statuses \in SUBSET AllStatuses /\ IsFiniteSet(statuses)
  <2>1. statuses \in SUBSET Spent
    BY DEF reportStatuses, Spent
  <2>2. IsFiniteSet(Spent)
    <3>1. IsFiniteSet({}) /\ Spent = ((({} \cup {"SUBMITTED"}) \cup {"UNDER_REVIEW"}) \cup {"APPROVED"}) \cup {"REIMBURSED"}
      BY FS_EmptySet DEF Spent
    <3> QED
      BY <3>1, FS_AddElement
  <2> QED
    BY <2>1, <2>2, FS_Subset DEF AllStatuses
<1> HIDE DEF statuses
<1>2. ASSUME NEW p \in PeriodsAsked("MONTH")
      PROVE  getSpendingByMonth(viewer, statuses, p.year, p.part) = Figure(Asked(p))
  <2>1. p = Period("MONTH", p.year, p.part) /\ p.year \in Nat /\ p.part \in 1..PartsOf["MONTH"]
        /\ "MONTH" \in DOMAIN PartsOf
    BY PeriodAsked DEF PartsOf
  <2>2. p.part \in MonthsOf("MONTH", p.part) /\ MonthsOf("MONTH", p.part) = {p.part}
    BY DEF MonthsOf
  <2>3. getSpendingByMonth(viewer, statuses, p.year, p.part)
          = Figure({e \in Asked(p) : MonthInYear(e.submitted) = p.part})
    BY <2>1, <2>2, MonthOfSummary
  <2>4. ASSUME NEW e \in Asked(p) PROVE MonthInYear(e.submitted) = p.part
    <3>1. e \in Rows /\ Between(e.submitted, resolveReportPeriodRange(p))
      BY DEF getSpendingSummary, scopedQuery
    <3>2. e.submitted \in Dates
      BY <3>1, RowFields
    <3> QED
      BY <2>1, <2>2, <3>1, <3>2, InPeriod
  <2> HIDE DEF Asked
  <2>5. {e \in Asked(p) : MonthInYear(e.submitted) = p.part} = Asked(p)
    BY <2>4
  <2> QED
    BY <2>3, <2>5
<1>3. ASSUME NEW mode \in {"QUARTER", "YEAR"}, NEW p \in PeriodsAsked(mode)
      PROVE  LET claims == Asked(p)
                 ofMonth == [m \in resolveMonthsInPeriod(p.mode, p.part) |->
                               getSpendingByMonth(viewer, statuses, p.year, m)]
                 ofCategory == [k \in DOMAIN CategoryCaps |-> getSpendingByCategory(claims, k)]
                 ofStatus == [s \in statuses |-> byStatus(claims, s)]
             IN  /\ getSpendComparison(viewer, statuses, shiftReportPeriodByMode(p, 1)).previous
                      = Figure(claims)
                 /\ Figure(claims) = Total(ofMonth)
                 /\ Figure(claims) = Total(ofStatus)
                 /\ Figure(claims) = Total(ofCategory)
  <2>1. /\ p = Period(mode, p.year, p.part) /\ p.mode = mode
        /\ p.year \in Nat /\ p.part \in 1..PartsOf[mode] /\ mode \in DOMAIN PartsOf
    BY PeriodAsked DEF PartsOf
  <2> DEFINE claims == Asked(p)
             months == resolveMonthsInPeriod(mode, p.part)
             ofMonth == [m \in months |-> getSpendingByMonth(viewer, statuses, p.year, m)]
             ofCategory == [k \in DOMAIN CategoryCaps |-> getSpendingByCategory(claims, k)]
             ofStatus == [s \in statuses |-> byStatus(claims, s)]
  <2>2. getSpendComparison(viewer, statuses, shiftReportPeriodByMode(p, 1)).previous = Figure(claims)
    <3>1. previousReportPeriod(shiftReportPeriodByMode(p, 1)) = p
      BY <2>1, BackAndForth
    <3> QED
      BY <3>1 DEF getSpendComparison
  <2>3. claims \in SUBSET Rows /\ \A e \in claims : e.status \in statuses
    BY DEF getSpendingSummary, scopedQuery
  <2>4. IsFiniteSet(claims) /\ \A e \in claims : e.amount \in Nat
    BY <2>3, RowsCanBeSplit
  <2>5. Figure(claims) = Total(ofMonth)
    <3> DEFINE key == [e \in claims |-> MonthInYear(e.submitted)]
    <3>1. months = MonthsOf(mode, p.part) /\ IsFiniteSet(months)
      BY <2>1, MonthsAreFew DEF MonthsOf
    <3>2. ASSUME NEW e \in claims PROVE MonthInYear(e.submitted) \in months
      <4>1. e \in Rows /\ Between(e.submitted, resolveReportPeriodRange(p))
        BY DEF getSpendingSummary, scopedQuery
      <4>2. e.submitted \in Dates
        BY <4>1, RowFields
      <4> QED
        BY <2>1, <3>1, <4>1, <4>2, InPeriod
    <3> HIDE DEF claims, months
    <3>3. \A e \in claims : key[e] \in months
      BY <3>2
    <3>4. ASSUME NEW m \in months PROVE ofMonth[m] = Figure(Part(claims, key, m))
      <4>1. ofMonth[m] = Figure({e \in claims : MonthInYear(e.submitted) = m})
        BY <2>1, <3>1, MonthOfSummary DEF claims
      <4>2. {e \in claims : MonthInYear(e.submitted) = m} = Part(claims, key, m)
        BY DEF Part
      <4> QED
        BY <4>1, <4>2
    <3>5. DOMAIN ofMonth = months
      OBVIOUS
    <3> HIDE DEF ofMonth, key
    <3> QED
      BY <2>4, <3>1, <3>3, <3>4, <3>5, FiguresSplit
  <2>6. Figure(claims) = Total(ofStatus)
    <3> DEFINE key == [e \in claims |-> e.status]
    <3> HIDE DEF claims
    <3>1. \A e \in claims : key[e] \in statuses
      BY <2>3
    <3>2. \A s \in statuses : ofStatus[s] = Figure(Part(claims, key, s))
      BY DEF byStatus, Part
    <3>3. DOMAIN ofStatus = statuses
      OBVIOUS
    <3> HIDE DEF ofStatus, key
    <3> QED
      BY <1>1, <2>4, <3>1, <3>2, <3>3, FiguresSplit
  <2>7. Figure(claims) = Total(ofCategory)
    <3> DEFINE key == [e \in claims |-> e.category]
               K == DOMAIN CategoryCaps
    <3> HIDE DEF claims
    <3>1. \A e \in claims : key[e] \in K
      BY <2>3, RowFields
    <3>2. \A k \in K : ofCategory[k] = Figure(Part(claims, key, k))
      BY DEF getSpendingByCategory, Part
    <3>3. DOMAIN ofCategory = K /\ IsFiniteSet(K)
      BY FiguresAssumption
    <3> HIDE DEF ofCategory, key, K
    <3> QED
      BY <2>4, <3>1, <3>2, <3>3, FiguresSplit
  <2> QED
    BY <2>1, <2>2, <2>5, <2>6, <2>7
<1> QED
  BY <1>2, <1>3 DEF statuses

\* The departments agree: every row has its owner's department, or there is none.
LEMMA DepartmentsHold == ASSUME FigureInv PROVE DepartmentsAddUp
<1> SUFFICES ASSUME NEW viewer \in Viewers, expenseListVisibility(viewer) = "all",
                    NEW p \in PeriodsAsked("YEAR")
             PROVE  LET ofUnit == [u \in FigureUnits |-> getSpendingByDepartment(viewer, Spent, p, u)]
                        claims == getSpendingSummary(viewer, Spent, p)
                    IN  /\ Total(ofUnit) = IF ownersUnit = None THEN Nothing ELSE Figure(claims)
                        /\ BudgetedUnits = FigureUnits => getOrganizationBudget(p.year) = Figure(claims)
  BY DEF DepartmentsAddUp
<1> DEFINE ofUnit == [u \in FigureUnits |-> getSpendingByDepartment(viewer, Spent, p, u)]
           claims == getSpendingSummary(viewer, Spent, p)
<1>1. /\ p = Period("YEAR", p.year, p.part) /\ p.mode = "YEAR"
      /\ p.year \in Nat /\ p.part \in 1..PartsOf["YEAR"] /\ "YEAR" \in DOMAIN PartsOf
  BY PeriodAsked DEF PartsOf
<1>2. VisibilityOf[viewer] = "all"
  BY DEF VisibilityOf
<1>3. claims \in SUBSET Rows
  BY DEF getSpendingSummary, scopedQuery
<1>4. IsFiniteSet(claims) /\ \A e \in claims : e.amount \in Nat
  BY <1>3, RowsCanBeSplit
<1>5. \A u \in FigureUnits : ofUnit[u] = Figure({e \in claims : ownersUnit = u})
  <2>1. resolveDepartmentFilter(viewer, None, TRUE) = None
    BY <1>2 DEF resolveDepartmentFilter
  <2> QED
    BY <2>1 DEF getSpendingByDepartment, getSpendingSummary
<1>6. DOMAIN ofUnit = FigureUnits
  OBVIOUS
<1> HIDE DEF ofUnit
<1>7. ASSUME ownersUnit = None PROVE Total(ofUnit) = Nothing
  <2>1. \A u \in FigureUnits : {e \in claims : ownersUnit = u} = {}
    BY <1>7, FiguresAssumption
  <2>2. \A u \in FigureUnits : ofUnit[u] = Figure({})
    BY <1>5, <2>1
  <2>3. IsFiniteSet(FigureUnits)
    BY FiguresAssumption
  <2> QED
    BY <1>6, <2>2, <2>3, NothingInAll
<1>8. ASSUME ownersUnit # None PROVE Total(ofUnit) = Figure(claims)
  <2> DEFINE key == [e \in claims |-> ownersUnit]
  <2> HIDE DEF claims
  <2>1. ownersUnit \in FigureUnits /\ IsFiniteSet(FigureUnits)
    BY <1>8, FiguresAssumption DEF FigureInv
  <2>2. \A e \in claims : key[e] \in FigureUnits
    BY <2>1
  <2>3. \A u \in FigureUnits : ofUnit[u] = Figure(Part(claims, key, u))
    BY <1>5 DEF Part
  <2> HIDE DEF key
  <2> QED
    BY <1>4, <1>6, <2>1, <2>2, <2>3, FiguresSplit
<1>9. ASSUME BudgetedUnits = FigureUnits PROVE getOrganizationBudget(p.year) = Figure(claims)
  <2> DEFINE B == {e \in Rows : /\ e.unit \in BudgetedUnits
                                /\ Between(e.submitted, budgetYearRange(p.year))
                                /\ e.status \in InApproval \cup {"APPROVED", "REIMBURSED"}}
  <2>1. resolveReportPeriodRange(p) = budgetYearRange(p.year)
    BY <1>1 DEF resolveReportPeriodRange
  <2>2. \A e \in Rows : e.unit \in FigureUnits
    BY RowFields
  <2>3. B = claims
    BY <1>2, <1>9, <2>1, <2>2 DEF getSpendingSummary, scopedQuery, Visible, InApproval, Spent
  <2> QED
    BY <2>3 DEF getOrganizationBudget
<1> QED
  BY <1>7, <1>8, <1>9 DEF ofUnit

\* The series of the dashboards agree: weeks and months are keys of the rows of a range.
LEMMA SeriesHold == ASSUME FigureInv PROVE SeriesAddUp
<1> SUFFICES ASSUME NEW S \in {Rows} \cup {TeamOf(unit) : unit \in FigureUnits},
                    NEW mode \in DOMAIN PartsOf, NEW p \in PeriodsAsked(mode)
             PROVE  LET ofWeek == [w \in 1..5 |-> getWeeklySpendOverTime(S, DashboardRange(p), w)]
                        ofMonth == [m \in resolveMonthsInPeriod(mode, p.part) |->
                                      getMonthlySpendOverTime(S, DashboardRange(p), m)]
                        all == Figure({e \in S : Between(e.created, DashboardRange(p))})
                    IN  /\ all = IF mode = "MONTH" THEN Total(ofWeek) ELSE Total(ofMonth)
                        /\ S = Rows => getPeriodTrend(mode, p.year, p.part).current = all
  BY DEF SeriesAddUp
<1> DEFINE range == DashboardRange(p)
           months == resolveMonthsInPeriod(mode, p.part)
           ofWeek == [w \in 1..5 |-> getWeeklySpendOverTime(S, range, w)]
           ofMonth == [m \in months |-> getMonthlySpendOverTime(S, range, m)]
           all == {e \in S : Between(e.created, range)}
<1>1. /\ p = Period(mode, p.year, p.part) /\ p.mode = mode
      /\ p.year \in Nat /\ p.part \in 1..PartsOf[mode]
  BY PeriodAsked
<1>2. S \subseteq Rows
  BY DEF TeamOf
<1>3. range = resolveReportPeriodRange(p)
  BY <1>1, SamePeriods
<1> HIDE DEF range
<1>4. all \in SUBSET Rows
  BY <1>2
<1>5. IsFiniteSet(all) /\ \A e \in all : e.amount \in Nat
  BY <1>4, RowsCanBeSplit
<1>6. \A e \in all : e.created \in CalendarDays /\ e.created \in Nat /\ e.created \in Dates
  BY <1>4, RowFields, FiguresAssumption DEF Dates
<1>7. ASSUME mode = "MONTH" PROVE Total(ofWeek) = Figure(all)
  <2> DEFINE key == [e \in all |-> WeekOf(e.created)]
             weeks == 1..5
  <2>1. \A e \in all : key[e] \in weeks
    BY <1>6, DayIsOfWeek
  <2>2. \A w \in weeks : ofWeek[w] = Figure(Part(all, key, w))
    <3> SUFFICES ASSUME NEW w \in weeks PROVE ofWeek[w] = Figure(Part(all, key, w))
      OBVIOUS
    <3>1. Part(all, key, w) = {e \in S : Between(e.created, range) /\ WeekOf(e.created) = w}
      BY DEF Part
    <3> QED
      BY <3>1 DEF getWeeklySpendOverTime
  <2>3. DOMAIN ofWeek = weeks
    OBVIOUS
  <2>4. weeks \in SUBSET Nat /\ \A w \in weeks : w <= 5
    OBVIOUS
  <2> HIDE DEF all, key, ofWeek, weeks, months, ofMonth
  <2>5. IsFiniteSet(weeks)
    BY <2>4, FS_BoundedSetOfNaturals
  <2> QED
    BY <1>5, <2>1, <2>2, <2>3, <2>5, FiguresSplit
<1>8. ASSUME mode # "MONTH" PROVE Total(ofMonth) = Figure(all)
  <2> DEFINE key == [e \in all |-> MonthInYear(e.created)]
  <2>1. months = MonthsOf(mode, p.part) /\ IsFiniteSet(months)
    BY <1>1, <1>8, MonthsAreFew DEF MonthsOf
  <2> HIDE DEF months
  <2>2. \A e \in all : key[e] \in months
    BY <1>1, <1>3, <1>6, <2>1, InPeriod
  <2>3. \A m \in months : ofMonth[m] = Figure(Part(all, key, m))
    <3> SUFFICES ASSUME NEW m \in months PROVE ofMonth[m] = Figure(Part(all, key, m))
      OBVIOUS
    <3>1. Part(all, key, m) = {e \in S : Between(e.created, range) /\ MonthInYear(e.created) = m}
      BY DEF Part
    <3> QED
      BY <3>1 DEF getMonthlySpendOverTime
  <2>4. DOMAIN ofMonth = months
    OBVIOUS
  <2> HIDE DEF all, key, ofMonth
  <2> QED
    BY <1>5, <2>1, <2>2, <2>3, <2>4, FiguresSplit
<1>9. ASSUME S = Rows PROVE getPeriodTrend(mode, p.year, p.part).current = Figure(all)
  <2>1. resolvePeriod(mode, p.year, p.part) = range
    BY <1>1 DEF DashboardRange, range
  <2> QED
    BY <1>9, <2>1 DEF getPeriodTrend, PersonalOf
<1> QED
  BY <1>7, <1>8, <1>9 DEF range

\* Sets of a few elements are finite.
LEMMA FewAreFinite ==
  ASSUME NEW a, NEW b, NEW c, NEW d PROVE IsFiniteSet({a, b, c, d}) /\ IsFiniteSet({a, b})
<1>1. IsFiniteSet({}) /\ IsFiniteSet({} \cup {a}) /\ IsFiniteSet(({} \cup {a}) \cup {b})
  BY FS_EmptySet, FS_AddElement
<1>2. IsFiniteSet({a, b})
  BY <1>1
<1>3. IsFiniteSet({a, b} \cup {c})
  BY <1>2, FS_AddElement
<1>4. IsFiniteSet(({a, b} \cup {c}) \cup {d})
  BY <1>3, FS_AddElement
<1>5. ({a, b} \cup {c}) \cup {d} = {a, b, c, d}
  OBVIOUS
<1> QED
  BY <1>2, <1>4, <1>5

\* What waits for payment agrees: an approved row has its day of approval, a reimbursed one
\* lies in the month of its day.
LEMMA PayoutsHold == ASSUME FigureInv PROVE PayoutsAgree
<1> DEFINE approved == {e \in Rows : e.status = "APPROVED"}
           waiting == Total([b \in AgingBuckets |-> getFinanceQueueSummary(b)])
<1>1. \A bucket \in AgingBuckets : getPendingPayoutSummary(bucket) = getFinanceQueueSummary(bucket)
  BY DEF getPendingPayoutSummary, getFinanceQueueSummary, bucketAgeDays, financeBucket
<1>2. waiting = Figure(approved)
  <2> DEFINE F == [b \in AgingBuckets |-> getFinanceQueueSummary(b)]
             S == approved
             key == [e \in S |-> financeBucket(ageInDays(e.approved, calendarDay))]
  <2>1. S \in SUBSET Rows /\ \A e \in S : e.approved # Never
    BY RowsAreFormed DEF HasDates
  <2>2. \A e \in S : key[e] \in AgingBuckets
    BY DEF financeBucket, AgingBuckets
  <2>3. ASSUME NEW b \in AgingBuckets PROVE F[b] = Figure(Part(S, key, b))
    <3>1. Part(S, key, b) = {e \in Rows : /\ e.status = "APPROVED" /\ e.approved # Never
                                          /\ financeBucket(ageInDays(e.approved, calendarDay)) = b}
      BY <2>1 DEF Part
    <3> QED
      BY <3>1 DEF getFinanceQueueSummary
  <2>4. DOMAIN F = AgingBuckets
    OBVIOUS
  <2>5. IsFiniteSet(AgingBuckets)
    BY FewAreFinite DEF AgingBuckets
  <2> HIDE DEF F, S, key
  <2>6. IsFiniteSet(S) /\ \A e \in S : e.amount \in Nat
    BY <2>1, RowsCanBeSplit
  <2>7. Total(F) = Figure(S)
    BY <2>2, <2>3, <2>4, <2>5, <2>6, FiguresSplit
  <2> QED
    BY <2>7 DEF F, S
<1>3. pendingReimbursement = waiting
  BY <1>2 DEF pendingReimbursement
<1>4. ASSUME NEW e \in getRecentlyReimbursedSummary
      PROVE  \E p \in PeriodsAsked("MONTH") : \A v \in Viewers :
               expenseListVisibility(v) = "all" => e \in getReimbursementSla(v, p)
  <2>1. e \in Rows /\ e.status = "REIMBURSED" /\ e.reimbursed # Never
    BY DEF getRecentlyReimbursedSummary
  <2>2. e.approved # Never /\ e.reimbursed \in CalendarDays /\ e.reimbursed \in Dates
    BY <2>1, RowsAreFormed, RowFields DEF HasDates, Dates
  <2> DEFINE day == e.reimbursed
             p == Period("MONTH", YearOf(day), PartOf("MONTH", day))
  <2>3. p \in PeriodsAsked("MONTH")
    BY <2>2 DEF PeriodsAsked
  <2>4. YearOf(day) \in Nat /\ MonthInYear(day) \in 1..12
    BY <2>2, FiguresAssumption, DayIsOfMonth
  <2>5. "MONTH" \in DOMAIN PartsOf /\ PartsOf["MONTH"] = 12 /\ PartOf("MONTH", day) = MonthInYear(day)
    BY DEF PartsOf, PartOf
  <2> HIDE DEF day
  <2>6. Between(day, resolveReportPeriodRange(p))
    BY <2>1, <2>2, <2>4, <2>5, InPeriod DEF day, MonthsOf
  <2>7. ASSUME NEW v \in Viewers, expenseListVisibility(v) = "all" PROVE e \in getReimbursementSla(v, p)
    <3>1. Visible(v, e)
      BY <2>7 DEF Visible, VisibilityOf
    <3> QED
      BY <2>1, <2>2, <2>6, <3>1 DEF getReimbursementSla, day
  <2> QED
    BY <2>3, <2>7
<1> HIDE DEF waiting
<1>5. ASSUME NEW S \in PayrollExports
      PROVE  IF waiting.count <= EXPORT_ROW_LIMIT THEN Figure(S) = waiting
             ELSE /\ Cardinality(S) = EXPORT_ROW_LIMIT
                  /\ \A e \in S, f \in Rows \ S :
                       f.status = "APPROVED" /\ AgeBucket(f) = "30_plus" => AgeBucket(e) = "30_plus"
  <2>1. waiting.count = Cardinality(approved)
    BY <1>2 DEF Figure
  <2>2. /\ S \in SUBSET approved
        /\ IF Cardinality(approved) <= EXPORT_ROW_LIMIT THEN S = approved
           ELSE Cardinality(S) = EXPORT_ROW_LIMIT
        /\ \A e \in S, f \in approved \ S : e.approved <= f.approved
    BY DEF PayrollExports
  <2>3. ASSUME NEW e \in S, NEW f \in Rows \ S, f.status = "APPROVED", AgeBucket(f) = "30_plus"
        PROVE  AgeBucket(e) = "30_plus"
    <3>1. e \in Rows /\ f \in approved \ S
      BY <2>2, <2>3
    <3>2. /\ e.approved \in Nat /\ f.approved \in Nat
          /\ calendarDay \in Nat /\ e.approved <= f.approved
      <4>1. \A g \in approved : g.approved \in CalendarDays
        BY RowsAreFormed, RowFields DEF HasDates, Dates
      <4>2. CalendarDays \subseteq Nat /\ calendarDay \in CalendarDays
        BY FiguresAssumption DEF FigureInv
      <4> QED
        BY <2>2, <3>1, <4>1, <4>2
    <3>3. ageInDays(f.approved, calendarDay) >= 31
      BY <2>3, <3>2 DEF AgeBucket, financeBucket, ageInDays
    <3>4. ageInDays(e.approved, calendarDay) >= 31 /\ ageInDays(e.approved, calendarDay) \in Nat
      BY <3>2, <3>3 DEF ageInDays
    <3> QED
      BY <3>4 DEF AgeBucket, financeBucket
  <2> QED
    BY <1>2, <2>1, <2>2, <2>3
<1> QED
  BY <1>1, <1>3, <1>4, <1>5 DEF PayoutsAgree, waiting

\* The library's sum of counters is a sum over the statuses.
Counted(viewer, listing, K) ==
  MapThenSumSet(LAMBDA s : getExpenseStatusCounts(viewer, listing, s), K)

LEMMA CountersAreSum ==
  ASSUME NEW viewer, NEW listing, NEW K
  PROVE  Counted(viewer, listing, K)
           = SumOf([s \in K |-> getExpenseStatusCounts(viewer, listing, s)], K)
<1> DEFINE CountOf(s) == getExpenseStatusCounts(viewer, listing, s)
           f == [s \in K |-> CountOf(s)]
           Term(g, s) == CountOf(CHOOSE x \in s : TRUE) + g[s \ {CHOOSE x \in s : TRUE}]
           Step(g, s) == IF s = {} THEN 0 ELSE Term(g, s)
<1>1. \A s : s \in SUBSET K /\ s # {} => CountOf(CHOOSE x \in s : TRUE) = f[CHOOSE x \in s : TRUE]
  OBVIOUS
<1>2. Counted(viewer, listing, K) = (CHOOSE g : g = [s \in SUBSET K |-> Step(g, s)])[K]
  BY DEF Counted, MapThenSumSet, MapThenFoldSet
<1> HIDE DEF CountOf, f
<1>3. \A g : [s \in SUBSET K |-> Step(g, s)] = [s \in SUBSET K |-> Partial(f, g, s)]
  BY <1>1 DEF Partial, Pick
<1>4. Sums(f, K) = CHOOSE g : g = [s \in SUBSET K |-> Step(g, s)]
  BY <1>3 DEF Sums
<1>5. Counted(viewer, listing, K) = SumOf(f, K)
  BY <1>2, <1>4, SumIsSums
<1> QED
  BY <1>5 DEF f, CountOf

\* The counters of some statuses count the rows of the list in one of them.
LEMMA CountersCount ==
  ASSUME FigureInv, NEW viewer, NEW listing, NEW K, IsFiniteSet(K)
  PROVE  Counted(viewer, listing, K)
           = Cardinality({e \in listExpenses(viewer, listing) : e.status \in K})
<1> DEFINE f == [s \in K |-> getExpenseStatusCounts(viewer, listing, s)]
           S == {e \in listExpenses(viewer, listing) : e.status \in K}
           key == [e \in S |-> e.status]
<1>1. listExpenses(viewer, listing) \subseteq Rows
  BY DEF listExpenses, excludeOthersDrafts
<1>2. S \in SUBSET Rows /\ \A e \in S : key[e] \in K
  BY <1>1
<1>3. ASSUME NEW s \in K PROVE f[s] = Cardinality(Part(S, key, s))
  <2>1. Part(S, key, s) = {e \in listExpenses(viewer, listing) : e.status = s}
    BY DEF Part
  <2> QED
    BY <2>1 DEF getExpenseStatusCounts
<1>4. Counted(viewer, listing, K) = SumOf(f, K)
  BY CountersAreSum
<1> HIDE DEF f, S, key
<1>5. IsFiniteSet(S)
  BY <1>2, RowsCanBeSplit
<1>6. SumOf(f, K) = Cardinality(S)
  BY <1>2, <1>3, <1>5, CountPartition
<1> QED
  BY <1>4, <1>6 DEF S

\* The permissions of staff let nobody approve for the whole organization.
LEMMA ManagerHasNoGlobalApproval ==
  ASSUME NEW unit PROVE ~hasGlobalApprovalPermission(ManagerOf(unit))
<1>1. \A p \in STAFF_PERMISSIONS : p.resource \notin {"approval", "all"}
  BY DEF STAFF_PERMISSIONS, Of, Notices, OwnDashboard
<1>2. ManagerOf(unit).role # "super_admin" /\ ManagerOf(unit).permissions = STAFF_PERMISSIONS
  BY DEF ManagerOf
<1>3. \A p \in STAFF_PERMISSIONS, action \in {"approve", "reject"} :
         ~permissionGrants(p, action, "approval", "global")
  BY <1>1 DEF permissionGrants
<1> QED
  BY <1>2, <1>3 DEF hasGlobalApprovalPermission, hasPermission

\* The counters agree with the lists, and the queue of a manager with its summary and with
\* the team dashboard.
LEMMA CountersHold == ASSUME FigureInv PROVE CountersAgree
<1>1. ASSUME NEW viewer \in Viewers, NEW listing \in {"personal", "all"}
      PROVE  LET list == listExpenses(viewer, listing)
             IN  /\ MapThenSumSet(LAMBDA s : getExpenseStatusCounts(viewer, listing, s), AllStatuses)
                      = Cardinality(list)
                 /\ needsAction(viewer, listing)
                      = Cardinality({e \in list : e.status \in NEEDS_ACTION_STATUSES})
  <2> DEFINE list == listExpenses(viewer, listing)
  <2>1. list \subseteq Rows
    BY DEF listExpenses, excludeOthersDrafts
  <2>2. \A e \in list : e.status \in AllStatuses
    BY <2>1, RowFields
  <2> HIDE DEF list
  <2>3. {e \in list : e.status \in AllStatuses} = list
    BY <2>2
  <2>4. IsFiniteSet(AllStatuses) /\ IsFiniteSet(NEEDS_ACTION_STATUSES)
    <3>1. IsFiniteSet(Spent) /\ IsFiniteSet({"DRAFT", "REJECTED"})
      BY FewAreFinite DEF Spent
    <3>2. IsFiniteSet(Spent \cup {"DRAFT"})
      BY <3>1, FS_AddElement
    <3>3. IsFiniteSet((Spent \cup {"DRAFT"}) \cup {"REJECTED"})
      BY <3>2, FS_AddElement
    <3>4. (Spent \cup {"DRAFT"}) \cup {"REJECTED"} = AllStatuses
      BY DEF AllStatuses
    <3> QED
      BY <3>1, <3>3, <3>4 DEF NEEDS_ACTION_STATUSES
  <2>5. Counted(viewer, listing, AllStatuses) = Cardinality({e \in list : e.status \in AllStatuses})
    BY <2>4, CountersCount DEF list
  <2>6. Counted(viewer, listing, NEEDS_ACTION_STATUSES)
          = Cardinality({e \in list : e.status \in NEEDS_ACTION_STATUSES})
    BY <2>4, CountersCount DEF list
  <2>7. MapThenSumSet(LAMBDA s : getExpenseStatusCounts(viewer, listing, s), AllStatuses)
          = Counted(viewer, listing, AllStatuses)
    BY DEF Counted
  <2>8. needsAction(viewer, listing) = Counted(viewer, listing, NEEDS_ACTION_STATUSES)
    BY DEF needsAction, Counted
  <2>9. MapThenSumSet(LAMBDA s : getExpenseStatusCounts(viewer, listing, s), AllStatuses)
          = Cardinality(list)
    BY <2>3, <2>5, <2>7
  <2>10. needsAction(viewer, listing) = Cardinality({e \in list : e.status \in NEEDS_ACTION_STATUSES})
    BY <2>6, <2>8
  <2> QED
    BY <2>9, <2>10 DEF list
<1>2. ASSUME NEW viewer \in Viewers, viewer.id = OwnerId, mayList(viewer, "personal")
      PROVE  needsAction(viewer, "personal")
               = getActionBucket("DRAFT").count + getActionBucket("REJECTED").count
  <2> DEFINE InStatus(s) == {e \in Rows : e.status = s}
  <2>1. listExpenses(viewer, "personal") = Rows
    BY <1>2 DEF listExpenses
  <2>2. needsAction(viewer, "personal") = Cardinality({e \in Rows : e.status \in NEEDS_ACTION_STATUSES})
    BY <1>1, <2>1
  <2>3. {e \in Rows : e.status \in NEEDS_ACTION_STATUSES} = InStatus("DRAFT") \cup InStatus("REJECTED")
    BY DEF NEEDS_ACTION_STATUSES
  <2>4. \A s : InStatus(s) \in SUBSET Rows /\ getActionBucket(s).count = Cardinality(InStatus(s))
    BY DEF getActionBucket, Figure
  <2>5. InStatus("DRAFT") \cap InStatus("REJECTED") = {}
    OBVIOUS
  <2> HIDE DEF InStatus
  <2>6. IsFiniteSet(InStatus("DRAFT")) /\ IsFiniteSet(InStatus("REJECTED"))
    BY <2>4, RowsCanBeSplit
  <2> DEFINE D == InStatus("DRAFT")
             R == InStatus("REJECTED")
  <2> HIDE DEF D, R
  <2>7. IsFiniteSet(D) /\ IsFiniteSet(R) /\ D \cap R = {}
    BY <2>5, <2>6 DEF D, R
  <2>8. Cardinality(D \cup R) = Cardinality(D) + Cardinality(R) - Cardinality(D \cap R)
    BY <2>7, FS_Union
  <2>9. Cardinality({}) = 0 /\ Cardinality(D) \in Nat /\ Cardinality(R) \in Nat
    BY <2>7, FS_EmptySet, FS_CardinalityType
  <2>10. Cardinality(D \cup R) = Cardinality(D) + Cardinality(R)
    <3>1. Cardinality(D \cap R) = 0
      BY <2>7, <2>9
    <3> DEFINE both == Cardinality(D \cup R)
               common == Cardinality(D \cap R)
               d == Cardinality(D)
               r == Cardinality(R)
    <3>2. both = d + r - common /\ common = 0 /\ d \in Nat /\ r \in Nat
      BY <2>8, <2>9, <3>1
    <3> HIDE DEF both, common, d, r
    <3>3. both = d + r
      BY <3>2
    <3> QED
      BY <3>3 DEF both, d, r
  <2>11. needsAction(viewer, "personal") = Cardinality(D \cup R)
    BY <2>2, <2>3 DEF D, R
  <2> QED
    BY <2>4, <2>10, <2>11 DEF D, R
<1>3. ASSUME NEW actable, NEW viewer
      PROVE  LET summary == getPendingApprovalSummary(viewer, actable)
             IN  /\ Figure(findForApprovalExpenses(viewer, actable, TRUE, FALSE)) = summary.awaiting
                 /\ Cardinality(findForApprovalExpenses(viewer, actable, TRUE, TRUE)) = summary.aging
  <2> DEFINE claims == getActionableExpenseIds(viewer, actable)
  <2>1. \A e \in claims : e \in Rows /\ e.status \in InApproval /\ OfManagedUnit(viewer, e)
    BY DEF getActionableExpenseIds
  <2> HIDE DEF claims
  <2>2. /\ findForApprovalExpenses(viewer, actable, TRUE, FALSE) = claims
        /\ findForApprovalExpenses(viewer, actable, TRUE, TRUE) = {e \in claims : IsAging(e)}
    BY <2>1 DEF findForApprovalExpenses, claims
  <2> QED
    BY <2>2 DEF getPendingApprovalSummary, claims
<1>4. ASSUME NEW unit \in FigureUnits, NEW actable
      PROVE  /\ findForApprovalExpenses(ManagerOf(unit), actable, FALSE, FALSE) = pendingApprovals(unit)
             /\ findForApprovalExpenses(ManagerOf(unit), actable, FALSE, TRUE) = agingApprovals(unit)
             /\ findForApprovalExpenses(ManagerOf(unit), actable, TRUE, FALSE)
                  \subseteq pendingApprovals(unit)
             /\ pendingApprovals(unit) \subseteq TeamOf(unit)
  <2> DEFINE mia == ManagerOf(unit)
  <2>1. mia.id # OwnerId /\ mia.managedDepartmentIds = {unit} /\ isManagerApprover(mia)
    BY DEF ManagerOf, OwnerId, isManagerApprover
  <2>2. ~hasGlobalApprovalPermission(mia) /\ unit # None
    BY ManagerHasNoGlobalApproval, FiguresAssumption
  <2> HIDE DEF mia
  <2>3. \A e : OfManagedUnit(mia, e) <=> unit \in {e.unit, ownersUnit}
    BY <2>1, <2>2 DEF OfManagedUnit
  <2>4. findForApprovalExpenses(mia, actable, FALSE, FALSE) = pendingApprovals(unit)
    BY <2>1, <2>3 DEF findForApprovalExpenses, pendingApprovals
  <2>5. findForApprovalExpenses(mia, actable, FALSE, TRUE) = agingApprovals(unit)
    BY <2>1, <2>3 DEF findForApprovalExpenses, agingApprovals, pendingApprovals, IsAging
  <2>6. findForApprovalExpenses(mia, actable, TRUE, FALSE) \subseteq pendingApprovals(unit)
    BY <2>1, <2>3 DEF findForApprovalExpenses, pendingApprovals
  <2>7. pendingApprovals(unit) \subseteq TeamOf(unit)
    BY DEF pendingApprovals, TeamOf, InApproval, Spent
  <2> QED
    BY <2>4, <2>5, <2>6, <2>7 DEF mia
<1> QED
  BY <1>1, <1>2, <1>3, <1>4 DEF CountersAgree

\* The cap agrees: the history that the policy adds up is that of the dashboard, row by row.
LEMMA CapsHold == ASSUME FigureInv PROVE CapsAgree
<1> DEFINE Cap(category) ==
             [id |-> "cap", severity |-> "BLOCK", ruleType |-> "CATEGORY_MONTHLY_CAP",
              config |-> [category |-> category, capKobo |-> CategoryCaps[category]]]
           Claim(kind, category) ==
             [id |-> None, amount |-> kind.amount, category |-> category,
              attachmentCount |-> 0, submittedAt |-> calendarDay]
           AsHistory(e) == [id |-> e.id, status |-> e.status, amount |-> e.amount,
                            category |-> e.category, submittedAt |-> e.submitted]
           history == {AsHistory(e) : e \in {r \in Rows : r.submitted # Never}}
<1> SUFFICES ASSUME NEW category \in ReachedCaps, NEW kind \in ClaimKinds, kind.category = category
             PROVE  Policies!Violations({Cap(category)}, "BLOCK", Claim(kind, category), history)
                      = {Cap(category)}
  BY DEF CapsAgree
<1> DEFINE cap == Cap(category)
           claim == Claim(kind, category)
           spend == loadMonthlySpendByCategory(category)
           limit == CategoryCaps[category]
<1>1. category \in DOMAIN CategoryCaps /\ limit \in Nat /\ kind.amount \in Nat \ {0} /\ spend >= limit
  BY FiguresAssumption DEF ReachedCaps, getPolicyWarnings
<1>2. Policies!MonthlyCategorySpendWithoutClaim(claim, history, category) = spend
  <2> DEFINE S == {e \in Rows :
                     /\ e.category = category /\ e.status \in Spent
                     /\ Between(e.submitted,
                                resolvePeriod("MONTH", YearOf(calendarDay), MonthInYear(calendarDay)))}
             H == {e \in history :
                     /\ e.id # claim.id /\ e.category = category
                     /\ e.status \in Policies!ActiveExpenseStatuses
                     /\ Policies!MonthOf(e.submittedAt) = Policies!MonthOf(claim.submittedAt)}
             h == [e \in S |-> AsHistory(e)]
             f == [e \in H |-> e.amount]
             g == [e \in S |-> e.amount]
  <2>1. calendarDay \in Nat /\ calendarDay \in CalendarDays
    BY FiguresAssumption DEF FigureInv
  <2>2. ASSUME NEW e \in Rows
        PROVE  e \in S <=> /\ e.submitted # Never /\ e.category = category /\ e.status \in Spent
                           /\ e.submitted \div 31 = calendarDay \div 31
    <3> DEFINE y == YearOf(calendarDay)
               m == MonthInYear(calendarDay)
               first == FirstDay(y, m)
    <3>1. e.submitted \in Nat
      BY RowNumbers
    <3>2. y \in Nat /\ m \in 1..12 /\ first <= calendarDay /\ calendarDay < first + 31
      BY <2>1, DayIsOfMonth
    <3>3. resolvePeriod("MONTH", y, m) = [start |-> first, end |-> first + 31]
      BY <3>2 DEF resolvePeriod, FirstDay
    <3>4. first = 31 * (12 * y + m - 1)
      BY <3>2 DEF FirstDay
    <3> HIDE DEF y, m, first
    <3>5. calendarDay \div 31 = 12 * y + m - 1
      BY <2>1, <3>2, <3>4
    <3>6. (first <= e.submitted /\ e.submitted < first + 31) <=> e.submitted \div 31 = 12 * y + m - 1
      BY <3>1, <3>2, <3>4
    <3>7. Between(e.submitted, resolvePeriod("MONTH", y, m))
            <=> e.submitted # Never /\ first <= e.submitted /\ e.submitted < first + 31
      BY <3>3 DEF Between
    <3> QED
      BY <3>5, <3>6, <3>7 DEF y, m
  <2>3. \A day \in Nat : Policies!MonthOf(day) = day \div 31
    BY DEF Policies!MonthOf, Policies!DayOf
  <2>4. Policies!ActiveExpenseStatuses = Spent
    BY DEF Policies!ActiveExpenseStatuses, Spent
  <2>5. \A e \in Rows : e.id # None /\ e.submitted \in Nat /\ e.amount \in Nat
    BY RowNumbers
  <2>6. H = {h[e] : e \in S}
    <3>1. \A e \in S : h[e] = AsHistory(e) /\ e \in Rows
      OBVIOUS
    <3>2. \A e \in Rows : e.submitted # Never =>
            (AsHistory(e) \in H <=> e \in S)
      BY <2>1, <2>2, <2>3, <2>4, <2>5
    <3>3. \A x \in H : \E e \in Rows : e.submitted # Never /\ x = AsHistory(e)
      OBVIOUS
    <3>4. \A e \in S : e.submitted # Never
      BY <2>2
    <3> HIDE DEF H, S, AsHistory, h
    <3> QED
      BY <3>1, <3>2, <3>3, <3>4
  <2>7. S \in SUBSET Rows
    OBVIOUS
  <2>8. \A x, y \in S : h[x] = h[y] => x = y
    BY <2>7, RowsAreFormed
  <2>9. \A x \in S : g[x] = f[h[x]] /\ g[x] \in Int
    <3> SUFFICES ASSUME NEW x \in S PROVE g[x] = f[h[x]] /\ g[x] \in Int
      OBVIOUS
    <3>1. h[x] \in H /\ h[x].amount = x.amount /\ g[x] = x.amount
      BY <2>6
    <3>2. x.amount \in Nat
      BY <2>5, <2>7
    <3> HIDE DEF H, S, g, h
    <3>3. f[h[x]] = h[x].amount
      BY <3>1
    <3> QED
      BY <3>1, <3>2, <3>3
  <2>10. Policies!AmountsOf(H) = SumOf(f, H) /\ Policies!AmountsOf(S) = SumOf(g, S)
    BY AmountsAreSum
  <2>11. /\ Policies!MonthlyCategorySpendWithoutClaim(claim, history, category) = Policies!AmountsOf(H)
         /\ spend = Policies!AmountsOf(S)
    BY DEF Policies!MonthlyCategorySpendWithoutClaim, loadMonthlySpendByCategory
  <2> HIDE DEF S, H, f, g, h
  <2>12. IsFiniteSet(S)
    BY <2>7, RowsCanBeSplit
  <2>13. SumOf(f, {h[x] : x \in S}) = SumOf(g, S)
    BY <2>8, <2>9, <2>12, SumImage
  <2> QED
    BY <2>6, <2>10, <2>11, <2>13
<1> HIDE DEF spend, history
<1>3. Policies!MonthlyCategorySpend(claim, history, category) > limit
  <2>1. Policies!MonthlyCategorySpend(claim, history, category) = spend + kind.amount
    BY <1>2 DEF Policies!MonthlyCategorySpend
  <2>2. spend \in Nat
    <3> DEFINE S == {e \in Rows :
                       /\ e.category = category /\ e.status \in Spent
                       /\ Between(e.submitted,
                                  resolvePeriod("MONTH", YearOf(calendarDay), MonthInYear(calendarDay)))}
               g == [e \in S |-> e.amount]
    <3>1. S \in SUBSET Rows /\ spend = Policies!AmountsOf(S)
      BY DEF spend, loadMonthlySpendByCategory
    <3>2. IsFiniteSet(S) /\ \A e \in S : e.amount \in Nat
      BY <3>1, RowsCanBeSplit
    <3>3. \A e \in S : g[e] \in Nat
      BY <3>2
    <3>4. Policies!AmountsOf(S) = SumOf(g, S)
      BY AmountsAreSum
    <3> HIDE DEF S, g
    <3>5. SumOf(g, S) \in Nat
      BY <3>2, <3>3, SumType
    <3> QED
      BY <3>1, <3>4, <3>5
  <2> QED
    BY <1>1, <2>1, <2>2
<1> DEFINE one == Policies!Condition("category", "eq", category)
           two == Policies!ConditionOn("monthly_category_spend", "gt", limit, category)
           config == Policies!AsConditional(cap)
<1>4. config = [match |-> "all", conditions |-> {one, two}]
  BY DEF Policies!AsConditional
<1>5. Policies!ConditionHolds(one, claim, history)
  BY DEF Policies!ConditionHolds, Policies!ConditionAppliesToExpense, Policies!Condition,
         Policies!Compare, Policies!FieldValue
<1>6. Policies!ConditionHolds(two, claim, history)
  <2>1. /\ two.field = "monthly_category_spend" /\ two.operator = "gt" /\ two.value = limit
        /\ two.params[1] = category /\ claim.category = category
    BY DEF Policies!ConditionOn
  <2> HIDE DEF two, claim, limit
  <2>2. Policies!FieldValue(two, claim, history) = Policies!MonthlyCategorySpend(claim, history, category)
    BY <2>1 DEF Policies!FieldValue
  <2> QED
    BY <1>3, <2>1, <2>2 DEF Policies!ConditionHolds, Policies!ConditionAppliesToExpense, Policies!Compare
<1>7. Policies!EvaluatePolicy(cap, claim, history)
  <2>1. cap.severity = "BLOCK"
    OBVIOUS
  <2> HIDE DEF cap, claim, one, two
  <2>2. Policies!IsViolated(config, claim, history)
    BY <1>4, <1>5, <1>6 DEF Policies!IsViolated
  <2> QED
    BY <2>1, <2>2 DEF Policies!EvaluatePolicy
<1>8. cap.severity = "BLOCK"
  OBVIOUS
<1> HIDE DEF cap, claim
<1> QED
  BY <1>7, <1>8 DEF Policies!Violations, cap, claim

(* Whatever the rows are, the reports add up, what waits for payment is the same for
   everyone who pays or is paid, with room for all of it or not in the export, the
   counters count the lists, and the dashboard's caps are the policies'
   (ReportService, DashboardService, ExpenseQueryService). *)
THEOREM FiguresStayTrue == FiguresSpec => [](FiguresAgree /\ FiguresAskedAgree)
<1>1. InitFigures => FigureInv
  BY FiguresInit
<1>2. FigureInv /\ [StepFigures]_figureVars => FigureInv'
  BY FiguresStep
<1>3. FigureInv => FiguresAgree /\ FiguresAskedAgree
  BY ReportsHold, DepartmentsHold, SeriesHold, PayoutsHold, CountersHold, CapsHold
     DEF FiguresAgree, FiguresAskedAgree
<1> QED
  BY <1>1, <1>2, <1>3, PTL DEF FiguresSpec
=============================================================================
