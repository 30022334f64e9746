---------------------------- MODULE Notifications ----------------------------
(***************************************************************************)
(* The way from a domain event to its notices: a listener walks through    *)
(* the recipients, NotificationDispatchService looks at their preferences  *)
(* and saves a row; an e-mail is also queued as a job, which the e-mail    *)
(* processor hands to the mail service, recording the outcome in the row.  *)
(* PostgreSQL, Redis, the workers and the mail service fail independently, *)
(* and listeners swallow what they cannot do.                              *)
(***************************************************************************)
EXTENDS Naturals, FiniteSets

CONSTANTS Told,           \* pairs of an event and a channel, handled in a behaviour
          PreferenceSets,        \* sets of channels a user may enable
          MaxAttempts,    \* EMAIL_QUEUE_MAX_ATTEMPTS
          MaxFaults       \* bound: failures of a database, queue, worker or mail service

ASSUME NoticeBoundsAssumption == MaxAttempts \in Nat \ {0} /\ MaxFaults \in Nat

VARIABLES staff,          \* who manages the department and who works in finance
          configured,     \* NOTIFICATION_SERVICE_URL is set
          preference,     \* per user: channels enabled
          hasRow,         \* users with a row of notification_preferences
          listener,       \* per pair: whom the listener has left, and what it is doing
          notice,         \* per pair and user: status of the notification row
          mailJob,        \* per pair and user: the job, the attempts made and its stalls
          accepted,       \* per pair and user: times the mail service took the mail
          lost,           \* history: rows whose job or outcome was never written
          declined,       \* history: notices a user's preferences held back
          cutShort,       \* history: listeners that gave up recipients
          faults
noticeVars == <<staff, configured, preference, hasRow, listener, notice, mailJob, accepted, lost,
               declined, cutShort, faults>>

Addressees == {"submitter", "other"}
Channels == {"email", "inApp"}
NoticeKeys == Told \X Addressees

(* Whom the listeners tell.  Approvers are read when the event is handled.
   The submitter is not asked to act on the own expense, except by the mail to
   the finance queue.  staff.finance stands for the holders of the permission
   an event asks for, and a reminder of an expense that is under review is
   expense.escalated_finance. *)
ApprovalMail(e) ==
  CASE e \in {"expense.submitted", "expense.escalated"} -> staff.manager \ {"submitter"}
    [] e = "expense.escalated_finance" -> staff.finance \ {"submitter"}
    [] e = "expense.pending_finance"   -> staff.finance
    [] OTHER -> {}
DecisionMail(e) ==
  IF e \in {"expense.approved", "expense.rejected", "expense.reimbursed"} THEN {"submitter"} ELSE {}
BudgetMail(e) == IF e = "budget.overspend" THEN staff.finance ELSE {}
AuthMail(e) ==
  IF e \in {"auth.email-verification", "auth.password-reset"} THEN {"submitter"} ELSE {}

ExpenseInApp(e) ==
  CASE e = "expense.pending_finance" -> {"submitter"} \cup staff.finance
    [] e \in {"expense.approved", "expense.rejected", "expense.reimbursed",
              "budget.threshold_crossed"} -> {"submitter"}
    [] OTHER -> {}
ApproverInApp(e) == IF e = "expense.submitted" THEN {"submitter"} \cup staff.manager ELSE {}
ManagerChangeInApp(e) == IF e = "department.manager_changed" THEN Addressees ELSE {}
TransferInApp(e) == IF e = "user.department_changed" THEN {"submitter"} ELSE {}
SuspensionInApp(e) == IF e = "user.suspended" THEN staff.finance \ {"submitter"} ELSE {}

(* NotificationDomainEventRegistrar: the handlers registered for an event. *)
Recipients(run) ==
  LET e == run[1]
  IN  IF run[2] = "email" THEN ApprovalMail(e) \cup DecisionMail(e) \cup BudgetMail(e) \cup AuthMail(e)
      ELSE ExpenseInApp(e) \cup ApproverInApp(e) \cup ManagerChangeInApp(e)
             \cup TransferInApp(e) \cup SuspensionInApp(e)

(* ESSENTIAL_AUTH_EMAIL_TYPES are mailed whatever the user prefers. *)
Essential(run) == run[2] = "email" /\ run[1] \in {"auth.email-verification", "auth.password-reset"}

NoJob == [state |-> "none", attempts |-> 0, stalls |-> 0]
MaxStalls == 1            \* maxStalledCount of the queue, left at its default

InitNotifications ==
  /\ staff \in [manager : SUBSET Addressees, finance : SUBSET Addressees]
  /\ Cardinality(staff.manager) <= 1 /\ configured \in BOOLEAN
  /\ hasRow \in SUBSET Addressees
  /\ preference \in [Addressees -> PreferenceSets \cup {Channels}]
  /\ \A u \in Addressees \ hasRow : preference[u] = Channels
  /\ listener = [r \in Told |-> [pc |-> "new", left |-> {}, user |-> "nobody"]]
  /\ notice = [n \in NoticeKeys |-> "none"]
  /\ mailJob = [n \in NoticeKeys |-> NoJob]
  /\ accepted = [n \in NoticeKeys |-> 0]
  /\ lost = {} /\ declined = {} /\ cutShort = {} /\ faults = 0

Fault == faults < MaxFaults /\ faults' = faults + 1
ListenerAt(r, pc) == listener' = [listener EXCEPT ![r].pc = pc]
JobsSame == UNCHANGED <<mailJob, accepted>>
PreferencesSame == UNCHANGED <<preference, hasRow>>

-----------------------------------------------------------------------------
(* The listener of an event reads its recipients and turns to one after another. *)
BeginListener(r) ==
  /\ listener[r].pc = "new"
  /\ listener' = [listener EXCEPT ![r] = [pc |-> "next", left |-> Recipients(r), user |-> "nobody"]]
  /\ UNCHANGED <<staff, configured, notice, lost, declined, cutShort, faults>> /\ JobsSame /\ PreferencesSame

(* scheduleEmail and dispatchInApp: essential mails skip the preferences. *)
NextRecipient(r) ==
  /\ listener[r].pc = "next"
  /\ \E u \in listener[r].left :
       listener' = [listener EXCEPT ![r] =
                      [pc |-> IF Essential(r) THEN "save" ELSE "prefer", left |-> @.left \ {u}, user |-> u]]
  /\ UNCHANGED <<staff, configured, notice, lost, declined, cutShort, faults>> /\ JobsSame /\ PreferencesSame

(* getPreferences finds the row, or inserts one with everything enabled. *)
WithoutRowOff(u) == "next"
WithoutRow(u) == "insert"
Declines(r, u) == u \in hasRow /\ r[2] \notin preference[u]

ReadPreference(r) ==
  LET u == listener[r].user IN
  /\ listener[r].pc = "prefer"
  /\ ListenerAt(r, IF Declines(r, u) THEN "next" ELSE IF u \in hasRow THEN "save" ELSE WithoutRow(u))
  /\ declined' = IF Declines(r, u) THEN declined \cup {<<r, u>>} ELSE declined
  /\ UNCHANGED <<staff, configured, notice, lost, cutShort, faults>> /\ JobsSame /\ PreferencesSame

InsertPreference(r) ==
  LET u == listener[r].user IN
  /\ listener[r].pc = "insert" /\ u \notin hasRow
  /\ hasRow' = hasRow \cup {u}
  /\ ListenerAt(r, "save")
  /\ UNCHANGED <<staff, configured, preference, notice, lost, declined, cutShort, faults>> /\ JobsSame

(* updatePreferences, by the user, at any time. *)
UpdatePreferences(u, channels) ==
  /\ preference[u] # channels
  /\ preference' = [preference EXCEPT ![u] = channels]
  /\ hasRow' = hasRow \cup {u}
  /\ UNCHANGED <<staff, configured, listener, notice, lost, declined, cutShort, faults>> /\ JobsSame

AfterNoticeUnqueued(r) == "next"
AfterNotice(r) == IF r[2] = "email" THEN "queue" ELSE "next"

SaveNotice(r) ==
  /\ listener[r].pc = "save"
  /\ notice' = [notice EXCEPT ![<<r, listener[r].user>>] = IF r[2] = "email" THEN "pending" ELSE "sent"]
  /\ ListenerAt(r, AfterNotice(r))
  /\ UNCHANGED <<staff, configured, lost, declined, cutShort, faults>> /\ JobsSame /\ PreferencesSame

QueueMail(r) ==
  /\ listener[r].pc = "queue"
  /\ mailJob' = [mailJob EXCEPT ![<<r, listener[r].user>>] =
                               [state |-> "waiting", attempts |-> 0, stalls |-> 0]]
  /\ ListenerAt(r, "next")
  /\ UNCHANGED <<staff, configured, accepted, notice, lost, declined, cutShort, faults>> /\ PreferencesSame

(* What a failing call costs: in the application the submitter's own notice is
   guarded apart, everything else gives up the recipients that are left. *)
GivenUp(r) == IF r[2] = "inApp" /\ listener[r].user = "submitter" THEN {} ELSE listener[r].left
ListenerFails(r) ==
  /\ \/ listener[r].pc \in {"prefer", "insert", "save", "queue"} /\ Fault
     \/ listener[r].pc = "insert" /\ listener[r].user \in hasRow /\ UNCHANGED faults  \* unique violation
  /\ cutShort' = cutShort \cup {r}
  /\ lost' = IF listener[r].pc = "queue" THEN lost \cup {<<r, listener[r].user>>} ELSE lost
  /\ listener' = [listener EXCEPT ![r].pc = "next", ![r].left = @ \ GivenUp(r)]
  /\ UNCHANGED <<staff, configured, notice, declined>> /\ JobsSame /\ PreferencesSame

-----------------------------------------------------------------------------
(* EmailNotificationProcessor. *)
JobAt(n, state) == mailJob' = [mailJob EXCEPT ![n].state = state]
MailSame == UNCHANGED <<staff, configured, listener, declined, cutShort>> /\ PreferencesSame

TakeMail(n) ==
  /\ mailJob[n].state = "waiting"
  /\ mailJob' = [mailJob EXCEPT ![n].state = "sending", ![n].attempts = @ + 1]
  /\ UNCHANGED <<accepted, notice, lost, faults>> /\ MailSame

MailAccepted(n) ==
  /\ mailJob[n].state = "sending" /\ configured
  /\ accepted' = [accepted EXCEPT ![n] = @ + 1]
  /\ JobAt(n, "marking")
  /\ UNCHANGED <<notice, lost, faults>> /\ MailSame

(* Without the address of a mail service sendEmail does nothing, and succeeds. *)
MailSkipped(n) ==
  /\ mailJob[n].state = "sending" /\ ~configured
  /\ JobAt(n, "marking")
  /\ UNCHANGED <<accepted, notice, lost, faults>> /\ MailSame

(* A failed attempt is tried again until the attempts are used up. *)
Retry(n) == IF mailJob[n].attempts < MaxAttempts THEN "waiting" ELSE "failed"

(* The mail service refuses the mail, or takes it and answers too late; or the
   row cannot be marked. *)
AttemptFails(n) ==
  /\ Fault
  /\ \/ mailJob[n].state = "sending" /\ configured /\ \E k \in {0, 1} : accepted' = [accepted EXCEPT ![n] = @ + k]
     \/ mailJob[n].state = "marking" /\ UNCHANGED accepted
  /\ JobAt(n, Retry(n))
  /\ UNCHANGED <<notice, lost>> /\ MailSame

(* The worker stops; the queue hands its job to another one, without counting the
   attempt.  A job that stalls again it fails: it may count that attempt. *)
Stalled(j, counted) ==
  [state    |-> IF j.stalls < MaxStalls THEN "waiting" ELSE "failed",
   attempts |-> j.attempts - 1 + counted,
   stalls   |-> j.stalls + 1]
WorkerStops(n) ==
  /\ mailJob[n].state \in {"sending", "marking"} /\ Fault
  /\ \E counted \in {0, 1} : /\ counted = 1 => mailJob[n].stalls >= MaxStalls
                           /\ mailJob' = [mailJob EXCEPT ![n] = Stalled(@, counted)]
  /\ UNCHANGED <<accepted, notice, lost>> /\ MailSame

MarkSent(n) ==
  /\ mailJob[n].state = "marking"
  /\ notice' = [notice EXCEPT ![n] = "sent"]
  /\ JobAt(n, "gone")
  /\ UNCHANGED <<accepted, lost, faults>> /\ MailSame

(* onFailed: while attempts are left it returns early, also for a job that the
   queue will not try again; the write is not awaited. *)
ReturnsEarlyNever(n) == FALSE
ReturnsEarly(n) == mailJob[n].attempts < MaxAttempts
OnFailed(n) ==
  /\ mailJob[n].state = "failed"
  /\ JobAt(n, "gone")
  /\ \/ ReturnsEarly(n) /\ UNCHANGED <<notice, lost, faults>>
     \/ ~ReturnsEarly(n) /\ notice' = [notice EXCEPT ![n] = "failed"] /\ UNCHANGED <<lost, faults>>
     \/ ~ReturnsEarly(n) /\ Fault /\ lost' = lost \cup {n} /\ UNCHANGED notice
  /\ UNCHANGED accepted /\ MailSame

StepNotifications ==
  \/ \E r \in Told : \/ BeginListener(r) \/ NextRecipient(r) \/ ReadPreference(r)
                     \/ InsertPreference(r) \/ SaveNotice(r) \/ QueueMail(r) \/ ListenerFails(r)
  \/ \E u \in Addressees, c \in PreferenceSets : UpdatePreferences(u, c)
  \/ \E n \in NoticeKeys : \/ TakeMail(n) \/ MailAccepted(n) \/ MailSkipped(n)
                        \/ AttemptFails(n) \/ WorkerStops(n) \/ MarkSent(n) \/ OnFailed(n)

NoticeSpec == InitNotifications /\ [][StepNotifications]_noticeVars

-----------------------------------------------------------------------------
(* A row that says PENDING has its job on the way, is about to get one, lost its
   job or its outcome to a failure, or had a job that the queue gave up with
   attempts left, because it stalled twice: nothing else leaves a row behind. *)
GivenUpStalled(j) == j.state = "gone" /\ j.stalls > MaxStalls /\ j.attempts < MaxAttempts
PendingIsUnderWay ==
  \A n \in NoticeKeys : notice[n] = "pending" =>
    \/ mailJob[n].state \in {"waiting", "sending", "marking", "failed"}
    \/ listener[n[1]].pc = "queue" /\ listener[n[1]].user = n[2]
    \/ n \in lost \/ GivenUpStalled(mailJob[n])

(* A row says SENT only of a mail the service took, and when no service is
   configured of mails nobody took; a mail goes out twice only after a failure;
   and a row says FAILED only after a failure, of a job whose attempts were used up. *)
OutcomeIsTrue ==
  \A n \in NoticeKeys :
    /\ notice[n] = "sent" /\ n[1][2] = "email" => (accepted[n] > 0 <=> configured)
    /\ accepted[n] > 1 \/ notice[n] = "failed" => faults > 0
    /\ notice[n] = "failed" => mailJob[n].attempts = MaxAttempts

(* A listener that ran to its end told everyone who had not turned the channel
   off, unless a call failed or two of them created the same preferences row. *)
Finished(r) == listener[r].pc = "next" /\ listener[r].left = {}
EveryoneTold ==
  \A r \in Told : Finished(r) /\ r \notin cutShort =>
    \A u \in Recipients(r) : notice[<<r, u>>] # "none" \/ <<r, u>> \in declined
=============================================================================
