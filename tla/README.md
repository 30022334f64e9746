# A TLA+ model of Expentra

Expentra is an expense and approval back end (NestJS, TypeORM on PostgreSQL,
BullMQ on Redis). Employees draft and submit expenses; a chain of approval
levels decides them; a department budget row is charged, released and paid along
the way; every status change appends an event to a transactional outbox from
which a worker runs listeners (audit, notifications, alerts, escalation).

This directory holds TLA+ modules that model the program, the TLC
configurations that check them on small instances, and theorems about them that
TLAPS proves for every value of the constants. Paths below are relative to the
repository root, `src/` being its TypeScript tree.

    cd tla
    tlc -workers 2 -config MCExpense_ledger.cfg MCExpense     # any run
    tlapm ExpenseProofs.tla                                   # any proof module

## 1. Inventory

The components, their state, their operations, what they share, what is hard
about them and what makes them correct. The last column says how far they are
modelled.

| component | state | operations | modelled |
|---|---|---|---|
| Expense lifecycle (`modules/expense/services`) | `expenses` rows: status, amount, owner, submitted_at | create, update, remove, submit, reopen, reimburse | mostly |
| Approval routing (`approval-routing.service.ts`) | none; derived from levels, owner and decisions | required levels, active stage, next status | yes; of the level cache, the use the queue makes of it |
| Approval decisions (`approval.service.ts`) | `expense_approvals` rows | approve, reject, heal, their bulk forms | yes |
| Approval levels (`approval-level.service.ts`) | `approval_levels` rows | create, update, remove | yes |
| Departments and managers | manager, active flag, manager history | assign, clear, deactivate, create, remove | yes |
| Budget ledger (`modules/budget`) | `department_budgets` rows | charge, release, pay, create, update, recount | all but the recount |
| Budget alerts | one dispatch row for each threshold | check after a commitment | yes |
| Transactional outbox (`core/outbox`) | `outbox_events` rows, BullMQ jobs, Redis keys | append, claim, relay, execute, retry, reclaim | yes |
| Event handlers | what they write | audit, notify, alert, schedule | all but the audit listener |
| Notification dispatch | notification rows, preferences, e-mail jobs | dispatch, deliver, retry, mark | yes; the inbox is not |
| Delegation, approval queue | `approval_delegations` rows | create, revoke; act for another; list what can be decided | yes |
| Escalation | one delayed job per expense | schedule, remind | yes |
| Users and transfers | department, activity, role of a user | transfer, suspend, activate, role, profile | mostly |
| HTTP idempotency (`core/idempotency`) | record and lock in Redis | look up, lock, run, save, release, wait | yes |
| Sessions, auth context cache | refresh tokens, codes, cached context | log in, SSO, rotate, log out, verify, reset, change password, fill, invalidate | yes |
| Rate limiter | sorted sets in Redis | evaluate a window | yes |
| Authorization | none; the permission catalogue and templates | match, guard routes, derive capabilities, own and departmental access | yes |
| Roles | `roles`, `role_permissions` rows | create, set permissions, rename, assign, remove | yes |
| Policy engine | `expense_policies` rows, a 30 s cache per process | create, change, delete; evaluate | all but the catalogue of the editor |
| Reports, dashboard, expense lists | none; queries | totals, series, counters, queues, caps | mostly |
| Comments, receipts, exports, health, metrics | rows, files | maintenance | no: nothing interleaves |

### How the components interact

* A handler that changes an expense runs **one database transaction holding the
  expense row `FOR UPDATE`**; inside it it computes the chain, writes decisions,
  locks and updates the budget row and appends the outbox row. These commit or
  roll back together, at READ COMMITTED.
* **Checks made before a transaction** are the exceptions: `submit` reads the
  draft and evaluates the policies first, and the removal of a department manager
  counts pending approvals first.
* **Administrators run beside it** without those locks: they edit levels,
  managers, departments and budgets while expenses are half-way through a chain.
* **The outbox worker runs afterwards**, in another process, from committed rows.
  It shares with the request side nothing but the rows.
* **Redis is shared without transactions**: sessions, codes, cached contexts, rate
  windows and jobs are read and written command by command, by any process.
* **Services that keep no transaction** (roles, users, departments, policies,
  notifications, alerts) read, check and save in separate statements; unique keys
  and a few conditional writes decide between requests that overlap.

### What is hard

Two submissions charging one budget; levels edited between two stages; the
status chosen on submission against the status a stage wants; the second round
of a rejected expense; retries, racing relays, exhausted jobs and crashes in the
outbox; a budget created or updated beside the transactions; a session issued while
the sessions of the old password are revoked; a context cached after its invalidation;
a job replaced while it fires; a row saved before its job is queued; two
administrators on one role or department; a policy tested against what is no longer
there; the same figure computed by three services. `PROJECT.json` lists
every such hazard with its line under `hazards`, each with the properties that
would catch it or the reason why none does yet.

### What makes each component correct

* lifecycle and budget: the incremental amounts equal a recount; the limit
  holds; a paid expense never changes; the event appended last is that of the
  status;
* routing and decisions: an expense is approved only through the whole chain it
  then requires, stage after stage; decisions of one round never leak into the
  next; a pending expense can always be decided;
* levels: the chain is a total order, and decisions refer to existing levels;
* budget row: transactions on it behave like indivisible ledger entries;
* outbox: no event is processed with a handler that neither took effect nor was
  abandoned; a single-write handler never takes effect twice; every appended
  event is processed in the end;
* HTTP idempotency: a request repeated after a success was told is answered from
  its record; handlers of one request do not overlap; everyone is answered;
* accounts: a session goes back to the current password, a cached context to the
  current account, and a code replaces the one before it, but for named races;
* notices, alerts and reminders: what a row says of a mail is true and nothing else
  than a failure leaves it pending; everyone is told; a threshold is announced once and not
  forgotten; a pending expense is reminded of after its last submission;
* authorization: nobody gives away more than they hold; the same user never submits and
  decides; what is shown is what is allowed; the approval queue is what can be decided;
* policies: caps and duplicate windows hold over all that was submitted while they
  had been in force long enough for every cache to know;
* rate limiter: no window admits requests at more instants than its limit;
* departments: the manager works there and is the one on record, and does not go while
  expenses wait;
* figures: what three services compute apart agrees.

## 2. Modules

| module | what it is |
|---|---|
| `ApprovalRouting` | the chain as operators: required levels, first, last and active stage, next status |
| `ExpenseLifecycle` | expenses, decisions, levels, managers and budget amounts; one action per handler |
| `ExpenseProperties` | its safety and action properties, and the statements the runs refute |
| `MCExpense` | values for TLC |
| `ExpenseProofs` | type correctness, the other invariants and the action properties |
| `BudgetLedger` | abstract: a ledger of indivisible entries, which `BudgetRow` and, for each department and year, `ExpenseLifecycle` implement |
| `BudgetRow`, `BudgetProperties` | the budget row statement by statement; what its locking guarantees |
| `MCBudget`, `BudgetProofs` | values for TLC; the proof of the refinement and of the row |
| `EventDelivery` | abstract: what the outbox promises |
| `Outbox` | rows, relays, jobs, handler keys, faults and crashes; refinement and liveness |
| `MCOutbox`, `OutboxProofs` | values for TLC; the refinement proof |
| `WriteOnce` | abstract: a register that is written once |
| `IdempotentRequests` | the idempotency interceptor for the deliveries of one request, with its properties |
| `MCRequests`, `RequestProofs` | values for TLC; the inductive invariants of `IdempotentRequests`, `RateLimiter` and `PolicyEngine`, and their consequences |
| `Accounts` | one account: sessions, one-time codes, cached context and the requests that change them |
| `Notifications`, `BudgetAlerts`, `Escalation` | what the handlers of events write: notices and mails, alerts, reminders |
| `AccessRules`, `AccessRoutes` | permissions, access policies and templates; routes, guards and capabilities, as operators |
| `RoleAdministration` | a role under several administrators, over those rules |
| `Delegation` | delegations, and the two paths that ask who may decide, one of them through the level cache |
| `PolicyRules`, `PolicyEngine` | policy rules as operators; submissions, policies that change, and the cache between them |
| `RateLimiter` | the sliding window and the guard |
| `Staffing` | who works in and who manages a department |
| `Figures` | what reports, dashboards and lists compute from the same rows |
| `MCServices` | values for TLC, and the composition of these services in one run |
| `AccountProofs`, `ServiceProofs` | inductive invariants and theorems of `Accounts`; of `BudgetAlerts`, `Escalation`, `Notifications`, `Figures` |
| `DirectoryProofs` | the same of `RoleAdministration`, `Delegation` and `Staffing` |
| `SumTheorems` | lemmas on sums and counts over finite sets, which the other proofs cite |

### ExpenseLifecycle: state and actions

One variable per column the handlers read or write: `status`, `owner`, `amount`,
`submittedAt` (an instant, 0 for NULL), `decisions` (the `expense_approvals` rows,
one per level), `levels`, `managerOf`, `deptActive`, `committed` and `reimbursed`
per department and year. `announced` and `submitKeys` are what the outbox received:
the last status event of an expense, and the idempotency keys made from a
submission instant. `requests` and `clearing` are what a handler remembers between
its checks and its transaction. `toldApproved` records an error message.

* `Create`, `UpdateDraft`, `Remove`: `expense-draft.service.ts`.
* `SubmitCheck` then `SubmitCommit` or `SubmitRollback`: `expense-submit.service.ts`.
  The instant is chosen with the checks; any number of other steps may come before
  the transaction, which checks the status again on the locked row and everything
  else it checks, and rolls back when an outbox key exists already.
* `Approve`, `Reject`, `HealWithNoApprovalChain`: `approval.service.ts`. A decision
  needs an active stage, the status that stage wants and someone who may act.
* `Reopen`: `submittedAt` stays, because TypeORM's `save` skips undefined
  properties.
* `Reimburse`; `CreateLevel`, `UpdateLevel`, `RemoveLevel`; `AssignManager`,
  `ClearManagerCheck`, `ClearManagerCommit`, `SetDepartmentActive`.

`SyncBudget` is part of every action whose handler calls
`syncCommittedAmountForExpenseTransition`. `ApprovalRouting` replaces the sorted
array of the service by an order relation on the set of required levels.

Abstractions. An amount that a BLOCK policy objects to is one outside
`CompliantAmounts`. Which user acts is reduced to whether someone may: a delegate
acts for the manager, a holder of the global permission always exists. The
acknowledgement of an over-budget approval is an input an approver can always
give, so it removes no behaviour. Users keep their department. Bulk operations
run one such transaction per expense, hence add no step.

### BudgetRow: state and actions

One row (`row`, as committed), its lock (`rowLock`), and for each expense how far
its transaction is (`at`) and what it does (`op`): `Begin` (the expense row is
locked), `LockRow` (`lockDepartmentBudgetRow`, and for a submission the evaluation),
`WriteRow` (the UPDATE), `Commit`, and `Rollback` from anywhere. A row that does not
exist or is inactive is neither locked nor written. `CreateBudget` inserts with
amount 0. An update is three steps, since `save` reads the row again and writes
only the columns in which the entity differs: `ReadBudget`, `LoadForSave`,
`WriteBudget`. "charged" stands for pending or approved.

The module justifies the grain of `ExpenseLifecycle`, in which a transaction and
its budget entry are one step: `BudgetRow` implements `BudgetLedger` under the
refinement mapping that reads the committed row (no row is `NoBudget`, amount 0).
It needs an assumption about administrators (`EditsOnlyWhenQuiet`, no
deactivation); the run `overspend` drops it and shows why. The other side is
`DepartmentLedger(key)`, one instance of the same ledger for each department and year:
`ExpenseLifecycle` implements all of them at once (`BudgetsAreLedgers`). There an expense is
"charged" in the book of its department and of the year of its instant, "paid" once
reimbursed, and "open" everywhere else; the amount of a draft changes while it is
in no book (`Reprice`). Its limits are constants, so `SetLimit` never happens there.

### Outbox: state and actions

`appended`, `dispatched` and `processed` are the rows and their timestamps; `batch`
and `step` are a relay job's position between `getState`, `remove` and `add`; `job`,
`attempts`, `stalled` and `notices` are BullMQ's; `run` is `runOnce` of each handler
in the active execution; `keys` are the Redis keys; `effects` counts what handlers
did. `abandoned` is a history variable: handlers whose key a crash or a failing
Redis call left behind. A database statement, a Redis command and a queue command
is one step. `Crash` takes down any set of the relay jobs, domain-event jobs and
`onFailed` callbacks at once; BullMQ gives a stalled job back once and fails it the
second time.

`EventDelivery` states the promise over `appended`, `processed`, `effects` and
`abandoned` alone: `Finish` needs every handler to have taken effect or to have been
abandoned, and `Handle` lets a single-write handler take effect once. The mapping is
the identity on these variables. That handlers can be abandoned by a crash is what the
code does, and nothing in the repository promises otherwise; the promise names it
instead of hiding it.

Time is left out: `reclaimStuckDispatched` waits five minutes, which may pass between
any two steps. Not modelled: the seven-day expiry of a handler key, the loss of Redis
data, and a job that runs twice at the same time because its lock was lost.

### IdempotentRequests: state and actions

One user, route, key and body, hence one `record` and one `lock` in Redis, shared by
any number of deliveries; `pc`, `polls` and `answer` are the local state of
`intercept` for each, and `done` the effect of the handler. `LookUp`, `AcquireLock`,
`Poll`, `RunHandler`, `Save` and `ReleaseLock` are the steps between two awaits;
`EarlyCallFails`, `HandlerFails`, `SaveFails` and `ReleaseFails` are their failures,
in which the command may have been executed or not; `ExpireLock` and `Crash` come at
any moment. `late` and `expired` are history variables: requests sent after the client
was told of a success, and whether a lock has ever expired.

The handler is one that a second run refuses (submit, reject, reimburse, the last
approval), because it checks the status on the locked row: the interceptor alone does not
keep it from running twice, and the run shows what it adds to that check. A record never
expires (24 hours).

`WriteOnce` is what the two promise together: the effect happens at one moment, while a delivery
is open that was sent before any success was told; at most one delivery is told that it made it
(`"success"`), the others of a replay, a refusal or a failure; and a delivery sent after a success
was told is told the same unless a call fails. The mapping `Outcome` shows of a delivery only
whether it was sent and what it was told; the record, the lock and the polls are hidden. A failure
may be told of an effect that happened: the interceptor does not promise more.

### Accounts: state and actions

`account` is the row of one user, `grants` a version of the permissions of its role, `department` says
whether the user manages the department and whether that is active;
`live`, `grace`, `codes`, `codeKey`, `ssoState`, `exchange` and `context` are Redis keys;
`handler` is what each request in flight remembers: its operation, the call it is at, what it
read, the token or code it is about. Each call to PostgreSQL or Redis is an action:

* sessions: `StartLogin`, `IssueTokens`, `StartRefresh`, `CheckGrace`, `RotateToken`, `KeepGrace`,
  `CheckActive`, `Logout`; the redirect, callback and exchange of single sign-on;
* codes: `StartCode`, `MailCode`, `ClearCode`, `StoreCode`, `NameCode`, `StartConfirm`, `UseCode`, `MarkVerified`;
* the row: the saves of a password, a suspension, an activation, a role, a profile or a role's permissions. A
  transfer that moves the manager out of the department is a transaction of three steps: `OpenTransfer` takes the
  rows, `ReleaseManager` forgets the context while nothing is committed yet, `WriteTransfer` commits; the
  context is forgotten again afterwards. `StartAssign` and `WriteManager` give the department another manager, from a
  manager read before; `SetActivity` changes its activity and forgets no context;
* the cached context (`View`): activity, deactivation, verification, role, permissions and managed departments.
  `StartValidate`, `findAuthContext`, `ReadManaged` and `FillContext` are a miss, `ForgetContext` an invalidation;
* the revocation of sessions (`delByPattern`): `BeginSweep`, `ScanKeys` and `DropKeys`, SCAN and DEL turn by
  turn until the cursor is back at zero. `due` is what SCAN must still give, namely the keys that have been there since
  its first call; a key that is written meanwhile it may give or not; `batch` is what the next DEL deletes.

A request may die between any two calls. Tokens and codes are
identities. The history variables say which password a token goes back to (`proof`), which tokens belong to requests
that ran beside the latest sweep (`overtaken`, and `late` for a request), whether the context was outdated by a fill
that raced or by a write that forgets nothing (`raced`: a profile save, a change of manager from a stale read, the activity of
a department), and which clean-ups were never done; the three
invariants name exactly the cases in which the code falls short.

Abstractions: one user, who belongs to one department; an inactive department is managed by nobody, as the query has it.
The name and the `departmentId` of the context are left out, since no guard reads them.

### Notifications, BudgetAlerts, Escalation: state and actions

*Notifications*: `listener` walks through `Recipients` of an event on one channel, reads
or inserts the preferences (`ReadPreference`, `InsertPreference`), saves the row (`SaveNotice`)
and, for a mail, queues its job (`QueueMail`); `ListenerFails` gives up what the code's
try blocks give up. `mailJob` is retried `MaxAttempts` times, `MailAccepted` and `MarkSent` are apart,
`AttemptFails` may come after the mail was taken. `WorkerStops` leaves a stalled job: the queue hands it out once more
and fails it the second time (`MaxStalls`, the default of the queue, which the repository does not change). `OnFailed` returns early
while attempts are left (`ReturnsEarly`), so such a job leaves its row PENDING; otherwise its write is not awaited and may
be lost. `configured` is whether `NOTIFICATION_SERVICE_URL` is set: without it `MailSkipped` succeeds and sends nothing,
and the row says SENT. *BudgetAlerts*: `Commit` moves the utilisation, and
each check finds, saves and publishes threshold after threshold in ascending order; the unique key refuses
the second of two rows and ends that check. *Escalation*: handlers of several submissions look for, remove and
add the one job of the expense; the queue refuses to remove a job that is held and ignores
a second job of a name.

### AccessRules, AccessRoutes, RoleAdministration, Delegation

`AccessRules` is the permission catalogue with its templates, `hasPermission` and subsumption of
scopes, separation of duties, who may assign what, and the policies on expenses, approvals and receipts.
`AccessRoutes` lists the routes of the controllers with what their guards ask, and the capabilities that
`permission-capability.rules.ts` derives for the front end. `RoleAdministration` runs two
administrators on one role: rows are read, removed, added and saved by separate statements, since
`RoleService` opens no transaction; `NobodyGivesMoreThanTheyHold`, `DutiesAreSeparated` and
`CapabilitiesMatchGuards` speak of the rows that result.

### Delegation: state and actions

*Delegation* compares the decision (`MayApprove`) with the queue of what a user can decide (`Actionable`, of which
`Candidate` is the SQL) for one expense. `awaiting` is the expense, `decided` its decisions, `levels` and `manager` the rows its
chain is made from, `delegations` and `instant` the stand-ins and the clock. `Submit`, `Approve`, `Reject` and `Reopen` take the expense along its chain;
`EditLevels` changes one level, `ReplaceManager` a manager, at any moment; `CreateDelegation`, `Revoke` and `Tick` are the rest.
A decision needs the first open stage, the status that this stage wants (`StatusFitsStage`, which is
`assertExpenseStatusForStage`), and someone who may act on it, for himself or for another.
The queue asks neither for the status nor the table: it derives the stages from `cached`, the copy of the levels its process
holds, if any. `ReadLevels` and `KeepLevels` fill it in two steps, `ForgetLevels` is its expiry after 60 seconds, and an edit clears only the
copy of the process that makes it (`here`).

`QueueIsWhatCanBeDecided` says that the two agree, but for two cases it names by history variables: `unseen`, the levels were edited behind a
copy that is held or being read; and `edited`, the chain of the pending expense is not the one it was submitted to.

**Delegation, what is not shown.** When the manager of a department is replaced by the owner of a pending expense, its manager stage is
skipped from then on. The status stays SUBMITTED, the finance stage wants UNDER_REVIEW, and nobody can approve or reject: the expense
is stranded until the manager changes again, while the queue of every finance approver lists it. An edit of the levels
that puts finance first does the same. No property forbids that: it is what the code does and no line of the repository promises otherwise.
`PendingCanBeDecided` is therefore checked with edits only while nothing is pending, and `QueueIsWhatCanBeDecided`
excuses what such an expense shows in the queue (`edited`); it does not excuse a decision that the queue would not list.

Abstractions: a user's auth context is read fresh (its staleness is the subject of *Accounts*); the owner of the expense stays in his department;
one load of the queue's levels is under way at a time; approver types are the two of the enum, so the branch
for another type, which would compare a `roleId`, is never taken.

### PolicyRules, PolicyEngine

`PolicyRules` translates rule types, conditions, field resolvers and configuration checks.
`PolicyEngine` has the claims of one user, the active policies, the memory of one process and the
submissions in flight: a context is captured, the policies are obtained (from memory or by a query), the
history is queried, the claim commits. `covered` records which policies had been in force for longer than
`CacheTtl` at a commit that nothing disturbed in between: for those `PoliciesAreKept` demands that monthly caps hold over
everything submitted in the month and that no two equal claims fall in a duplicate window.

### RateLimiter, Staffing, Figures

*RateLimiter*: the guard reads the clock (`AskGlobal`), the script runs later as one step
(`EvaluateWindow`), in any order; `WindowUnavailable` is Redis failing. Requests of one millisecond share a member of
the sorted set, so the promise is about distinct instants. *Staffing*: assignments, transfers, suspensions and removals
take a `desk`, check, and commit later what they read; `contended` marks the departments two overlapping requests were
both about, of which nothing is promised. *Figures*: the rows of one owner move through their statuses over a calendar
of 31-day months, the owner changes departments, and every state is asked for the figures of `report.service.ts`,
`dashboard.service.ts` and `expense-query.service.ts`, for every viewer and period. Days are UTC, the default of
`BUDGET_TIMEZONE`. The payroll export takes `EXPORT_ROW_LIMIT` rows, the oldest approvals first: any of them, where days are equal.
So it equals the other figures while there is room and otherwise holds that many of the oldest. The approvals list is asked for as it opens
(`actionableOnly`), with everything shown, and for what is aging: the first is what `getPendingApprovalSummary` counts, the second what a
team's dashboard counts. Who may act at which stage is `Delegation`'s question; here it may be any set of claims (`actable`).

## 3. Runs

All runs set `CHECK_DEADLOCK FALSE`: identifiers are bounded, so a run ends when
everything is settled, deleted or processed. `PendingCanBeDecided` and
`EveryEventIsProcessed` ask the question that matters instead.

| run | shows | instance | distinct states |
|---|---|---|---|
| `ledger` | `LedgerExact`, `WithinLimit`, `AnnouncementMatchesStatus`, `SettledIsFinal`, `BudgetsAreLedgers`, `TypeOK` | 2 expenses, 2 clients in flight (symmetric), amounts 1 and 2, 2 budget years of limit 3, manager stage then finance from amount 2, 3 instants | 142,803 |
| `admin` | `ApprovedThroughChain`, `StagesInOrder`, `DecisionsMatchStatus`, `DecisionsReferToLevels`, `ChainIsOrdered` | 1 expense, 3 levels edited at any moment, managers and departments too | 1,012,010 |
| `idle` | `PendingCanBeDecided` | the same edits, only while nothing is pending | 439,050 |
| `row` | `RowMatchesSpend`, `ImplementsLedger`, `BudgetTypeOK` | 4 expenses (two symmetric pairs), limits 2 and 4, 1 administrator | 22,914 |
| `delivery` | `ImplementsDelivery`, `OutboxTypeOK` | 2 events (2 handlers, none), 2 relays (symmetric), batches of 1, 2 attempts, 2 faults, 1 crash | 3,616,171 |
| `progress` | `EveryEventIsProcessed` | 2 events, 1 relay, batches of 2, 2 attempts, 2 faults, 1 crash, fairness | 316,953 |
| `services` | the 18 properties of the services, one service per behaviour | see below | 1,179,800 |
| `retry` | `NoOverlap`, `RetryIsReplayed`, `IsWrittenOnce`, `EveryRequestIsAnswered` | 3 deliveries, 2 polls, 2 faults, 1 crash, any lock expiry, fairness | 51,660 |

Why the bounds are enough. *ledger*: with two expenses and two requests, one
submission can be checked, overtaken by the other, by an edit or by a removal, and
then committed; a limit of 3 admits one large and one small expense but not two large
ones; the year turns after the first instant, so expenses of two
budget years are open at once and one reopened in the new year keeps the old one. *admin*: three levels are the fewest with a first, a middle
and a last one, and rows cover both types, inactivity and both amount limits.
*row*: two large expenses exceed either limit together, and four transactions wait for
one lock. *delivery*: two relays and batches of one make both relays claim, inspect,
remove and add the same job after a reclaim; two attempts include an exhausted job and
its re-creation; a fault and a crash combine. *progress* has no symmetry, which TLC's
liveness checking does not allow for, and a batch of two, so that a failing
enqueue leaves a second row behind.

*services*: the services share no state in what is modelled of them, so a behaviour is
that of one of them, chosen by the variable `service`, while the others rest in a single initial state
(`Rests`); the run is their union and not their product. Their identities are shared model values (`a1`, `a2` for
requests, administrators, claims, clients, users; `c1`, `c2` for codes and departments), so that one symmetry
serves all; no module orders or chooses among them. A resting account has no code and a resting
claimant no department, either of which would tell those values apart. What the figures rest on whatever the rows are (periods that
adjoin and are the same for report and dashboard, equal buckets) is an assumption TLC evaluates once, `CalendarsAgree`, and so
is the coherence of the role templates, `TemplatesAreCoherent`. `FiguresAskedAgree` asks for the figures as soon as there is a row, that is, in the
behaviours of `Figures`; without a row every figure is zero.

| service | instance | what the bound must allow |
|---|---|---|
| accounts | 2 requests in flight, 3 requests, deaths and expired keys in all, 2 tokens, 2 codes, 2 roles | the first session, and one issued before, between or after the calls of a sweep; a fill across a save or an open transfer |
| notifications | the events and channels of `expense.pending_finance`, 2 users, 2 attempts, 2 faults, a mail service or none; both users in finance only with their preferences rows and a mail service | two listeners that insert one preferences row; a mail taken twice; an exhausted job; a job that stalls twice |
| alerts | 3 checks, 2 thresholds, 1 fault | two checks colliding while a third comes after |
| escalation | 3 submissions | two handlers and a firing job of earlier rounds |
| roles | 2 administrators of two roles each, 4 permission sets and every template, 2 writes | interleaved sets that conflict only together |
| delegations | 3 users, 3 expenses, 4 tables of levels, 2 managers, 1 edit, 1 delegation, 3 instants | the first to the last stage; an edit beside a loading or held copy; a chain that turns round under an expense; day boundary; delegator without scope |
| policies | 2 claims, a cap and a duplicate rule, 3 instants, months of two days, cache of one instant | a stale cache, a turn of the month |
| limiter | 2 clients, window of 2, limits 2 and 1, 4 instants | scripts out of order, a window that slides |
| staffing | 2 users, 2 departments, 2 desks, 4 requests | assign beside transfer, removal beside assign |
| figures | 2 claims, 2 departments, the first days of two months in different quarters, 1 transfer, 3 viewers, exports of 1 row | boundary of month and quarter; spend before and after a move; a full export |

*retry*: one delivery holds the lock, one waits for it and one comes after the answer;
two polls are a first and a last one.

Fairness. `progress`: weak fairness of each relay, of the execution of each job
and of the reclaim of each row. The code schedules the poll job every two seconds and
the reconcile job every minute (`outbox-relay-scheduler.service.ts`), the queue hands
waiting jobs to a live worker, and handlers return. Appending, failing, crashing and
forgetting jobs are not fair; `onFailed` is not either, since reclaiming makes up for a
callback that never runs. `retry`: weak fairness of each request in flight, since the event
loop continues it after every await; the expiry of a lock, crashes and the client are not
fair. The faults and crashes are finitely many: with failures for
ever nothing could be promised.

### Runs that refute a statement of the repository

| run | statement | what the code does |
|---|---|---|
| `reopen` | "reopen as a draft to edit and resubmit" (`expense-detail.util.ts:46`) | `submittedAt = undefined` is not saved, so the resubmission builds the same outbox idempotency key and rolls back |
| `heal` | "has no approval stages configured and was marked approved" (`approval.service.ts:89`) | the exception that says so rolls back the save |
| `clear` | "Cannot remove the department manager while expenses are awaiting approval" (`department-manager.service.ts:63`) | pending approvals are counted outside the transaction; a submission comes in between |
| `overspend` | "set true to block overspend submits" (`config.schema.ts:63`) | a budget created after submissions of its year starts at 0; the recount that would repair it throws, as it locks outside a transaction |

The behaviour the `reopen` run shows limits the others too: where a budget exists, as in
`ledger`, the second round of an expense always repeats the `budget_committed` key of the first
and rolls back. The budget properties therefore cover submission, editing, rejection, reopening
and the failed resubmission, and would cover successful ones if the instant were cleared.
In `admin`, without a budget, an expense is resubmitted when its levels are gone by then.

## 4. Proofs

TLAPS checks about 9,000 obligations for all values of the constants, under the
assumptions TLC evaluates on every run:

* types and bounds only: `ParametersAssumption`, `BudgetParametersAssumption`, `OutboxParametersAssumption`,
  `RequestParametersAssumption`, `RolesAssumption`, `NoticeBoundsAssumption`, `AlertBoundsAssumption`,
  `MaxSubmissionsAssumption`, `RateParametersAssumption`, `UnitsAssumption`, the room of an export (in `FiguresAssumption`), `CalendarAssumption` (a day and a month
  are not empty);
* only finitely many rows exist: `ExpensesAssumption`, `FiniteExpensesAssumption`, and parts of
  `PolicyParametersAssumption` and `FiguresAssumption`. Sums need it;
* what the code's validators see to: caps and windows of a policy are natural numbers and a cached list of policies
  lives for a while (`PolicyParametersAssumption`), amounts are positive and caps natural (`FiguresAssumption`);
* levels have distinct places (`InitialLevelsAssumption`; `LevelTablesAssumption`, which follows from the unique key), every set of thresholds has a least one
  (`ThresholdsAssumption`), what is asked for is in the catalogue (`WantedSetsAssumption`).

Three theorems hold under a hypothesis on who administers, and the run that checks their property has the same:
`BudgetImplementsLedger` and `RowIsTheSpend` (`EditsOnlyWhenQuiet`, no deactivation), `PendingIsNeverStuck`
(`EditsOnlyWhenIdle`). The runs `overspend`, `clear` and `heal` are about what happens otherwise.

* **SumTheorems**. The library adds up a set by recursion. The recursion is a function on the subsets of the set
  (`SumIsSums`), which a finite set has (`SumsDefined`). Induction is a statement about a set of
  numbers (`SetInduction`: a set that has 0 and with each number the next one has all), since the theorems of the library that
  induct over an operator cannot be used. From these: a sum does not depend on the order (`SumRemove`), changes by as much as a term
  does (`SumChange`), divides (`SumSplit`, `SumPartition`), ignores the rows that do not fit (`SumExtends`), takes other
  names (`SumImage`); the same for counts (`CountIsSum`, `CountPartition`); and of a set something has the least
  rank (`LeastExists`).
* **ExpenseProofs**: `TypeCorrectness`. Instants, amounts and budgets stay in their
  types; `committed` stays a natural because `SyncBudget` clamps it. The inductive invariant `Inv` is the conjunction of
  `TypeOK`, `ChainIsOrdered`, `DecisionsMatchStatus`, `DecisionsReferToLevels`,
  `SubmittedHaveInstant` and `AnnouncementMatchesStatus`. `SubmittedHaveInstant` (an expense
  that is pending, approved, rejected or reimbursed has an instant) is the strengthening: without it a reopened draft
  cannot be told from a fresh one and `AnnouncementMatchesStatus` is not inductive.
  `Invariance` proves it; `DecisionsMatch`, `DecisionsRefer`, `ChainOrdered` and
  `AnnouncementMatches` are its parts. `ApprovalThroughChain`, `StagesDecideInOrder` and
  `SettledStaysFinal` prove the action properties from it. The first needs that the chain
  is totally ordered: the last level is above all others, and an active stage has all
  those before it approved.
  `BooksAreExact` (`LedgerExact`): what a recount would find is a sum with a term for each expense, every handler changes
  the term of the one expense it is about, and `SyncBudget` moves the amount of the row alike; the clamp at zero never
  bites, since what remains is a sum again. `SpendStaysWithinLimit` (`WithinLimit`): with the switch on no row goes above its limit
  (`RowsWithinLimit`), because a submission is refused that would lift it, and the row is the spend. `PendingIsNeverStuck`
  (`PendingCanBeDecided`): the strengthening `PendingAreMoving` says that every pending expense has a stage
  left, that its stages are decided in order, that there is someone for each, and that the status fits the first one;
  the first stage left can then be decided. `WorkflowImplementsLedgers` (`BudgetsAreLedgers`) and, as the specification
  of the ledger itself, `EveryRowIsALedger`: what moves an expense between stages is brought to one form (`MovesTo`), of which
  `MoveInBook` says where the expense then stands in a book and `MoveOnRow` what its row then holds; a submission charges,
  a rejection releases, a reimbursement pays in one book and leaves the others alone, and a draft only changes its amount.
  With `BudgetImplementsLedger`, below, the two grains of the model meet in one specification.
* **BudgetProofs**: `BudgetTypeCorrectness` for any administration, and
  `BudgetImplementsLedger` for edits while nothing is in flight. The inductive invariant
  `LockInv` says that a transaction that has looked at the row holds it and, if it is a
  submission, still fits the limit (`HoldersAllowed`); that the stage of its expense is the
  one it was begun on; and that an update in flight is alone and still agrees with the row
  (`UpdatesAreAlone`). A commit is then a ledger entry and every other step stutters. `RowIsTheSpend` (`RowMatchesSpend`)
  follows: such an entry moves the row and the sum of its expenses alike, and a created budget finds none charged.
* **OutboxProofs**: `OutboxTypeCorrectness` and `OutboxImplementsDelivery`. The inductive
  invariant ties the Redis keys to history: a key stands for an effect, an abandoned handler
  or a running one (`KeysAreAccounted`); a handler that is running or done holds its key
  (`RunsHoldKeys`); a single write that happened keeps its key and is not running
  (`SingleWritesHoldKeys`); nothing runs for a processed event (`ProcessedIsQuiet`), although
  its job may be created and started again. `AttemptsLeft` bounds the attempts.
* **RequestProofs**: `RequestTypeCorrectness`, `HandlersDoNotOverlap`, `RetriesAreReplayed`.
  The inductive invariant: until a lock expires, whoever is past `acquireLock` holds the lock
  (`HoldersHaveLock`) and is alone (`HolderIsAlone`), so only the holder deletes it; a success
  that is told is on record (`SuccessIsRecorded`), so a late request finds the record at its
  first look (`LateOnesFindRecord`). `RequestsWriteOnce` (`IsWrittenOnce`): the strengthening `OnceInv` says that one
  delivery at most has made the change and may tell so (`OnlyOneWrote`), and that a change stands behind whatever is recorded,
  saved or refused (`WritesAreDone`). The handler's transaction then is the write, every answer that leaves is allowed
  by the register, a crash loses what was open, and the steps between are not seen.
  Of the rate limiter, `TheWindowIsLimited`: `RecentAreStored` says that what was admitted in the window that ends
  now is still in the sorted set and that the set outlives it; admissions counted in a past window cannot
  grow, and one in the present window is below the limit because the script counted all of it.
  Of the policy engine, `PoliciesHold` (`PoliciesAreKept`). `PolicyInv` follows a submission: whoever
  asks for policies misses none that was active before he asked (`MemoryIsComplete`), so a submission misses none that was in force
  for longer than the cache lives (`LoadedAreComplete`); undisturbed, its context is the draft as it is (`ContextIsCurrent`)
  and the history it read is the one it commits to (`TestedArePermitted`); so the amounts that a cap covers add up to no more
  than the cap whatever is disturbed beside them (`CapsHold`), and of two equal claims the later one saw the earlier.
* **AccountProofs**: `AccountsAreTyped`, `SessionsFollowThePassword`, `ContextFollowsTheAccount`. The inductive
  invariant adds `RequestsAreSound`: whatever a request carries towards a token it will issue is proof of
  the current password, unless a revocation overtook it or is still owed. A clean-up that is owed
  stays owed until the request does it or dies (`StaysOwed`). Of a sweep, `SweepsAreSound`: while one runs every request is late, and a
  session that it has neither been given nor must still be given was written beside it; so what is left after its last DEL
  is excused as `overtaken` or was not there at the last SCAN. That covers any order in which SCAN gives the keys, and several sweeps at once.
  The context is that of the row whenever a request sets it without a race, since every writer that changes what the view shows
  owes the invalidation or is one of the named three. `OneCodeIsValid` (`OneCodeAtATime`): as long as no two
  requests about the codes of a purpose overlapped and none died half way, the user key names the code there is, and the
  request that stores a new one has removed the old (`CodesAreTidy`).
* **ServiceProofs**. Alerts: a publisher holds the row of its threshold, no two hold the same
  (`PublishersHoldRows`), every row is announced, about to be or lost (`RowsAreCovered`), and a check leaves no
  threshold behind without a row. Escalation: once the last handler has cleared the job's name, whatever holds it
  will still look (`ClearedNameIsFresh`), and a free name is about to be taken (`FreeNameIsTaken`). Notices: whom a listener has
  still to tell has no job (`VisitedOnce`), attempts and stalls are counted (`JobsAreCounted`), and whoever was not told is left,
  in hand or declined (`NobodyIsForgotten`). Figures: `FiguresStayTrue`, for every number of claims, departments, categories and
  days. The inductive invariant `FigureInv` is small: a row has the dates its status needs. The rest is arithmetic. Every
  figure is a sum over rows (`TotalIsSums`, `AmountsAreSum`), and the rows of a period are divided by department, owner, category,
  month, week or bucket (`FiguresSplit`), so parts add up to the whole. A full export leaves out no older row for a younger one, whence none of an older bucket
  (`PayoutsHold`), and the list of approvals and its counters filter alike (`CountersHold`). The dashboard's series need that a period which a
  report and a dashboard name differently has the same days (`SamePeriods`, `BackAndForth`); that is a lemma and, for the run,
  the assumption `CalendarsAgree`, and no part of the theorem; it follows from the calendar
  (`DayIsOfMonth`, `MonthsRange`, `QuartersRange`, `YearsRange`).
* **DirectoryProofs**, roles and delegations. `NobodyGivesMore`: whatever the role holds, and whatever a request has read and may write
  back, was given by someone who may assign it (`GivenByHolders`); that a stored permission allows no more than its
  assigner may do is `WhoAssignsMay`, which needs that the catalogue holds no permission to manage (`SeedsArePlain`).
  `DutiesStaySeparated`: as long as no two requests wrote at once, the only writer knows what is stored
  (`WriterIsAlone`). `TheQueueIsExact`, of users, chains, delegations and edits as they come: what the queue's process holds or is reading
  equals the table unless it was edited behind it (`CopiesAreFresh`), and an expense whose chain nobody has changed is as its
  submission left it or past the first stage and UNDER_REVIEW (`ChainIsInOrder`), so its status fits the first open stage; then both paths ask
  the same of every user.
  `ShownIsAdmitted` (`CapabilitiesMatchGuards`): a stored permission is a seeded one, which grants its own action, if at all, and no other
  (`SeedGrants`); routes and capabilities ask for pairs of an action and a resource (`RoutesAskPairs`), so guard and
  capability ask the same of the same rows, whatever sets the role has been given.
  Departments: `DepartmentsStayConsistent`, `ManagersStay`. Two requests that overlap and share a department or a
  user have left the departments of both to chance (`OverlapsAreNoted`); so what a request has read of a department
  that is not still holds when it commits (`JobIsSound`): the department it moves to exists, the rows it closes are the
  open ones, the manager it takes is one nobody waits for, and the user is where it read him (`UserIsKnown`). Each
  commit touches only the departments it is about (`RequestEnds`), and leaves the others sound (`BystandersStaySound`).

Model-checked only: `EveryEventIsProcessed` and `EveryRequestIsAnswered`. Both need fairness, hence
ENABLED, which this prover does not reason about. Every other property of a passing run is stated by a theorem, and `RequestTypeOK`, which no run lists, is one. The four runs
that refute a statement are counterexamples and have none.

## 5. What is not modelled

Left out for good: HTTP, validation and DTOs, formatting and mapping, exports, file storage and receipts, comments,
e-mail contents, the identity provider, the audit listener (one insert), the catalogue that the policy editor shows, metrics and
health, migrations and seeds (their unique keys and defaults appear in the actions that meet them).

Inside the modelled parts: the level cache of `approval-level-catalog.service.ts` where displays read it (the approval queue's use of it
is in `Delegation`); the budget recounts, of which the nightly one throws before it writes and the one of a
transfer never finds an expense; reports whose figures are read by separate statements
(`Figures` reads one state); session time zones other than UTC; the seven-day expiry of handler keys and the one-day expiry of
request records; time to live of sessions and codes; the parallel workers of one mail job.

### Where the code differs from what one would expect

Met while modelling, and built into the modules as the code has it; none of these has a run of its own.

* A manager whose role lacks `expense.read` may decide, but the guard refuses the page of the expense; the permission to
  reimburse alone does not let its holder read an approved expense; `budget.read.own` opens no route; a role with only
  one of approve and reject is shown both capabilities.
* A delegate without deciding power of his own can never act, for the guard asks first; delegations of a suspended
  delegator stay in force; the owner of an expense cannot decide it, but a delegate of the owner can, by what the
  owner may decide.
* `RoleService.create` with a refused template leaves an empty role; `update` saves a stale entity and may
  write removed permissions back; a role counted as unused may be assigned before its soft delete.
* Saved policies lose a custom `message`; the check before submission previews the budget of `incurredAt` while submission
  charges that of the submission instant; `resolveApprovalBudgetFlags` caches by the UTC year (`expense-query.service.ts:503`) where approval
  asks for the year in `BUDGET_TIMEZONE`.
* Removing a user from a department with a null reference leaves the row as it is but releases the manager; suspending a
  manager does not release the department.
* After a move the by-department report counts an expense where its owner is, the organization budget where the expense
  was filed, and a team dashboard in both; the organization summary's `hasBudget` asks less than the report's.
* The e-mail of a notice may be marked FAILED although it was delivered, and a row stays PENDING when its
  job, or the write of its outcome, was lost, or when its job stalled twice with attempts left; without
  `NOTIFICATION_SERVICE_URL` a row says SENT of a mail that nobody took.
* A session that is issued, or a grace key that is written, while the sessions of an old password are revoked may survive. The cached context outlives
  for up to a minute a change of a department's activity, a profile save that writes back older columns, and a
  change of manager from a stale read; a transfer forgets it once before it commits, where only the second time counts.
* The approval queue follows levels that are up to a minute old, and lists an expense that a change of its chain has stranded (Delegation, above).

## 6. Plan

Done: the core, the outbox, the budget row, the requests, and the services of `MCServices`. In this order next:

1. **Composition**: `Notifications`, `BudgetAlerts` and `Escalation` with `EventDelivery` as their environment;
   `IdempotentRequests` with `ExpenseLifecycle` as its handler, where a repeated approve whose record was
   lost may decide two stages; `Staffing` with the owners and managers of `ExpenseLifecycle`.
2. **Liveness of the services**: every notice leaves PENDING, every pending expense is reminded, under the fairness of
   queues and workers.

Theorems planned, with the compositions of 1: that `Notifications` and `BudgetAlerts` keep their invariants under any
delivery `EventDelivery` allows, and that a handler that is not refused a second time breaks `WriteOnce` in no other way
than by that second run.
