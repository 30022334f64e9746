------------------------------- MODULE Figures -------------------------------
(***************************************************************************)
(* What the reports, the dashboards and the expense lists compute from the *)
(* same rows: separate queries of three services, each with its periods,   *)
(* its statuses and its notion of an expense's department.  A row is       *)
(* [id, amount, category, status, unit, created, submitted, approved,      *)
(* reimbursed], a date being a day of a calendar of 31-day months, 0 none. *)
(* Days are those of UTC, the default of BUDGET_TIMEZONE.                  *)
(***************************************************************************)
EXTENDS AccessRules, Integers, FiniteSetsExt, Folds

CONSTANTS
  FiledClaims,      \* expenses of one user
  FigureUnits,      \* departments
  BudgetedUnits,    \* departments with an active budget for every year
  CalendarDays,     \* bound: the days on which something happens
  ClaimKinds,       \* [amount, category]: what the claims ask for
  CategoryCaps,     \* category -> its monthly cap
  Viewers,          \* users who ask for a report
  MaxMoves,         \* bound: transfers of the user
  EXPORT_ROW_LIMIT  \* the most rows an export has

\* An amount is positive, and every expense has one of the categories.
ASSUME FiguresAssumption ==
  /\ IsFiniteSet(FiledClaims) /\ None \notin FiledClaims
  /\ IsFiniteSet(FigureUnits) /\ None \notin FigureUnits
  /\ CalendarDays \subseteq Nat \ {0} /\ CalendarDays # {}
  /\ IsFiniteSet(DOMAIN CategoryCaps) /\ \A k \in DOMAIN CategoryCaps : CategoryCaps[k] \in Nat
  /\ ClaimKinds \subseteq [amount : Nat \ {0}, category : DOMAIN CategoryCaps]
  /\ EXPORT_ROW_LIMIT \in Nat

VARIABLES
  claimBook,        \* claim -> its row, or NoRow
  ownersUnit,       \* the user's department, None for none
  calendarDay,
  moves             \* transfers so far
figureVars == <<claimBook, ownersUnit, calendarDay, moves>>

Policies == INSTANCE PolicyRules WITH InstantsPerDay <- 1, DaysPerMonth <- 31

Never == 0
NoRow == [status |-> "ABSENT"]
InApproval == {"SUBMITTED", "UNDER_REVIEW"}
Spent == {"SUBMITTED", "UNDER_REVIEW", "APPROVED", "REIMBURSED"}
AllStatuses == Spent \cup {"DRAFT", "REJECTED"}

(* The rows and what the services write into their dates. *)
InitFigures ==
  /\ claimBook = [c \in FiledClaims |-> NoRow]
  /\ ownersUnit \in FigureUnits \cup {None}
  /\ calendarDay = Min(CalendarDays)
  /\ moves = 0

Write(c, row) ==
  claimBook' = [claimBook EXCEPT ![c] = row] /\ UNCHANGED <<ownersUnit, calendarDay, moves>>

CreateRow(c) ==
  /\ claimBook[c] = NoRow /\ ownersUnit # None
  /\ \E kind \in ClaimKinds :
       Write(c, [id |-> c, amount |-> kind.amount, category |-> kind.category,
                 status |-> "DRAFT", unit |-> ownersUnit, created |-> calendarDay,
                 submitted |-> Never, approved |-> Never, reimbursed |-> Never])
RemoveRow(c) == claimBook[c].status = "DRAFT" /\ Write(c, NoRow)

EditRow(c) ==
  /\ claimBook[c].status = "DRAFT"
  /\ \E kind \in ClaimKinds :
       Write(c, [claimBook[c] EXCEPT !.amount = kind.amount, !.category = kind.category])

(* Without an approval level left to pass, submission approves. *)
SubmitRow(c, status) ==
  /\ claimBook[c].status = "DRAFT"
  /\ Write(c, [claimBook[c] EXCEPT !.status = status, !.submitted = calendarDay,
                                   !.approved = IF status = "APPROVED" THEN calendarDay ELSE @])
ReviewRow(c) ==
  claimBook[c].status = "SUBMITTED" /\ Write(c, [claimBook[c] EXCEPT !.status = "UNDER_REVIEW"])
ApproveRow(c) ==
  /\ claimBook[c].status \in InApproval
  /\ Write(c, [claimBook[c] EXCEPT !.status = "APPROVED", !.approved = calendarDay])
RejectRow(c) ==
  claimBook[c].status \in InApproval /\ Write(c, [claimBook[c] EXCEPT !.status = "REJECTED"])

(* A property set to undefined is not written: submitted_at stays. *)
ReopenRow(c) ==
  claimBook[c].status = "REJECTED" /\ Write(c, [claimBook[c] EXCEPT !.status = "DRAFT"])
ReimburseRow(c) ==
  /\ claimBook[c].status = "APPROVED"
  /\ Write(c, [claimBook[c] EXCEPT !.status = "REIMBURSED", !.reimbursed = calendarDay])

MoveOwner ==
  /\ moves < MaxMoves /\ moves' = moves + 1
  /\ \E u \in (FigureUnits \cup {None}) \ {ownersUnit} : ownersUnit' = u
  /\ UNCHANGED <<claimBook, calendarDay>>
NextDay ==
  /\ \E d \in CalendarDays : d > calendarDay
  /\ calendarDay' = Min({d \in CalendarDays : d > calendarDay})
  /\ UNCHANGED <<claimBook, ownersUnit, moves>>

StepFigures ==
  \/ \E c \in FiledClaims :
       \/ CreateRow(c) \/ EditRow(c) \/ RemoveRow(c)
       \/ \E status \in InApproval \cup {"APPROVED"} : SubmitRow(c, status)
       \/ ReviewRow(c) \/ ApproveRow(c) \/ RejectRow(c) \/ ReopenRow(c) \/ ReimburseRow(c)
  \/ MoveOwner \/ NextDay
FiguresSpec == InitFigures /\ [][StepFigures]_figureVars

Rows == {claimBook[c] : c \in {d \in FiledClaims : claimBook[d] # NoRow}}
Figure(S) == [count |-> Cardinality(S), totalAmount |-> Policies!AmountsOf(S)]
Nothing == [count |-> 0, totalAmount |-> 0]
AddFigures(f, g) == [count |-> f.count + g.count, totalAmount |-> f.totalAmount + g.totalAmount]
Total(series) ==
  MapThenFoldSet(AddFigures, Nothing, LAMBDA k : series[k], LAMBDA T : CHOOSE x \in T : TRUE,
                 DOMAIN series)

(* Calendar.  FirstDay carries months beyond the twelfth as Date.UTC does. *)
YearOf(day) == day \div 372
MonthInYear(day) == ((day \div 31) % 12) + 1
DayOfMonth(day) == (day % 31) + 1
FirstDay(year, month) == year * 372 + (month - 1) * 31
Between(day, range) == day # Never /\ range.start <= day /\ day < range.end

budgetPeriodRange(year, month) ==
  [start |-> FirstDay(year, month),
   end |-> IF month = 12 THEN FirstDay(year + 1, 1) ELSE FirstDay(year, month + 1)]
budgetQuarterRange(year, quarter) ==
  [start |-> FirstDay(year, (quarter - 1) * 3 + 1), end |-> FirstDay(year, quarter * 3 + 1)]
budgetYearRange(year) == [start |-> FirstDay(year, 1), end |-> FirstDay(year + 1, 1)]

(* A period is [mode, year, part]: the part-th of the periods of its mode. *)
PartsOf == [YEAR |-> 1, QUARTER |-> 4, MONTH |-> 12]
Period(mode, year, part) == [mode |-> mode, year |-> year, part |-> part]
resolveReportPeriodRange(p) ==
  CASE p.mode = "YEAR" -> budgetYearRange(p.year)
    [] p.mode = "QUARTER" -> budgetQuarterRange(p.year, p.part)
    [] p.mode = "MONTH" -> budgetPeriodRange(p.year, p.part)
shiftReportPeriodByMode(p, delta) ==
  LET absolute == p.year * PartsOf[p.mode] + p.part - 1 + delta
  IN  Period(p.mode, absolute \div PartsOf[p.mode], (absolute % PartsOf[p.mode]) + 1)
previousReportPeriod(p) == shiftReportPeriodByMode(p, -1)
yearAgoReportPeriod(p) == shiftReportPeriodByMode(p, -PartsOf[p.mode])

ageInDays(from, to) == IF to > from THEN to - from ELSE 0
bucketAgeDays(days) ==
  IF days < 8 THEN "0_7" ELSE IF days < 15 THEN "8_14" ELSE IF days < 31 THEN "15_30" ELSE "30_plus"
AgingBuckets == {"0_7", "8_14", "15_30", "30_plus"}

(* ReportService.  A question is [viewer, period, statuses, unit, category]. *)
reportStatuses ==
  [pipeline |-> Spent, approved_unpaid |-> {"APPROVED"}, settled |-> {"APPROVED", "REIMBURSED"}]
OwnerId == "owner"
VisibilityOf == [viewer \in Viewers |-> expenseListVisibility(viewer)]
Visible(viewer, e) ==
  CASE VisibilityOf[viewer] = "all" -> TRUE
    [] VisibilityOf[viewer] = "own-and-submitted" ->
         viewer.id = OwnerId \/ e.status \in InApproval
    [] OTHER -> viewer.id = OwnerId
scopedQuery(viewer, statuses, range, unit) ==
  {e \in Rows : /\ e.status \in statuses /\ Between(e.submitted, range)
                /\ Visible(viewer, e) /\ unit \in {None, ownersUnit}}
resolveDepartmentFilter(viewer, wanted, restricted) ==
  IF wanted # None THEN wanted
  ELSE IF restricted /\ VisibilityOf[viewer] # "all" /\ viewer.id = OwnerId
    THEN ownersUnit ELSE None

getSpendingSummary(viewer, statuses, p) ==
  scopedQuery(viewer, statuses, resolveReportPeriodRange(p), None)
getSpendComparison(viewer, statuses, p) ==
  [previous |-> Figure(getSpendingSummary(viewer, statuses, previousReportPeriod(p))),
   yearAgo |-> Figure(getSpendingSummary(viewer, statuses, yearAgoReportPeriod(p)))]
byStatus(S, s) == Figure({e \in S : e.status = s})
getSpendingByCategory(S, category) == Figure({e \in S : e.category = category})
getSpendingByMonth(viewer, statuses, year, month) ==
  Figure({e \in scopedQuery(viewer, statuses, budgetYearRange(year), None) :
            MonthInYear(e.submitted) = month})
getSpendingByDepartment(viewer, statuses, p, unit) ==
  Figure({e \in scopedQuery(viewer, statuses, resolveReportPeriodRange(p),
                            resolveDepartmentFilter(viewer, None, TRUE)) : ownersUnit = unit})

getPendingPayoutSummary(bucket) ==
  Figure({e \in Rows : /\ e.status = "APPROVED" /\ e.approved # Never
                       /\ bucketAgeDays(ageInDays(e.approved, calendarDay)) = bucket})
getReimbursementSla(viewer, p) ==
  {e \in Rows : /\ e.status = "REIMBURSED" /\ e.approved # Never
                /\ Between(e.reimbursed, resolveReportPeriodRange(p)) /\ Visible(viewer, e)}

(* fetchOrganizationBudgetSummary: the department of the expense itself. *)
getOrganizationBudget(year) ==
  Figure({e \in Rows : /\ e.unit \in BudgetedUnits /\ Between(e.submitted, budgetYearRange(year))
                       /\ e.status \in InApproval \cup {"APPROVED", "REIMBURSED"}})

(* DashboardService: by the day a claim was created. *)
resolvePeriod(mode, year, part) ==
  CASE mode = "MONTH" -> [start |-> FirstDay(year, part), end |-> FirstDay(year, part + 1)]
    [] mode = "QUARTER" -> [start |-> FirstDay(year, (part - 1) * 3 + 1),
                            end |-> FirstDay(year, (part - 1) * 3 + 4)]
    [] mode = "YEAR" -> [start |-> FirstDay(year, 1), end |-> FirstDay(year + 1, 1)]
resolvePreviousPeriod(mode, year, part) ==
  IF part > 1 THEN resolvePeriod(mode, year, part - 1)
  ELSE resolvePeriod(mode, year - 1, PartsOf[mode])
PersonalOf(range) == {e \in Rows : Between(e.created, range)}
getPeriodTrend(mode, year, part) ==
  [current |-> Figure(PersonalOf(resolvePeriod(mode, year, part))),
   previous |-> Figure(PersonalOf(resolvePreviousPeriod(mode, year, part)))]
TeamOf(unit) == {e \in Rows : e.status \in Spent /\ unit \in {e.unit, ownersUnit}}
resolveMonthsInPeriod(mode, part) ==
  IF mode = "QUARTER" THEN (part - 1) * 3 + 1 .. (part - 1) * 3 + 3 ELSE 1..12
getMonthlySpendOverTime(S, range, month) ==
  Figure({e \in S : Between(e.created, range) /\ MonthInYear(e.created) = month})
WeekOfFloor(day) == DayOfMonth(day) \div 7
WeekOf(day) == (DayOfMonth(day) + 6) \div 7
getWeeklySpendOverTime(S, range, week) ==
  Figure({e \in S : Between(e.created, range) /\ WeekOf(e.created) = week})
pendingReimbursement == Figure({e \in Rows : e.status = "APPROVED"})
getActionBucket(status) == Figure({e \in Rows : e.status = status})
pendingApprovals(unit) == {e \in Rows : e.status \in InApproval /\ unit \in {e.unit, ownersUnit}}
agingApprovals(unit) ==
  {e \in pendingApprovals(unit) : e.submitted # Never /\ e.submitted < calendarDay - 3}

loadMonthlySpendByCategory(category) ==
  Policies!AmountsOf({e \in Rows :
    /\ e.category = category /\ e.status \in Spent
    /\ Between(e.submitted, resolvePeriod("MONTH", YearOf(calendarDay), MonthInYear(calendarDay)))})
getPolicyWarnings ==
  {category \in DOMAIN CategoryCaps :
     loadMonthlySpendByCategory(category) * 10 >= CategoryCaps[category] * 8}
ReachedCaps ==
  {category \in getPolicyWarnings :
     loadMonthlySpendByCategory(category) >= CategoryCaps[category]}

(* ExpenseQueryService. *)
NEEDS_ACTION_STATUSES == {"DRAFT", "REJECTED"}
excludeOthersDrafts(viewer) == {e \in Rows : e.status # "DRAFT" \/ viewer.id = OwnerId}
listExpenses(viewer, listing) ==
  IF ~mayList(viewer, listing) THEN {}
  ELSE IF listing = "personal" THEN {e \in Rows : viewer.id = OwnerId}
  ELSE excludeOthersDrafts(viewer)
getExpenseStatusCounts(viewer, listing, status) ==
  Cardinality({e \in listExpenses(viewer, listing) : e.status = status})
needsAction(viewer, listing) ==
  MapThenSumSet(LAMBDA s : getExpenseStatusCounts(viewer, listing, s), NEEDS_ACTION_STATUSES)
IsAging(e) == e.submitted # Never /\ e.submitted < calendarDay - 3

(* The queue's claims: pending claims of others on which the viewer may decide,
   among those at whose active stage he, or someone he stands in for, may act.
   Delegation says which these are; here they are any, actable. *)
asExpense(e) ==
  [userId |-> OwnerId, departmentId |-> e.unit, status |-> e.status,
   ownerDepartmentId |-> IF ownersUnit = None THEN 0 ELSE ownersUnit]
OfManagedUnit(viewer, e) ==
  isManagerApprover(viewer) /\ ~hasGlobalApprovalPermission(viewer)
    => ({e.unit, ownersUnit} \ {None}) \cap viewer.managedDepartmentIds # {}
getActionableExpenseIds(viewer, actable) ==
  {e \in Rows \cap actable :
     /\ e.status \in InApproval /\ viewer.id # OwnerId /\ OfManagedUnit(viewer, e)
     /\ canDecideOnExpense(viewer, asExpense(e))}
findForApprovalExpenses(viewer, actable, actionableOnly, agingOnly) ==
  {e \in Rows :
     /\ viewer.id # OwnerId => e.status \in InApproval /\ OfManagedUnit(viewer, e)
     /\ actionableOnly => e \in getActionableExpenseIds(viewer, actable)
     /\ agingOnly => IsAging(e)}
getPendingApprovalSummary(viewer, actable) ==
  LET claims == getActionableExpenseIds(viewer, actable)
  IN  [awaiting |-> Figure(claims), aging |-> Cardinality({e \in claims : IsAging(e)})]

financeBucket(days) ==
  IF days < 8 THEN "0_7" ELSE IF days < 15 THEN "8_14" ELSE IF days < 31 THEN "15_30" ELSE "30_plus"
getFinanceQueueSummary(bucket) ==
  Figure({e \in Rows : /\ e.status = "APPROVED" /\ e.approved # Never
                       /\ financeBucket(ageInDays(e.approved, calendarDay)) = bucket})
getRecentlyReimbursedSummary ==
  {e \in Rows : e.status = "REIMBURSED" /\ e.reimbursed # Never /\ e.reimbursed >= calendarDay - 7}
(* The rows approved first, as many as fit; equal instants come in any order. *)
PayrollExports ==
  LET approved == {e \in Rows : e.status = "APPROVED"}
  IN  {S \in SUBSET approved :
         /\ IF Cardinality(approved) <= EXPORT_ROW_LIMIT THEN S = approved
            ELSE Cardinality(S) = EXPORT_ROW_LIMIT
         /\ \A e \in S, f \in approved \ S : e.approved <= f.approved}

(* Whom the figures are compared for, and the periods in which something happens. *)
ManagerOf(unit) ==
  [id |-> "manager", role |-> "staff", permissions |-> STAFF_PERMISSIONS,
   managedDepartmentIds |-> {unit}]
PartOf(mode, day) ==
  CASE mode = "YEAR" -> 1 [] mode = "QUARTER" -> (MonthInYear(day) + 2) \div 3
    [] mode = "MONTH" -> MonthInYear(day)
PeriodsAsked(mode) == {Period(mode, YearOf(day), PartOf(mode, day)) : day \in CalendarDays}
DashboardRange(p) == resolvePeriod(p.mode, p.year, p.part)

(* The series of a year has each month's total and adds up to the year and to its
   quarters, and statuses and categories add up too. *)
ReportsAddUp ==
  \A viewer \in Viewers, mode \in DOMAIN reportStatuses :
    LET statuses == reportStatuses[mode]
        Asked(p) == getSpendingSummary(viewer, statuses, p)
    IN  /\ \A p \in PeriodsAsked("MONTH") :
             getSpendingByMonth(viewer, statuses, p.year, p.part) = Figure(Asked(p))
        /\ \A p \in PeriodsAsked("QUARTER") \cup PeriodsAsked("YEAR") :
             LET claims == Asked(p)
                 ofMonth == [m \in resolveMonthsInPeriod(p.mode, p.part) |->
                               getSpendingByMonth(viewer, statuses, p.year, m)]
                 ofCategory == [k \in DOMAIN CategoryCaps |-> getSpendingByCategory(claims, k)]
                 ofStatus == [s \in statuses |-> byStatus(claims, s)]
             IN  /\ getSpendComparison(viewer, statuses, shiftReportPeriodByMode(p, 1)).previous
                      = Figure(claims)
                 /\ Figure(claims) = Total(ofMonth)
                 /\ Figure(claims) = Total(ofStatus)
                 /\ Figure(claims) = Total(ofCategory)

(* A year by department, of a viewer who sees everything, leaves out exactly the
   claims of a user without a department. *)
DepartmentsAddUp ==
  \A viewer \in {v \in Viewers : expenseListVisibility(v) = "all"}, p \in PeriodsAsked("YEAR") :
    LET ofUnit == [u \in FigureUnits |-> getSpendingByDepartment(viewer, Spent, p, u)]
        claims == getSpendingSummary(viewer, Spent, p)
    IN  /\ Total(ofUnit) = IF ownersUnit = None THEN Nothing ELSE Figure(claims)
        /\ BudgetedUnits = FigureUnits => getOrganizationBudget(p.year) = Figure(claims)

(* The period compared with ends where the other begins, in the report and on
   the dashboard, and their periods are the same. *)
PeriodsAreAdjacent ==
  \A mode \in DOMAIN PartsOf : \A p \in {Period(mode, year, part) : year \in {1, 2}, part \in 1..PartsOf[mode]} :
    LET range == resolveReportPeriodRange(p)
        ago == resolveReportPeriodRange(yearAgoReportPeriod(p))
    IN  /\ range = DashboardRange(p)
        /\ resolveReportPeriodRange(previousReportPeriod(p)).end = range.start
        /\ resolveReportPeriodRange(previousReportPeriod(p)) = resolvePreviousPeriod(mode, p.year, p.part)
        /\ ago = [start |-> range.start - 372, end |-> range.end - 372]

(* The weeks of a month and the months of a quarter or year add up on the
   personal and on the team dashboard. *)
SeriesAddUp ==
  \A S \in {Rows} \cup {TeamOf(unit) : unit \in FigureUnits} : \A mode \in DOMAIN PartsOf :
    \A p \in PeriodsAsked(mode) :
      LET ofWeek == [w \in 1..5 |-> getWeeklySpendOverTime(S, DashboardRange(p), w)]
          ofMonth == [m \in resolveMonthsInPeriod(mode, p.part) |->
                        getMonthlySpendOverTime(S, DashboardRange(p), m)]
          all == Figure({e \in S : Between(e.created, DashboardRange(p))})
      IN  /\ all = IF mode = "MONTH" THEN Total(ofWeek) ELSE Total(ofMonth)
          /\ S = Rows => getPeriodTrend(mode, p.year, p.part).current = all

(* The report and the finance queue have the same buckets. *)
BucketsAgree == \A days \in 0..31 : bucketAgeDays(days) = financeBucket(days)

(* What waits for payment is the same for the report, the finance queue, the
   claimant and the payroll export; where the export has no room for all of it, it
   is full, and leaves out no overdue claim for a younger one. *)
AgeBucket(e) == financeBucket(ageInDays(e.approved, calendarDay))
PayoutsAgree ==
  LET waiting == Total([b \in AgingBuckets |-> getFinanceQueueSummary(b)])
  IN  /\ \A bucket \in AgingBuckets : getPendingPayoutSummary(bucket) = getFinanceQueueSummary(bucket)
      /\ pendingReimbursement = waiting
      /\ \A S \in PayrollExports :
           IF waiting.count <= EXPORT_ROW_LIMIT THEN Figure(S) = waiting
           ELSE /\ Cardinality(S) = EXPORT_ROW_LIMIT
                /\ \A e \in S, f \in Rows \ S :
                     f.status = "APPROVED" /\ AgeBucket(f) = "30_plus" => AgeBucket(e) = "30_plus"
      /\ \A e \in getRecentlyReimbursedSummary :
           \E p \in PeriodsAsked("MONTH") : \A v \in Viewers :
             expenseListVisibility(v) = "all" => e \in getReimbursementSla(v, p)

(* The counters beside a list count the list; the approval queue as it opens is
   what its summary counts, whoever may act at which stage, and a manager finds in
   it, with what is not for him to decide shown too, what the dashboard of the team
   counts; and the claimant's dashboard agrees. *)
CountersAgree ==
  /\ \A viewer \in Viewers, listing \in {"personal", "all"} :
       LET list == listExpenses(viewer, listing)
       IN  /\ MapThenSumSet(LAMBDA s : getExpenseStatusCounts(viewer, listing, s), AllStatuses)
                = Cardinality(list)
           /\ needsAction(viewer, listing) = Cardinality({e \in list : e.status \in NEEDS_ACTION_STATUSES})
  /\ \A viewer \in Viewers : viewer.id = OwnerId /\ mayList(viewer, "personal") =>
       needsAction(viewer, "personal") = getActionBucket("DRAFT").count + getActionBucket("REJECTED").count
  /\ \A actable \in SUBSET Rows, viewer \in Viewers \cup {ManagerOf(unit) : unit \in FigureUnits} :
       LET summary == getPendingApprovalSummary(viewer, actable)
       IN  /\ Figure(findForApprovalExpenses(viewer, actable, TRUE, FALSE)) = summary.awaiting
           /\ Cardinality(findForApprovalExpenses(viewer, actable, TRUE, TRUE)) = summary.aging
  /\ \A unit \in FigureUnits, actable \in SUBSET Rows :
       /\ findForApprovalExpenses(ManagerOf(unit), actable, FALSE, FALSE) = pendingApprovals(unit)
       /\ findForApprovalExpenses(ManagerOf(unit), actable, FALSE, TRUE) = agingApprovals(unit)
       /\ findForApprovalExpenses(ManagerOf(unit), actable, TRUE, FALSE) \subseteq pendingApprovals(unit)
       /\ pendingApprovals(unit) \subseteq TeamOf(unit)

(* A cap the dashboard calls reached refuses every further claim of the month. *)
CapsAgree ==
  \A category \in ReachedCaps : \A kind \in {k \in ClaimKinds : k.category = category} :
    LET cap == [id |-> "cap", severity |-> "BLOCK", ruleType |-> "CATEGORY_MONTHLY_CAP",
                config |-> [category |-> category, capKobo |-> CategoryCaps[category]]]
        claim == [id |-> None, amount |-> kind.amount, category |-> category,
                  attachmentCount |-> 0, submittedAt |-> calendarDay]
        submitted == {[id |-> e.id, status |-> e.status, amount |-> e.amount, category |-> e.category,
                       submittedAt |-> e.submitted] : e \in {r \in Rows : r.submitted # Never}}
    IN  Policies!Violations({cap}, "BLOCK", claim, submitted) = {cap}

(* Three services compute their figures each with queries of its own; shown side
   by side they agree. *)
FiguresAgree ==
  /\ ReportsAddUp /\ DepartmentsAddUp /\ SeriesAddUp
  /\ PayoutsAgree /\ CountersAgree /\ CapsAgree

(* The same, asked for as soon as there is a row to compute them from. *)
FiguresAskedAgree == Rows # {} => FiguresAgree
=============================================================================
