----------------------------- MODULE MCServices -----------------------------
(***************************************************************************)
(* The services around the expense, which share no state in what is        *)
(* modelled of them.  A behaviour is that of one of them, service, while   *)
(* the others rest in their initial state.                                 *)
(***************************************************************************)
EXTENDS Accounts, Notifications, BudgetAlerts, Escalation, RoleAdministration,
        Delegation, PolicyEngine, RateLimiter, Staffing, Figures, TLC

VARIABLE service

MCTold == {<<"expense.pending_finance", "email">>, <<"expense.pending_finance", "inApp">>}
MCPreferenceSets == {{"inApp"}}

MCActorRoles ==
  [super_admin  |-> PERMISSION_SEEDS,
   people_admin |-> UNION {ROLE_TEMPLATES.platform_admin, Of("expense", {"read"}, "self"),
                           Of("budget", {"read"}, "self")}]
MCWantedSets ==
  {Of("expense", {"read"}, "global"),
   Of("expense", {"read"}, "self") \cup Of("budget", {"read"}, "self"),
   Of("expense", {"submit"}, "self") \cup Of("approval", {"reject"}, "global"),
   Of("approval", {"approve"}, "global")}

Person(id, role, permissions, managed) ==
  [id |-> id, role |-> role, permissions |-> permissions, managedDepartmentIds |-> managed]
MCPeople ==
  {Person("mia", "staff", STAFF_PERMISSIONS, {}),
   Person("ada", "auditor", Of("approval", {"reject"}, "global"), {}),
   Person("sam", "staff", STAFF_PERMISSIONS, {})}
MCFiledExpenses ==
  {[userId |-> "mia", departmentId |-> 1, ownerDepartmentId |-> 1, amount |-> 3],
   [userId |-> "sam", departmentId |-> 1, ownerDepartmentId |-> 2, amount |-> 3],
   [userId |-> "sam", departmentId |-> 0, ownerDepartmentId |-> 2, amount |-> 3]}
Level(place, approverType, minimum) ==
  [level |-> place, approverType |-> approverType, isActive |-> TRUE,
   minimumAmount |-> minimum, maximumAmount |-> NoMaximum]
(* The manager and finance; finance before the manager; finance alone, as the
   manager is asked for larger amounts; the manager alone. *)
MCLevelTables ==
  {<<Level(1, "DEPARTMENT_MANAGER", 0), Level(2, "FINANCE_MANAGER", 0)>>,
   <<Level(1, "DEPARTMENT_MANAGER", 0), Level(0, "FINANCE_MANAGER", 0)>>,
   <<Level(1, "DEPARTMENT_MANAGER", 5), Level(2, "FINANCE_MANAGER", 0)>>,
   <<Level(1, "DEPARTMENT_MANAGER", 0), NoLevel>>}
MCManagerTables == {<<head, "ada">> : head \in {"mia", "sam"}}

MCPolicyChoices ==
  {[id |-> "cap", severity |-> "BLOCK", ruleType |-> "CATEGORY_MONTHLY_CAP",
    config |-> [category |-> "travel", capKobo |-> 2]],
   [id |-> "dup", severity |-> "BLOCK", ruleType |-> "DUPLICATE_DETECTION",
    config |-> [windowDays |-> 1]]}

MCRateLimits == [global |-> 2, endpoint |-> 1]
MCFailClosed == [global |-> FALSE, endpoint |-> TRUE]

(* The first days of March and of April. *)
MCCalendarDays == {434, 465}
MCClaimKinds == {[amount |-> 2, category |-> "travel"], [amount |-> 1, category |-> "meals"]}
MCCategoryCaps == [travel |-> 2, meals |-> 2]
MCViewers ==
  {Person("owner", "staff", STAFF_PERMISSIONS, {}),
   Person("mia", "staff", STAFF_PERMISSIONS, {1}),
   Person("fay", "finance_manager", ROLE_TEMPLATES.finance_manager, {})}

(* What the templates give is coherent: whoever may change or submit a draft, or
   take back its receipts, may read it, and whoever pays may read what is approved. *)
MCTemplateUsers == {Person("owner", role, ROLE_TEMPLATES[role], {}) : role \in DOMAIN ROLE_TEMPLATES}
MCDraft == [userId |-> "owner", departmentId |-> 1, ownerDepartmentId |-> 1, status |-> "DRAFT"]
ASSUME TemplatesAreCoherent ==
  \A u \in MCTemplateUsers :
    /\ \A action \in {"update", "delete", "submit"} :
         /\ canMutateExpenseDraft(u, MCDraft, action) /\ hasPermission(u, action, "expense", None)
         => canReadExpense(u, MCDraft) /\ canManageReceiptOnExpense(u, MCDraft) /\ mayList(u, "personal")
    /\ canReimburse(u) =>
         canReadExpense(u, [MCDraft EXCEPT !.status = "APPROVED", !.userId = "other"])
    /\ ~hasConflict(u.permissions) /\ canAssignRole(u, u.role)

(* What the figures rest on whatever the rows are. *)
ASSUME CalendarsAgree == PeriodsAreAdjacent /\ BucketsAgree

Services == {"accounts", "notifications", "alerts", "escalation", "roles",
             "delegations", "policies", "limiter", "staffing", "figures"}

(* A service that rests has one initial state. *)
Rests(s, fixed) == service # s => fixed

Init ==
  /\ service \in Services
  /\ InitAccounts
  /\ service = "accounts" <=> codes["verify"] # {}
  /\ InitNotifications
  /\ staff.manager = {}          \* nobody told of MCTold is told as a manager
  /\ staff.finance = Addressees => hasRow = Addressees /\ configured   \* the rest with one of them
  /\ Rests("notifications", staff.finance = {} /\ hasRow = {} /\ configured)
  /\ InitAlerts /\ InitEscalation
  /\ InitRoles
  /\ Rests("roles", actorRole = [a \in Administrators |-> "super_admin"])
  /\ InitDelegations
  /\ Rests("delegations", /\ awaiting.userId = "mia"
                          /\ manager[1] = "mia" /\ levels[2] = NoLevel)
  /\ InitPolicies
  /\ Rests("policies", policyRows = {})
  /\ InitLimiter /\ InitStaffing
  /\ InitFigures
  /\ service = "figures" <=> ownersUnit # None

(* Next, of the services that rest. *)
Resting(s) ==
  /\ s # "accounts" => UNCHANGED accountVars
  /\ s # "notifications" => UNCHANGED noticeVars
  /\ s # "alerts" => UNCHANGED alertVars
  /\ s # "escalation" => UNCHANGED escalationVars
  /\ s # "roles" => UNCHANGED roleVars
  /\ s # "delegations" => UNCHANGED delegationVars
  /\ s # "policies" => UNCHANGED policyVars
  /\ s # "limiter" => UNCHANGED rateVars
  /\ s # "staffing" => UNCHANGED staffingVars
  /\ s # "figures" => UNCHANGED figureVars

Next ==
  /\ UNCHANGED service /\ Resting(service)
  /\ \/ service = "accounts" /\ StepAccounts
     \/ service = "notifications" /\ StepNotifications
     \/ service = "alerts" /\ StepAlerts
     \/ service = "escalation" /\ StepEscalation
     \/ service = "roles" /\ StepRoles
     \/ service = "delegations" /\ StepDelegations
     \/ service = "policies" /\ StepPolicies
     \/ service = "limiter" /\ StepLimiter
     \/ service = "staffing" /\ StepStaffing
     \/ service = "figures" /\ StepFigures

serviceVars == <<service, accountVars, noticeVars, alertVars, escalationVars, roleVars,
                 delegationVars, policyVars, rateVars, staffingVars, figureVars>>
Spec == Init /\ [][Next]_serviceVars

(* The same two values stand for the requests of every service, and for its
   users; two others for codes and departments. *)
Interchangeable == Permutations(Handlers) \cup Permutations(Codes)
=============================================================================
