----------------------------- MODULE AccessRoutes -----------------------------
(***************************************************************************)
(* The routes of every controller with the policy their decorators attach  *)
(* to them, the guard that evaluates it, and the capability keys the front *)
(* end is given to decide what to offer.  A route is its handler and the   *)
(* resource and action pairs of which one must be granted; a handler whose *)
(* pairs are empty is open to every user with a role, or asks for a        *)
(* managed department.                                                     *)
(***************************************************************************)
EXTENDS AccessRules

Route(handlers, any) == [handler : handlers, any : {any}, kind : {"policy"}]
Require(action, resource, handlers) == Route(handlers, {<<resource, action>>})
Open(kind, handlers) == [handler : handlers, any : {{}}, kind : {kind}]

ExpenseCollectionRoutes ==
  UNION {Require("create", "expense", {"create", "getPolicyHints", "checkDuplicate"}),
         Require("read", "expense", {"findPersonal", "getPersonalStatusCounts",
           "exportPersonalCsv", "findAll", "getAllStatusCounts", "exportAllCsv"}),
         Require("reimburse", "expense", {"getFinanceQueueSummary"})}
ExpenseQueueRoutes ==
  UNION {Require("reimburse", "expense", {"exportPayrollCsv", "bulkReimburse"}),
         Route({"getPendingApprovalSummary", "findForApproval"},
               {<<"approval", "approve">>, <<"approval", "reject">>}),
         Require("read", "expense", {"findOne", "listComments"}),
         Require("update", "expense", {"update"}),
         Require("create", "expense", {"addComment"})}
ExpenseItemRoutes ==
  UNION {Require("read", "expense", {"listPolicyExceptions", "getActivity"}),
         Require("update", "expense", {"reopenRejected"}),
         Require("submit", "expense", {"checkSubmitPolicies", "submit"}),
         Require("reimburse", "expense", {"reimburse"}),
         Require("delete", "expense", {"remove"})}
ReceiptRoutes ==
  UNION {Require("create", "receipt", {"uploadReceipt"}),
         Require("read", "receipt", {"list", "viewByObjectKey", "download"}),
         Require("delete", "receipt", {"remove"})}
ApprovalRoutes ==
  UNION {Require("approve", "approval", {"bulkApprove", "approve"}),
         Require("reject", "approval", {"bulkReject", "reject"})}
DelegationRoutes ==
  Route({"create", "findMine", "findDelegatedToMe", "revoke"},
        {<<"approval", "approve">>, <<"approval", "reject">>})
ApprovalLevelRoutes ==
  UNION {Require("create", "approval_level", {"create"}),
         Require("read", "approval_level",
           {"findAll", "workflowHealth", "exportCsv", "impact"}),
         Require("update", "approval_level", {"update"}),
         Require("delete", "approval_level", {"remove"})}
BudgetRoutes ==
  UNION {Require("create", "budget", {"create"}),
         Require("read", "budget", {"findAll", "organizationSummary",
           "committedByDepartment", "organizationForecast", "exportCsv"}),
         Require("update", "budget", {"update"})}
OwnBudgetRoute ==
  Route({"mySummary"}, {<<"budget", "read">>, <<"dashboard", "read">>})
DepartmentRoutes ==
  UNION {Require("create", "department", {"create"}),
         Require("read", "department", {"findAll", "exportCsv"})}
ManagedDepartmentRoutes ==
  Open("managed", {"findManaged", "managedTeamDashboard", "managedSummary",
    "managedBudgetSummary", "managedBudgetForecast", "findManagedManagerHistory",
    "findManagedUsers", "findOneManaged"})
DepartmentItemRoutes ==
  UNION {Require("read", "budget", {"budgetSummary", "budgetForecast"}),
         Require("read", "department", {"findManagerHistory", "findUsers",
           "teamDashboard", "getSummary", "findOne"}),
         Require("update", "department", {"update"}),
         Require("delete", "department", {"remove"})}
RoleRoutes ==
  UNION {Require("read", "role",
           {"permissions", "templates", "findAll", "findOne"}),
         Require("create", "role", {"create"}),
         Require("update", "role", {"applyTemplate", "setPermissions", "update"}),
         Require("delete", "role", {"remove"})}
UserRoutes ==
  UNION {Open("authenticated", {"getMe", "updateMe", "changePassword"}),
         Require("read", "user", {"findAll", "statusCounts", "exportCsv", "getSummary"}),
         Require("update", "user", {"adminUpdate"})}
AuthorizationRoutes ==
  UNION {Open("authenticated", {"myAuthorization"}),
         Route({"accessReview", "exportAccessReview"},
               {<<"role", "read">>, <<"user", "read">>, <<"audit", "read">>})}
SsoRoutes == Open("public", {"getSsoStatus", "startSso", "ssoCallback", "exchangeSso"})
SignUpRoutes ==
  UNION {Open("public", {"signUp", "confirmEmailVerification", "signIn"}),
         Open("authenticated", {"resendEmailVerification"})}
TokenRoutes ==
  UNION {Open("public", {"refreshTokens", "createPasswordReset", "validatePasswordReset",
           "confirmPasswordReset"}),
         Open("authenticated", {"signOut"})}
PolicyRoutes ==
  UNION {Require("create", "policy", {"create"}),
         Require("read", "policy", {"findAll"}),
         Require("update", "policy", {"update"}),
         Require("delete", "policy", {"remove"})}
PolicyCatalogRoutes ==
  UNION {Require("create", "policy", {"createField", "createTemplate"}),
         Require("read", "policy", {"getCatalog", "listFields", "listTemplates"}),
         Require("update", "policy", {"updateField", "updateTemplate"}),
         Require("delete", "policy", {"removeField", "removeTemplate"})}
NotificationRoutes ==
  UNION {Require("read", "notification", {"getPreferences", "list", "unreadCount"}),
         Require("update", "notification", {"updatePreferences"}),
         Require("mark", "notification", {"markAllRead", "markRead"})}
ReportRoutes ==
  UNION {Require("read", "report", {"getSpendingSummary", "getSpendingByMonth",
           "getSpendingByCategory", "getSpendingByDepartment"}),
         Require("export", "report", {"exportExpensesExcel", "exportSpendingPdf"})}
DashboardRoutes == Require("read", "dashboard", {"getPersonal", "exportPersonal"})
AuditRoutes == Require("read", "audit", {"findAll", "findForResource"})

Routes ==
  UNION {ExpenseCollectionRoutes, ExpenseQueueRoutes, ExpenseItemRoutes, ReceiptRoutes,
         ApprovalRoutes, DelegationRoutes, ApprovalLevelRoutes, BudgetRoutes,
         OwnBudgetRoute, DepartmentRoutes, ManagedDepartmentRoutes,
         DepartmentItemRoutes, RoleRoutes, UserRoutes, AuthorizationRoutes, SsoRoutes,
         SignUpRoutes, TokenRoutes, PolicyRoutes, PolicyCatalogRoutes, NotificationRoutes, ReportRoutes,
         DashboardRoutes, AuditRoutes}

Guarded == {route \in Routes : route.kind = "policy"}

(* AccessGuard.canActivate for a request whose token was accepted. *)
canActivate(u, route) ==
  \/ route.kind = "public"
  \/ /\ u.role # None
     /\ CASE route.kind = "authenticated" -> TRUE
          [] route.kind = "managed" -> isManagerApprover(u)
          [] OTHER -> \E pair \in route.any : can(u, pair[2], pair[1])

(* capabilitiesForPermission; a key resource:action[:qualifier] is a tuple. *)
ReadCapabilityAlways(p) == {<<p.resource, p.action>>}
ReadCapability(p) ==
  IF p.resource = "budget" /\ p.action = "read" /\ p.scope = "self"
    THEN {} ELSE {<<p.resource, p.action>>}
ApprovalCapabilities(p) ==
  {<<"expense", "read", "submitted">>, <<"approval", "approve">>,
   <<"approval", "reject">>, <<"approval", "read">>}
    \cup (IF p.scope = "global" THEN {<<"approval", "approve", "global">>,
                                     <<"approval", "reject", "global">>} ELSE {})
QualifiedCapabilities(p) ==
  UNION {IF p.scope = "self" THEN {<<p.resource, p.action, "own">>} ELSE {},
         IF p.resource = "expense" /\ p.action = "read" /\ p.scope = "global"
           THEN {<<"expense", "read", "company">>} ELSE {},
         IF p.resource = "dashboard" /\ p.action = "read" /\ p.scope = "global"
           THEN {<<"dashboard", "read", "team">>} ELSE {},
         IF p.resource = "receipt" /\ p.action = "create"
           THEN {<<"receipt", "upload">>} ELSE {},
         IF p.resource = "receipt" /\ p.action = "read" /\ p.scope = "global"
           THEN {<<"receipt", "read", "all">>} ELSE {}}
capabilitiesForPermission(p) ==
  UNION {ReadCapability(p), QualifiedCapabilities(p),
         IF p.resource = "approval" /\ p.action \in {"approve", "reject"}
           THEN ApprovalCapabilities(p) ELSE {}}

(* capabilitiesForOrgGrants *)
capabilitiesForOrgGrants(u) ==
  IF ~isManagerApprover(u) THEN {}
  ELSE {<<"approval", "approve">>, <<"approval", "reject">>,
        <<"approval", "approve", "department">>, <<"approval", "reject", "department">>,
        <<"approval", "read">>, <<"expense", "read", "submitted">>,
        <<"department", "read", "managed">>, <<"dashboard", "read", "team">>}

(* capabilitiesFromAuthContext *)
capabilitiesFromAuthContext(u) ==
  capabilitiesForOrgGrants(u) \cup
  IF u.role = "super_admin" THEN {<<"*">>}
  ELSE UNION {capabilitiesForPermission(p) : p \in u.permissions}
=============================================================================
