------------------------------ MODULE AccessRules ------------------------------
(***************************************************************************)
(* The pure rules of authorization: the permission catalogue, what a stored *)
(* permission grants, the guard in front of every route, the capabilities  *)
(* shown to the front end, and the policies the services ask about one     *)
(* expense.  A permission is its unique action, resource and scope; a user *)
(* is what the auth context holds of him.                                  *)
(***************************************************************************)
EXTENDS FiniteSets

None == "none"
Of(resource, actions, scope) ==
  [action : actions, resource : {resource}, scope : {scope}]

(* PERMISSION_SEEDS.  dashboard.read.team is commented out. *)
ExpenseAndReceiptSeeds ==
  UNION {Of("expense", {"create", "read", "update", "delete", "submit"}, "self"),
         Of("expense", {"read", "reimburse"}, "global"),
         Of("receipt", {"create", "read", "delete"}, "self"),
         Of("receipt", {"read"}, "global")}
ApprovalAndBudgetSeeds ==
  UNION {Of("approval", {"approve", "reject"}, "global"),
         Of("approval_level", {"create", "read", "update", "delete"}, "global"),
         Of("budget", {"create", "read", "update"}, "global"),
         Of("budget", {"read"}, "self"),
         Of("report", {"read", "export"}, "global")}
DirectorySeeds ==
  UNION {Of("department", {"create", "read", "update", "delete"}, "global"),
         Of("role", {"create", "read", "update", "delete"}, "global")}
AdministrationSeeds ==
  UNION {Of("notification", {"read", "update", "mark"}, "self"),
         Of("dashboard", {"read"}, "self"),
         Of("policy", {"create", "read", "update", "delete"}, "global"),
         Of("audit", {"read"}, "global"),
         Of("user", {"read", "update"}, "global")}
PERMISSION_SEEDS ==
  UNION {ExpenseAndReceiptSeeds, ApprovalAndBudgetSeeds, DirectorySeeds, AdministrationSeeds}

Notices == Of("notification", {"read", "update", "mark"}, "self")
OwnDashboard == Of("dashboard", {"read"}, "self")

(* ROLE_TEMPLATES *)
STAFF_PERMISSIONS ==
  UNION {Of("expense", {"create", "read", "update", "delete", "submit"}, "self"),
         Of("receipt", {"create", "read", "delete"}, "self"), Notices, OwnDashboard}
ROLE_TEMPLATES ==
  [staff |-> STAFF_PERMISSIONS,
   hr_admin |->
     UNION {Notices, OwnDashboard, Of("user", {"read", "update"}, "global"),
            Of("department", {"create", "read", "update"}, "global")},
   finance_manager |->
     UNION {Notices, Of("approval", {"approve", "reject"}, "global"),
            Of("expense", {"read", "reimburse"}, "global"),
            Of("receipt", {"read"}, "global"),
            Of("report", {"read", "export"}, "global"),
            Of("budget", {"read"}, "global"), Of("audit", {"read"}, "global"),
            Of("policy", {"create", "read", "update", "delete"}, "global")},
   platform_admin |->
     UNION {Notices, OwnDashboard,
            Of("role", {"create", "read", "update", "delete"}, "global"),
            Of("approval_level", {"create", "read", "update", "delete"}, "global"),
            Of("audit", {"read"}, "global")}]

(* permissionScopeAllows *)
permissionScopeAllows(p, action, resource) ==
  CASE resource = "approval" /\ action \in
         {"approve", "reject", "create", "read", "update", "delete"} ->
         p.scope = "global"
    [] resource = "notification" /\ action \in {"read", "update", "mark"} ->
         p.scope = "self"
    [] resource = "budget" -> action = "read" \/ p.scope = "global"
    [] resource \in {"report", "approval_level", "department", "role", "user",
                     "policy", "audit"} -> p.scope = "global"
    [] OTHER -> TRUE

(* permissionGrants; scope None is a question that names no scope. *)
permissionGrants(p, action, resource, scope) ==
  IF p.action = "manage" /\ p.resource \in {"all", resource}
    THEN scope \in {None, p.scope}
    ELSE /\ p.action \in {"manage", action} /\ p.resource \in {"all", resource}
         /\ scope \in {None, p.scope}
         /\ ~(scope = None /\ resource = "budget" /\ action = "read" /\ p.scope = "self")
         /\ permissionScopeAllows(p, action, resource)

hasPermission(u, action, resource, scope) ==
  \/ u.role = "super_admin"
  \/ \E p \in u.permissions : permissionGrants(p, action, resource, scope)
canManageAll(u) == hasPermission(u, "manage", "all", None)

(* AbilityFactory and AppAbility: the guard has no exception for super
   administrators, it relies on the permissions of their role. *)
isManagerApprover(u) == u.managedDepartmentIds # {}
can(u, action, resource) ==
  \/ isManagerApprover(u) /\ action \in {"approve", "reject"} /\ resource = "approval"
  \/ \E p \in u.permissions : permissionGrants(p, action, resource, None)

(* ApprovalAccessPolicy.  An expense is [userId, departmentId, ownerDepartmentId,
   status]; 0 is no department.  A stage is [approverType, roleId]. *)
hasGlobalApprovalPermission(u) ==
  \E action \in {"approve", "reject"} : hasPermission(u, action, "approval", "global")
canDecideOnApproval(u) == hasGlobalApprovalPermission(u) \/ isManagerApprover(u)

resolveExpenseDepartmentId(e) ==
  IF e.departmentId # 0 THEN e.departmentId ELSE e.ownerDepartmentId
isDepartmentManagerForExpense(u, e) ==
  /\ resolveExpenseDepartmentId(e) # 0
  /\ resolveExpenseDepartmentId(e) \in u.managedDepartmentIds
canDecideOnExpense(u, e) ==
  hasGlobalApprovalPermission(u) \/ isDepartmentManagerForExpense(u, e)

canActOnApprovalStage(u, e, stage) ==
  /\ canDecideOnExpense(u, e)
  /\ CASE stage.approverType = "DEPARTMENT_MANAGER" -> isDepartmentManagerForExpense(u, e)
       [] stage.approverType = "FINANCE_MANAGER" -> hasGlobalApprovalPermission(u)
       [] OTHER -> stage.roleId # None /\ stage.roleId = u.role

(* assertCanDecideOnExpense *)
mayDecideOnExpense(u, e) == e.userId # u.id /\ canDecideOnExpense(u, e)

(* ExpenseAccessPolicy *)
Pending == {"SUBMITTED", "UNDER_REVIEW"}
canReadDraft(u, e) ==
  /\ e.userId = u.id
  /\ \/ \E scope \in {"self", "global"} : hasPermission(u, "read", "expense", scope)
     \/ canManageAll(u)
canReadPending(u, e) == e.status \in Pending /\ canDecideOnExpense(u, e)
canReadExpense(u, e) ==
  IF e.status = "DRAFT" THEN canReadDraft(u, e)
  ELSE \/ hasPermission(u, "read", "expense", "global")
       \/ IF e.userId = u.id THEN hasPermission(u, "read", "expense", "self")
          ELSE \/ canReadPending(u, e)
               \/ /\ e.status = "UNDER_REVIEW"
                  /\ hasPermission(u, "reimburse", "expense", "global")

(* canAccessScopedSubject *)
canMutateExpenseDraft(u, e, action) ==
  IF action = "submit" THEN e.userId = u.id
  ELSE \/ canManageAll(u)
       \/ hasPermission(u, action, "expense", "global")
       \/ hasPermission(u, action, "expense", "self") /\ e.userId = u.id
canManageReceiptOnExpense(u, e) == e.userId = u.id \/ canManageAll(u)
canReimburse(u) == hasPermission(u, "reimburse", "expense", None)

(* expenseListVisibility *)
expenseListVisibility(u) ==
  IF hasPermission(u, "read", "expense", "global") THEN "all"
  ELSE IF canDecideOnApproval(u) THEN "own-and-submitted" ELSE "own"

(* The listings of the expense controller and what each asks for. *)
mayList(u, listing) ==
  CASE listing = "personal" ->
         \/ \E scope \in {"self", "global"} : hasPermission(u, "read", "expense", scope)
         \/ canManageAll(u)
    [] listing = "all" -> hasPermission(u, "read", "expense", "global") \/ canManageAll(u)
    [] listing = "approval" -> canDecideOnApproval(u)
    [] listing = "payroll" -> canReimburse(u)

(* Separation of duties, and what an actor may put into a role. *)
SEPARATION_OF_DUTIES_CONFLICTS == {<<"submit", "approve">>, <<"submit", "reject">>}
Holds(permissions, resource, action) ==
  \E p \in permissions : p.resource = resource /\ p.action = action
hasConflictFirstOnly(permissions) ==
  Holds(permissions, "expense", "submit") /\ Holds(permissions, "approval", "approve")
hasConflict(permissions) ==
  \E pair \in SEPARATION_OF_DUTIES_CONFLICTS :
    Holds(permissions, "expense", pair[1]) /\ Holds(permissions, "approval", pair[2])
canAssignUnscoped(actor, p) == hasPermission(actor, p.action, p.resource, None)
canAssign(actor, p) == hasPermission(actor, p.action, p.resource, p.scope)
canAssignPermissions(actor, permissions) ==
  (\A p \in permissions : canAssign(actor, p)) /\ ~hasConflict(permissions)
canAssignRole(actor, role) == role = "super_admin" => actor.role = "super_admin"
=============================================================================
