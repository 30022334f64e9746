--------------------------- MODULE DirectoryProofs ---------------------------
(***************************************************************************)
(* Theorems about people and what they are responsible for: what roles may *)
(* hold, what the approval queue shows, and that a department no two       *)
(* requests fought over keeps its books and never loses a manager someone  *)
(* waits for; for any number of administrators, users, departments,        *)
(* delegations and requests under way.                                     *)
(***************************************************************************)
EXTENDS RoleAdministration, Delegation, Staffing, TLAPS

-----------------------------------------------------------------------------
(* Roles.                                                                  *)

Steps == {"idle", "read", "remove", "add", "save"}
Assignments == [step : Steps, wanted : SUBSET PERMISSION_SEEDS, existing : SUBSET PERMISSION_SEEDS]

RoleTypeOK ==
  /\ actorRole \in [Administrators -> DOMAIN ActorRoles]
  /\ roleRow \in {"absent", "live", "removed"}
  /\ rolePermissions \in SUBSET PERMISSION_SEEDS
  /\ assignment \in [Administrators -> Assignments]
  /\ givers \in SUBSET Administrators
  /\ overlapped \in BOOLEAN

\* Someone whose assignment was written holds p.
Given(p) == \E a \in givers : canAssign(Actor(a), p)

\* What the role holds was given by someone who holds it, and so was what a
\* request has read and may write back; what it will add, it was allowed to.
GivenByHolders ==
  /\ \A p \in rolePermissions : Given(p)
  /\ \A a \in Administrators :
       /\ \A p \in assignment[a].existing : Given(p)
       /\ assignment[a].step \in {"remove", "add"} =>
            \A p \in assignment[a].wanted : canAssign(Actor(a), p)

IsWriting(a) == assignment[a].step \in {"remove", "add", "save"}

\* As long as no two requests wrote at once, the only writer knows what is stored.
WriterIsAlone ==
  ~overlapped =>
    /\ \A a, b \in Administrators : IsWriting(a) /\ IsWriting(b) => a = b
    /\ ~hasConflict(rolePermissions)
    /\ \A a \in Administrators :
         /\ assignment[a].step \in {"remove", "save"} =>
              assignment[a].existing = rolePermissions
         /\ assignment[a].step = "add" => rolePermissions = {}
         /\ assignment[a].step \in {"remove", "add"} => ~hasConflict(assignment[a].wanted)

RoleInv == RoleTypeOK /\ GivenByHolders /\ WriterIsAlone

(* The catalogue holds no permission to manage, and every scope is own or global. *)
LEMMA SeedsArePlain ==
  \A p \in PERMISSION_SEEDS : p.action # "manage" /\ p.scope \in {"self", "global"}
<1>1. \A p \in ExpenseAndReceiptSeeds : p.action # "manage" /\ p.scope \in {"self", "global"}
  BY DEF ExpenseAndReceiptSeeds, Of
<1>2. \A p \in ApprovalAndBudgetSeeds : p.action # "manage" /\ p.scope \in {"self", "global"}
  BY DEF ApprovalAndBudgetSeeds, Of
<1>3. \A p \in DirectorySeeds : p.action # "manage" /\ p.scope \in {"self", "global"}
  BY DEF DirectorySeeds, Of
<1>4. \A p \in AdministrationSeeds : p.action # "manage" /\ p.scope \in {"self", "global"}
  BY DEF AdministrationSeeds, Of
<1> QED
  BY <1>1, <1>2, <1>3, <1>4 DEF PERMISSION_SEEDS

(* Every template is made of permissions of the catalogue. *)
LEMMA TemplatesAreSeeds ==
  \A key \in DOMAIN ROLE_TEMPLATES : ROLE_TEMPLATES[key] \in SUBSET PERMISSION_SEEDS
<1> DEFINE Seeds == PERMISSION_SEEDS
<1>1. STAFF_PERMISSIONS \subseteq Seeds
  BY DEF STAFF_PERMISSIONS, Notices, OwnDashboard, Of, PERMISSION_SEEDS, ExpenseAndReceiptSeeds,
         AdministrationSeeds
<1>2. ROLE_TEMPLATES.hr_admin \subseteq Seeds
  BY DEF ROLE_TEMPLATES, Notices, OwnDashboard, Of, PERMISSION_SEEDS, DirectorySeeds,
         AdministrationSeeds
<1>3. ROLE_TEMPLATES.finance_manager \subseteq Seeds
  BY DEF ROLE_TEMPLATES, Notices, Of, PERMISSION_SEEDS, ExpenseAndReceiptSeeds,
         ApprovalAndBudgetSeeds, AdministrationSeeds
<1>4. ROLE_TEMPLATES.platform_admin \subseteq Seeds
  BY DEF ROLE_TEMPLATES, Notices, OwnDashboard, Of, PERMISSION_SEEDS, ApprovalAndBudgetSeeds,
         DirectorySeeds, AdministrationSeeds
<1>5. DOMAIN ROLE_TEMPLATES = {"staff", "hr_admin", "finance_manager", "platform_admin"}
  BY DEF ROLE_TEMPLATES
<1>6. ROLE_TEMPLATES["staff"] = STAFF_PERMISSIONS
  BY DEF ROLE_TEMPLATES
<1> HIDE DEF Seeds
<1>7. \A key \in DOMAIN ROLE_TEMPLATES : ROLE_TEMPLATES[key] \subseteq Seeds
  BY <1>1, <1>2, <1>3, <1>4, <1>5, <1>6
<1> QED
  BY <1>7 DEF Seeds

(* What a permission of the catalogue allows, whoever may assign it may do. *)
LEMMA WhoAssignsMay ==
  ASSUME NEW u, NEW q \in PERMISSION_SEEDS, canAssign(u, q),
         NEW action, NEW resource, NEW scope \in {None, "self", "global"},
         permissionGrants(q, action, resource, scope)
  PROVE  hasPermission(u, action, resource, scope)
<1>1. q.action # "manage" /\ q.scope \in {"self", "global"} /\ q.scope # None
  BY SeedsArePlain DEF None
<1>2. CASE u.role = "super_admin"
  BY <1>2 DEF hasPermission
<1>3. CASE u.role # "super_admin"
  <2>1. PICK r \in u.permissions : permissionGrants(r, q.action, q.resource, q.scope)
    BY <1>3 DEF canAssign, hasPermission
  <2>2. q.action = action /\ scope \in {None, q.scope} /\ q.resource \in {"all", resource}
    BY <1>1 DEF permissionGrants
  <2>3. r.scope = q.scope
    BY <2>1, <1>1 DEF permissionGrants
  <2>4. permissionScopeAllows(q, action, resource)
        /\ ~(scope = None /\ resource = "budget" /\ action = "read" /\ q.scope = "self")
    BY <1>1 DEF permissionGrants
  <2>5. permissionScopeAllows(r, action, resource)
    BY <2>3, <2>4 DEF permissionScopeAllows
  <2>6. r.action \in {"manage", action} /\ r.resource \in {"all", q.resource}
    BY <2>1, <2>2 DEF permissionGrants
  <2>7. r.resource \in {"all", resource}
    BY <2>2, <2>6
  <2>8. permissionGrants(r, action, resource, scope)
    BY <2>2, <2>3, <2>4, <2>5, <2>6, <2>7 DEF permissionGrants
  <2> QED
    BY <2>8 DEF hasPermission
<1> QED
  BY <1>2, <1>3

LEMMA RolesInit == InitRoles => RoleInv
<1> SUFFICES ASSUME InitRoles PROVE RoleInv
  OBVIOUS
<1>1. RoleTypeOK
  BY DEF InitRoles, RoleTypeOK, Assignments, Steps, NoAssignment
<1>2. GivenByHolders
  BY DEF InitRoles, GivenByHolders, NoAssignment
<1>3. WriterIsAlone
  BY DEF InitRoles, WriterIsAlone, IsWriting, NoAssignment, hasConflict, Holds
<1> QED
  BY <1>1, <1>2, <1>3 DEF RoleInv

(* Requests that leave the permissions alone keep what was given, given. *)
LEMMA StillGiven ==
  ASSUME actorRole' = actorRole, givers \subseteq givers', NEW p, Given(p)
  PROVE  Given(p)'
<1>1. \A a : Actor(a)' = Actor(a)
  BY DEF Actor
<1> QED
  BY <1>1 DEF Given, canAssign, hasPermission
LEMMA StartingRequests ==
  ASSUME RoleInv, NEW a \in Administrators, CreateRole(a) \/ RequestPermissions(a)
  PROVE  RoleInv'
<1>1. PICK wanted \in SUBSET PERMISSION_SEEDS :
        \/ assignment' = assignment
        \/ assignment' = [assignment EXCEPT ![a] =
             [step |-> "read", wanted |-> wanted, existing |-> {}]]
  BY TemplatesAreSeeds, WantedSetsAssumption DEF CreateRole, RequestPermissions
<1>2. UNCHANGED <<actorRole, rolePermissions, givers, overlapped>> /\ roleRow' \in {roleRow, "live"}
  BY DEF CreateRole, RequestPermissions
<1>3. \A b \in Administrators :
        \/ assignment'[b] = assignment[b]
        \/ assignment'[b] = [step |-> "read", wanted |-> wanted, existing |-> {}]
  BY <1>1 DEF RoleInv, RoleTypeOK
<1>4. RoleTypeOK'
  BY <1>1, <1>2 DEF RoleInv, RoleTypeOK, Assignments, Steps
<1>5. \A p : Given(p) => Given(p)'
  BY <1>2, StillGiven
<1>6. \A b : Actor(b)' = Actor(b)
  BY <1>2 DEF Actor
<1>7. GivenByHolders'
  BY <1>2, <1>3, <1>5, <1>6 DEF RoleInv, GivenByHolders, canAssign, hasPermission
<1>8. WriterIsAlone'
  BY <1>2, <1>3 DEF RoleInv, WriterIsAlone, IsWriting
<1> QED
  BY <1>4, <1>7, <1>8 DEF RoleInv

(* A request that reads while another one writes is marked as overlapping. *)
LEMMA ReadingRequests ==
  ASSUME RoleInv, NEW a \in Administrators, ReadRole(a) \/ RequestUpdate(a)
  PROVE  RoleInv'
<1> DEFINE Removing == [step |-> "remove", wanted |-> assignment[a].wanted,
                        existing |-> rolePermissions]
           Saving == [step |-> "save", wanted |-> {}, existing |-> rolePermissions]
<1>1. /\ UNCHANGED <<actorRole, roleRow, rolePermissions, givers>>
      /\ overlapped' = (overlapped \/ OthersWriting(a))
      /\ ~IsWriting(a)
  BY DEF ReadRole, RequestUpdate, IsWriting
<1>2. \/ assignment' = [assignment EXCEPT ![a] = NoAssignment]
      \/ /\ assignment' = [assignment EXCEPT ![a] = Removing]
         /\ canAssignPermissions(Actor(a), assignment[a].wanted)
      \/ assignment' = [assignment EXCEPT ![a] = Saving]
  BY DEF ReadRole, RequestUpdate
<1>3. assignment[a] \in Assignments /\ rolePermissions \in SUBSET PERMISSION_SEEDS
  BY DEF RoleInv, RoleTypeOK
<1>4. /\ Removing.step = "remove" /\ Removing.existing = rolePermissions
      /\ Removing.wanted = assignment[a].wanted
      /\ {NoAssignment, Removing, Saving} \subseteq Assignments
  BY <1>3 DEF Assignments, Steps, NoAssignment
<1> HIDE DEF Removing
<1>5. /\ \A b \in Administrators \ {a} : assignment'[b] = assignment[b]
      /\ \/ assignment'[a] = NoAssignment
         \/ assignment'[a] = Removing /\ canAssignPermissions(Actor(a), assignment[a].wanted)
         \/ assignment'[a] = Saving
  BY <1>2 DEF RoleInv, RoleTypeOK
<1>6. RoleTypeOK'
  BY <1>1, <1>2, <1>4 DEF RoleInv, RoleTypeOK
<1>7. \A p : Given(p) => Given(p)'
  BY <1>1, StillGiven
<1>8. \A b, p : canAssign(Actor(b), p)' <=> canAssign(Actor(b), p)
  BY <1>1 DEF Actor, canAssign, hasPermission
<1>9. GivenByHolders'
  <2>1. \A p \in rolePermissions' : Given(p)'
    BY <1>1, <1>7 DEF RoleInv, GivenByHolders
  <2>2. ASSUME NEW b \in Administrators PROVE \A p \in assignment'[b].existing : Given(p)'
    BY <1>4, <1>5, <1>7 DEF RoleInv, GivenByHolders, NoAssignment
  <2>3. ASSUME NEW b \in Administrators, assignment'[b].step \in {"remove", "add"}
        PROVE  \A p \in assignment'[b].wanted : canAssign(Actor(b), p)'
    BY <1>4, <1>5, <1>8, <2>3 DEF RoleInv, GivenByHolders, NoAssignment, canAssignPermissions
  <2> QED
    BY <2>1, <2>2, <2>3 DEF GivenByHolders
<1>10. WriterIsAlone'
  <2> SUFFICES ASSUME ~overlapped' PROVE WriterIsAlone'
    BY DEF WriterIsAlone
  <2>1. ~overlapped /\ \A b \in Administrators \ {a} : ~IsWriting(b) /\ ~IsWriting(b)'
    BY <1>1, <1>5 DEF OthersWriting, IsWriting, RoleInv, RoleTypeOK
  <2>2. ~hasConflict(rolePermissions')
    BY <1>1, <2>1 DEF RoleInv, WriterIsAlone
  <2>3. /\ assignment'[a].step \in {"remove", "save"} => assignment'[a].existing = rolePermissions'
        /\ assignment'[a].step # "add"
        /\ assignment'[a].step \in {"remove", "add"} => ~hasConflict(assignment'[a].wanted)
    BY <1>1, <1>4, <1>5 DEF NoAssignment, canAssignPermissions
  <2> QED
    BY <2>1, <2>2, <2>3 DEF WriterIsAlone, IsWriting
<1> QED
  BY <1>6, <1>9, <1>10 DEF RoleInv
LEMMA RemovingPermissions ==
  ASSUME RoleInv, NEW a \in Administrators, RemovePermissions(a)
  PROVE  RoleInv'
<1>1. /\ UNCHANGED <<actorRole, roleRow, givers, overlapped>>
      /\ rolePermissions' = rolePermissions \ assignment[a].existing
      /\ assignment[a].step = "remove"
      /\ assignment' = [assignment EXCEPT ![a].step = "add"]
  BY DEF RemovePermissions
<1>2. RoleTypeOK'
  BY <1>1 DEF RoleInv, RoleTypeOK, Assignments, Steps
<1>3. /\ \A b \in Administrators \ {a} : assignment'[b] = assignment[b]
      /\ assignment'[a].step = "add" /\ assignment'[a].wanted = assignment[a].wanted
      /\ assignment'[a].existing = assignment[a].existing
  BY <1>1 DEF RoleInv, RoleTypeOK, Assignments
<1>4. \A p : Given(p) => Given(p)'
  BY <1>1, StillGiven
<1>5. \A b, p : canAssign(Actor(b), p)' <=> canAssign(Actor(b), p)
  BY <1>1 DEF Actor, canAssign, hasPermission
<1>6. GivenByHolders'
  BY <1>1, <1>3, <1>4, <1>5 DEF RoleInv, GivenByHolders
<1>7. WriterIsAlone'
  <2> SUFFICES ASSUME ~overlapped' PROVE WriterIsAlone'
    BY DEF WriterIsAlone
  <2>1. \A b \in Administrators \ {a} : ~IsWriting(b) /\ ~IsWriting(b)'
    BY <1>1, <1>3 DEF RoleInv, WriterIsAlone, IsWriting
  <2>2. rolePermissions' = {} /\ ~hasConflict(assignment'[a].wanted)
    BY <1>1, <1>3 DEF RoleInv, WriterIsAlone
  <2>3. ~hasConflict(rolePermissions')
    BY <2>2 DEF hasConflict, Holds
  <2> QED
    BY <1>3, <2>1, <2>2, <2>3 DEF WriterIsAlone, IsWriting
<1> QED
  BY <1>2, <1>6, <1>7 DEF RoleInv

LEMMA AddingPermissions ==
  ASSUME RoleInv, NEW a \in Administrators, AddPermissions(a)
  PROVE  RoleInv'
<1>1. /\ UNCHANGED <<actorRole, roleRow, overlapped>> /\ assignment[a].step = "add"
      /\ assignment' = [assignment EXCEPT ![a] = NoAssignment]
      /\ \/ UNCHANGED <<rolePermissions, givers>>
         \/ /\ rolePermissions' = rolePermissions \cup assignment[a].wanted
            /\ givers' = givers \cup {a}
  BY DEF AddPermissions
<1>2. assignment[a].wanted \in SUBSET PERMISSION_SEEDS
  BY DEF RoleInv, RoleTypeOK, Assignments
<1>3. NoAssignment \in Assignments
  BY DEF NoAssignment, Assignments, Steps
<1>4. RoleTypeOK'
  BY <1>1, <1>2, <1>3 DEF RoleInv, RoleTypeOK
<1>5. \A b \in Administrators : assignment'[b] = IF b = a THEN NoAssignment ELSE assignment[b]
  BY <1>1 DEF RoleInv, RoleTypeOK
<1>6. \A p : Given(p) => Given(p)'
  BY <1>1, StillGiven
<1>7. \A b, p : canAssign(Actor(b), p)' <=> canAssign(Actor(b), p)
  BY <1>1 DEF Actor, canAssign, hasPermission
<1>8. GivenByHolders'
  <2>1. a \in givers' => \A p \in assignment[a].wanted : Given(p)'
    BY <1>1, <1>7 DEF RoleInv, GivenByHolders, Given
  <2>2. \A p \in rolePermissions' : Given(p)'
    BY <1>1, <1>6, <2>1 DEF RoleInv, GivenByHolders
  <2>3. \A b \in Administrators :
          /\ \A p \in assignment'[b].existing : Given(p)'
          /\ assignment'[b].step \in {"remove", "add"} =>
               \A p \in assignment'[b].wanted : canAssign(Actor(b), p)'
    BY <1>5, <1>6, <1>7 DEF RoleInv, GivenByHolders, NoAssignment
  <2> QED
    BY <2>2, <2>3 DEF GivenByHolders
<1>9. WriterIsAlone'
  <2> SUFFICES ASSUME ~overlapped' PROVE WriterIsAlone'
    BY DEF WriterIsAlone
  <2>1. \A b \in Administrators : ~IsWriting(b)'
    BY <1>1, <1>5 DEF RoleInv, WriterIsAlone, IsWriting, NoAssignment
  <2>2. rolePermissions = {} /\ ~hasConflict(assignment[a].wanted) /\ ~hasConflict(rolePermissions)
    BY <1>1 DEF RoleInv, WriterIsAlone
  <2>3. rolePermissions' \in {rolePermissions, assignment[a].wanted}
    BY <1>1, <2>2
  <2>4. ~hasConflict(rolePermissions')
    BY <2>2, <2>3
  <2> QED
    BY <2>1, <2>4 DEF WriterIsAlone, IsWriting
<1> QED
  BY <1>4, <1>8, <1>9 DEF RoleInv

LEMMA SavingRole ==
  ASSUME RoleInv, NEW a \in Administrators, SaveRole(a)
  PROVE  RoleInv'
<1>1. /\ UNCHANGED <<actorRole, roleRow, givers, overlapped>> /\ assignment[a].step = "save"
      /\ rolePermissions' = assignment[a].existing
      /\ assignment' = [assignment EXCEPT ![a] = NoAssignment]
  BY DEF SaveRole
<1>2. NoAssignment \in Assignments /\ assignment[a].existing \in SUBSET PERMISSION_SEEDS
  BY DEF NoAssignment, Assignments, Steps, RoleInv, RoleTypeOK
<1>3. RoleTypeOK'
  BY <1>1, <1>2 DEF RoleInv, RoleTypeOK
<1>4. \A b \in Administrators : assignment'[b] = IF b = a THEN NoAssignment ELSE assignment[b]
  BY <1>1 DEF RoleInv, RoleTypeOK
<1>5. \A p : Given(p) => Given(p)'
  BY <1>1, StillGiven
<1>6. \A b, p : canAssign(Actor(b), p)' <=> canAssign(Actor(b), p)
  BY <1>1 DEF Actor, canAssign, hasPermission
<1>7. GivenByHolders'
  BY <1>1, <1>4, <1>5, <1>6 DEF RoleInv, GivenByHolders, NoAssignment
<1>8. WriterIsAlone'
  <2> SUFFICES ASSUME ~overlapped' PROVE WriterIsAlone'
    BY DEF WriterIsAlone
  <2>1. \A b \in Administrators : ~IsWriting(b)'
    BY <1>1, <1>4 DEF RoleInv, WriterIsAlone, IsWriting, NoAssignment
  <2>2. rolePermissions' = rolePermissions /\ ~hasConflict(rolePermissions)
    BY <1>1 DEF RoleInv, WriterIsAlone
  <2> QED
    BY <2>1, <2>2 DEF WriterIsAlone, IsWriting
<1> QED
  BY <1>3, <1>7, <1>8 DEF RoleInv

LEMMA RoleStep == ASSUME RoleInv, [StepRoles]_roleVars PROVE RoleInv'
<1>1. ASSUME UNCHANGED <<actorRole, rolePermissions, assignment, givers, overlapped>>,
             roleRow' \in {roleRow, "removed"}
      PROVE  RoleInv'
  <2>1. RoleTypeOK'
    BY <1>1 DEF RoleInv, RoleTypeOK
  <2>2. \A b, p : canAssign(Actor(b), p)' <=> canAssign(Actor(b), p)
    BY <1>1 DEF Actor, canAssign, hasPermission
  <2>3. GivenByHolders'
    BY <1>1, <2>2 DEF RoleInv, GivenByHolders, Given
  <2>4. WriterIsAlone'
    BY <1>1 DEF RoleInv, WriterIsAlone, IsWriting
  <2> QED
    BY <2>1, <2>3, <2>4 DEF RoleInv
<1>2. CASE AssignRole \/ UnassignRole \/ SoftDelete
  BY <1>1, <1>2 DEF AssignRole, UnassignRole, SoftDelete
<1>3. ASSUME NEW a \in Administrators, CountUsers(a) PROVE RoleInv'
  BY <1>1, <1>3 DEF CountUsers
<1>4. CASE UNCHANGED roleVars
  BY <1>1, <1>4 DEF roleVars
<1> QED
  BY <1>2, <1>3, <1>4, StartingRequests, ReadingRequests, RemovingPermissions,
     AddingPermissions, SavingRole DEF StepRoles

(* Whatever several administrators do at once, a role lets its holders do only
   what one of those who gave it permissions may do himself (canAssign). *)
THEOREM NobodyGivesMore == RoleSpec => []NobodyGivesMoreThanTheyHold
<1>1. RoleInv => NobodyGivesMoreThanTheyHold
  <2> SUFFICES ASSUME RoleInv, roleRow = "live", NEW p \in PERMISSION_SEEDS,
                      NEW scope \in {None, "self", "global"},
                      hasPermission(Member({}), p.action, p.resource, scope)
               PROVE  \E a \in givers : hasPermission(Actor(a), p.action, p.resource, scope)
    BY DEF NobodyGivesMoreThanTheyHold
  <2>1. Member({}).role = "custom" /\ Member({}).permissions = rolePermissions
    BY DEF Member
  <2>2. PICK q \in rolePermissions : permissionGrants(q, p.action, p.resource, scope)
    BY <2>1 DEF hasPermission
  <2>3. q \in PERMISSION_SEEDS /\ Given(q)
    BY <2>2 DEF RoleInv, RoleTypeOK, GivenByHolders
  <2> QED
    BY <2>2, <2>3, WhoAssignsMay DEF Given
<1> QED
  BY RolesInit, RoleStep, <1>1, PTL DEF RoleSpec

(* Unless two requests write a role at once, it never lets the same user submit
   expenses and decide on them (SEPARATION_OF_DUTIES_CONFLICTS). *)
THEOREM DutiesStaySeparated == RoleSpec => []DutiesAreSeparated
<1>1. RoleInv => DutiesAreSeparated
  BY DEF RoleInv, WriterIsAlone, DutiesAreSeparated, hasConflict, SEPARATION_OF_DUTIES_CONFLICTS
<1> QED
  BY RolesInit, RoleStep, <1>1, PTL DEF RoleSpec

-----------------------------------------------------------------------------
(* What the front end is shown. *)

\* A route asks for pairs of resource and action; none asks for a key that only the
\* front end knows.
IsAsked(pair) ==
  /\ pair = <<pair[1], pair[2]>>
  /\ pair \notin {<<"approval", "read">>, <<"receipt", "upload">>}
AsksOnlyPairs(routes) == \A route \in routes : \A pair \in route.any : IsAsked(pair)

(* A permission of the catalogue has the scope that its own action wants. *)
LEMMA SeedsAreUsable ==
  \A p \in PERMISSION_SEEDS : p.resource # "all" /\ permissionScopeAllows(p, p.action, p.resource)
<1> USE DEF Of, permissionScopeAllows
<1>1. \A p \in ExpenseAndReceiptSeeds :
        p.resource # "all" /\ permissionScopeAllows(p, p.action, p.resource)
  BY DEF ExpenseAndReceiptSeeds
<1>2. \A p \in ApprovalAndBudgetSeeds :
        p.resource # "all" /\ permissionScopeAllows(p, p.action, p.resource)
  BY DEF ApprovalAndBudgetSeeds
<1>3. \A p \in DirectorySeeds :
        p.resource # "all" /\ permissionScopeAllows(p, p.action, p.resource)
  BY DEF DirectorySeeds
<1>4. \A p \in AdministrationSeeds :
        p.resource # "all" /\ permissionScopeAllows(p, p.action, p.resource)
  BY DEF AdministrationSeeds
<1> QED
  BY <1>1, <1>2, <1>3, <1>4 DEF PERMISSION_SEEDS

(* It grants its own action and no other; to read one's own budget only grants
   what asks for that scope. *)
LEMMA SeedGrants ==
  ASSUME NEW p \in PERMISSION_SEEDS, NEW action, NEW resource
  PROVE  permissionGrants(p, action, resource, None) <=>
           /\ p.action = action /\ p.resource = resource
           /\ ~(p.resource = "budget" /\ p.action = "read" /\ p.scope = "self")
<1>1. p.action # "manage" /\ p.resource # "all" /\ permissionScopeAllows(p, p.action, p.resource)
  BY SeedsArePlain, SeedsAreUsable
<1> QED
  BY <1>1 DEF permissionGrants

(* The routes, controller by controller. *)
LEMMA RoutesAskPairs == AsksOnlyPairs(Routes)
<1> USE DEF AsksOnlyPairs, IsAsked, Route, Require, Open
<1>1. AsksOnlyPairs(ExpenseCollectionRoutes)
  BY DEF ExpenseCollectionRoutes
<1>2. AsksOnlyPairs(ExpenseQueueRoutes)
  BY DEF ExpenseQueueRoutes
<1>3. AsksOnlyPairs(ExpenseItemRoutes) /\ AsksOnlyPairs(ReceiptRoutes)
  BY DEF ExpenseItemRoutes, ReceiptRoutes
<1>4. /\ AsksOnlyPairs(ApprovalRoutes) /\ AsksOnlyPairs(DelegationRoutes)
      /\ AsksOnlyPairs(ApprovalLevelRoutes)
  BY DEF ApprovalRoutes, DelegationRoutes, ApprovalLevelRoutes
<1>5. AsksOnlyPairs(BudgetRoutes) /\ AsksOnlyPairs(OwnBudgetRoute)
  BY DEF BudgetRoutes, OwnBudgetRoute
<1>6. /\ AsksOnlyPairs(DepartmentRoutes) /\ AsksOnlyPairs(ManagedDepartmentRoutes)
      /\ AsksOnlyPairs(DepartmentItemRoutes)
  BY DEF DepartmentRoutes, ManagedDepartmentRoutes, DepartmentItemRoutes
<1>7. AsksOnlyPairs(RoleRoutes) /\ AsksOnlyPairs(UserRoutes) /\ AsksOnlyPairs(AuthorizationRoutes)
  BY DEF RoleRoutes, UserRoutes, AuthorizationRoutes
<1>8. AsksOnlyPairs(SsoRoutes) /\ AsksOnlyPairs(SignUpRoutes) /\ AsksOnlyPairs(TokenRoutes)
  BY DEF SsoRoutes, SignUpRoutes, TokenRoutes
<1>9. AsksOnlyPairs(PolicyRoutes) /\ AsksOnlyPairs(PolicyCatalogRoutes)
  BY DEF PolicyRoutes, PolicyCatalogRoutes
<1>10. /\ AsksOnlyPairs(NotificationRoutes) /\ AsksOnlyPairs(ReportRoutes)
       /\ AsksOnlyPairs(DashboardRoutes) /\ AsksOnlyPairs(AuditRoutes)
  BY DEF NotificationRoutes, ReportRoutes, DashboardRoutes, AuditRoutes
<1> HIDE DEF AsksOnlyPairs, IsAsked, Route, Require, Open
<1>11. \A x, y : AsksOnlyPairs(x) /\ AsksOnlyPairs(y) => AsksOnlyPairs(x \cup y)
  BY DEF AsksOnlyPairs
<1> QED
  BY <1>1, <1>2, <1>3, <1>4, <1>5, <1>6, <1>7, <1>8, <1>9, <1>10
  DEF Routes, AsksOnlyPairs

(* What a permission shows, among the pairs that routes ask for. *)
LEMMA SeedShows ==
  ASSUME NEW p \in PERMISSION_SEEDS, NEW pair, IsAsked(pair)
  PROVE  pair \in capabilitiesForPermission(p) <=>
           \/ /\ pair = <<p.resource, p.action>>
              /\ ~(p.resource = "budget" /\ p.action = "read" /\ p.scope = "self")
           \/ /\ p.resource = "approval" /\ p.action \in {"approve", "reject"}
              /\ pair \in {<<"approval", "approve">>, <<"approval", "reject">>}
<1>1. pair = <<pair[1], pair[2]>> /\ pair \notin {<<"approval", "read">>, <<"receipt", "upload">>}
  BY DEF IsAsked
<1>2. \A x, y, z : pair # <<x, y, z>>
  BY <1>1
<1>3. pair \notin QualifiedCapabilities(p)
  BY <1>1, <1>2 DEF QualifiedCapabilities
<1>4. pair \in ApprovalCapabilities(p) <=> pair \in {<<"approval", "approve">>, <<"approval", "reject">>}
  BY <1>1, <1>2 DEF ApprovalCapabilities
<1>5. pair \in ReadCapability(p) <=>
        /\ pair = <<p.resource, p.action>>
        /\ ~(p.resource = "budget" /\ p.action = "read" /\ p.scope = "self")
  BY DEF ReadCapability
<1> QED
  BY <1>3, <1>4, <1>5 DEF capabilitiesForPermission

(* What a managed department shows, among them. *)
LEMMA DepartmentShows ==
  ASSUME NEW u, NEW pair, IsAsked(pair)
  PROVE  pair \in capabilitiesForOrgGrants(u) <=>
           isManagerApprover(u) /\ pair \in {<<"approval", "approve">>, <<"approval", "reject">>}
<1>1. pair = <<pair[1], pair[2]>> /\ pair \notin {<<"approval", "read">>, <<"receipt", "upload">>}
  BY DEF IsAsked
<1>2. \A x, y, z : pair # <<x, y, z>>
  BY <1>1
<1> QED
  BY <1>1, <1>2 DEF capabilitiesForOrgGrants

(* A pair is shown exactly if the guard grants it, to a user who is granted both
   decisions or neither. *)
LEMMA ShownIsGranted ==
  ASSUME NEW u, u.role # "super_admin", u.permissions \subseteq PERMISSION_SEEDS,
         can(u, "approve", "approval") <=> can(u, "reject", "approval"),
         NEW pair, IsAsked(pair)
  PROVE  can(u, pair[2], pair[1]) <=> pair \in capabilitiesFromAuthContext(u)
<1> DEFINE Deciding == {<<"approval", "approve">>, <<"approval", "reject">>}
           Holding(r, a) == \E p \in u.permissions :
              /\ p.resource = r /\ p.action = a
              /\ ~(p.resource = "budget" /\ p.action = "read" /\ p.scope = "self")
<1>1. pair = <<pair[1], pair[2]>>
  BY DEF IsAsked
<1>2. \A r, a : can(u, a, r) <=>
        \/ isManagerApprover(u) /\ a \in {"approve", "reject"} /\ r = "approval"
        \/ Holding(r, a)
  BY SeedGrants DEF can
<1>3. pair \in capabilitiesFromAuthContext(u) <=>
        \/ isManagerApprover(u) /\ pair \in Deciding
        \/ \E p \in u.permissions : pair \in capabilitiesForPermission(p)
  BY DepartmentShows DEF capabilitiesFromAuthContext
<1>4. (\E p \in u.permissions : pair \in capabilitiesForPermission(p)) <=>
        \/ Holding(pair[1], pair[2])
        \/ pair \in Deciding /\ \E a \in {"approve", "reject"} : Holding("approval", a)
  <2>1. ASSUME NEW p \in u.permissions, pair \in capabilitiesForPermission(p)
        PROVE  \/ Holding(pair[1], pair[2])
               \/ pair \in Deciding /\ \E a \in {"approve", "reject"} : Holding("approval", a)
    BY <1>1, <2>1, SeedShows
  <2>2. ASSUME Holding(pair[1], pair[2])
        PROVE  \E p \in u.permissions : pair \in capabilitiesForPermission(p)
    BY <1>1, <2>2, SeedShows
  <2>3. ASSUME pair \in Deciding, NEW a \in {"approve", "reject"}, Holding("approval", a)
        PROVE  \E p \in u.permissions : pair \in capabilitiesForPermission(p)
    BY <2>3, SeedShows
  <2> QED
    BY <2>1, <2>2, <2>3
<1>5. pair \in Deciding <=> pair[1] = "approval" /\ pair[2] \in {"approve", "reject"}
  BY <1>1
<1> HIDE DEF Holding, Deciding
<1>6. CASE pair \in Deciding
  <2>1. can(u, pair[2], pair[1]) <=> can(u, "approve", "approval") \/ can(u, "reject", "approval")
    BY <1>5, <1>6
  <2> QED
    BY <1>2, <1>3, <1>4, <1>5, <1>6, <2>1
<1>7. CASE pair \notin Deciding
  BY <1>2, <1>3, <1>4, <1>5, <1>7
<1> QED
  BY <1>6, <1>7

(* What the front end shows a member of the role is what the guard admits him to,
   whatever permissions the administrators have written and whether or not he
   manages a department (capabilitiesFromAuthContext, AccessGuard). *)
THEOREM ShownIsAdmitted == RoleSpec => []CapabilitiesMatchGuards
<1>1. RoleInv => CapabilitiesMatchGuards
  <2> SUFFICES ASSUME RoleInv, roleRow = "live", NEW managed \in {{}, {"dept"}},
                      can(Member(managed), "approve", "approval")
                        <=> can(Member(managed), "reject", "approval"),
                      NEW any \in Asked
               PROVE  canActivate(Member(managed), [kind |-> "policy", any |-> any])
                        <=> any \cap capabilitiesFromAuthContext(Member(managed)) # {}
    BY DEF CapabilitiesMatchGuards
  <2> DEFINE u == Member(managed)
  <2>1. u.role = "custom" /\ u.permissions = rolePermissions
    BY DEF Member
  <2>2. u.permissions \subseteq PERMISSION_SEEDS /\ u.role # "super_admin" /\ u.role # None
    BY <2>1 DEF RoleInv, RoleTypeOK, None
  <2>3. \A pair \in any : IsAsked(pair)
    BY RoutesAskPairs DEF AsksOnlyPairs, Asked, Guarded
  <2>4. can(u, "approve", "approval") <=> can(u, "reject", "approval")
    OBVIOUS
  <2> HIDE DEF u
  <2>5. \A pair \in any : can(u, pair[2], pair[1]) <=> pair \in capabilitiesFromAuthContext(u)
    BY <2>2, <2>3, <2>4, ShownIsGranted
  <2>6. canActivate(u, [kind |-> "policy", any |-> any]) <=> \E pair \in any : can(u, pair[2], pair[1])
    BY <2>2 DEF canActivate
  <2>7. canActivate(u, [kind |-> "policy", any |-> any])
          <=> any \cap capabilitiesFromAuthContext(u) # {}
    BY <2>5, <2>6
  <2> QED
    BY <2>7 DEF u
<1> QED
  BY RolesInit, RoleStep, <1>1, PTL DEF RoleSpec

-----------------------------------------------------------------------------
(* The approval queue.                                                     *)

AwaitingIsFormed ==
  awaiting = [userId |-> awaiting.userId, departmentId |-> awaiting.departmentId,
              ownerDepartmentId |-> awaiting.ownerDepartmentId, amount |-> awaiting.amount,
              status |-> awaiting.status]

\* A copy of the levels is that of the table, unless an edit was made behind it.
CopiesAreFresh == ~unseen => cached \cup loading \subseteq {levels}

\* A chain that nobody has changed stands as its submission left it, or is past its
\* first stage.
Untouched ==
  /\ \A l \in Required(levels) : decided[l] = "NONE"
  /\ awaiting.status = ResolveInitialSubmitStatus(levels, Required(levels))
PastFirst ==
  /\ \E l \in Required(levels) : IsFirst(levels, Required(levels), l) /\ decided[l] = "APPROVED"
  /\ awaiting.status = "UNDER_REVIEW"
ChainIsInOrder == ~edited /\ awaiting.status \in Pending => Untouched \/ PastFirst

QueueInv ==
  /\ levels \in LevelTables /\ DOMAIN decided = DOMAIN levels
  /\ AwaitingIsFormed
  /\ awaiting.status = "DRAFT" => \A l \in DOMAIN levels : decided[l] = "NONE"
  /\ CopiesAreFresh
  /\ ChainIsInOrder

\* What the stages of the expense are derived from has not changed.
StagesSame ==
  /\ UNCHANGED <<levels, manager>> /\ awaiting'.amount = awaiting.amount
  /\ awaiting'.userId = awaiting.userId /\ awaiting'.departmentId = awaiting.departmentId

LEMMA RequiredIsOfLevels ==
  ASSUME NEW table, NEW l \in Required(table) PROVE l \in DOMAIN table /\ table[l] # NoLevel
BY DEF Required, GetRequiredLevels

LEMMA RequiredSame == StagesSame => Required(levels)' = Required(levels)
BY DEF StagesSame, Required, GetRequiredLevels, shouldSkipDepartmentManagerStage

LEMMA QueueInit == InitDelegations => QueueInv
<1> SUFFICES ASSUME InitDelegations PROVE QueueInv
  OBVIOUS
<1>1. PICK e \in FiledExpenses :
        awaiting = [userId |-> e.userId, departmentId |-> e.departmentId,
                    ownerDepartmentId |-> e.ownerDepartmentId, amount |-> e.amount,
                    status |-> "DRAFT"]
  BY DEF InitDelegations
<1>2. AwaitingIsFormed /\ awaiting.status = "DRAFT"
  BY <1>1 DEF AwaitingIsFormed
<1> QED
  BY <1>2 DEF InitDelegations, QueueInv, CopiesAreFresh, ChainIsInOrder, Pending

(* A decision at the active stage of an unchanged chain. *)
LEMMA DecisionStep ==
  ASSUME QueueInv, NEW u, NEW l \in DOMAIN levels, Approve(u, l) \/ Reject(u, l) PROVE QueueInv'
<1>1. PICK decision, status :
        /\ Decide(u, l, decision, status) /\ decision \in {"APPROVED", "REJECTED"}
        /\ \/ status = "REJECTED"
           \/ /\ decision = "APPROVED"
              /\ status = ResolveStatusAfterLevelApproval(levels, Required(levels), l)
  BY DEF Approve, Reject
<1> DEFINE R == Required(levels)
<1>2. /\ awaiting' = [awaiting EXCEPT !.status = status] /\ decided' = [decided EXCEPT ![l] = decision]
      /\ UNCHANGED levelVars
  BY <1>1 DEF Decide
<1>3. AwaitingIsFormed' /\ awaiting'.status = status /\ StagesSame
  BY <1>2 DEF QueueInv, AwaitingIsFormed, StagesSame, levelVars
<1>4. R' = R
  BY <1>3, RequiredSame
<1>5. l \in R /\ IsActiveStage(levels, R, decided, l) /\ awaiting.status \in Pending
  BY <1>1 DEF Decide, MayDecideAt, ActiveStages
<1>6. /\ levels' \in LevelTables /\ DOMAIN decided' = DOMAIN levels' /\ CopiesAreFresh'
      /\ awaiting'.status # "DRAFT"
  BY <1>1, <1>2, <1>3 DEF QueueInv, CopiesAreFresh, levelVars, ResolveStatusAfterLevelApproval
<1>7. ASSUME ~edited', awaiting'.status \in Pending PROVE PastFirst'
  <2>1. decision = "APPROVED" /\ status = "UNDER_REVIEW" /\ ~edited /\ levels' = levels
    BY <1>1, <1>2, <1>3, <1>7 DEF Pending, levelVars, ResolveStatusAfterLevelApproval
  <2>2. CASE Untouched
    <3>1. IsFirst(levels, R, l)
      BY <1>5, <2>2 DEF Untouched, IsActiveStage, IsFirst
    <3> QED
      BY <1>2, <1>3, <1>4, <1>5, <2>1, <3>1 DEF PastFirst, QueueInv, IsFirst, Before
  <2>3. CASE PastFirst
    <3>1. PICK k \in R : IsFirst(levels, R, k) /\ decided[k] = "APPROVED"
      BY <2>3 DEF PastFirst
    <3>2. decided'[k] = "APPROVED" /\ IsFirst(levels, R, k)'
      BY <1>2, <1>4, <2>1, <3>1 DEF IsFirst, Before, QueueInv
    <3> QED
      BY <1>3, <1>4, <2>1, <3>2 DEF PastFirst
  <2> QED
    BY <1>5, <2>1, <2>2, <2>3 DEF QueueInv, ChainIsInOrder
<1> QED
  BY <1>3, <1>6, <1>7 DEF QueueInv, ChainIsInOrder

(* A change of the levels or of a manager that leaves the chain as it is. *)
LEMMA EditStep ==
  ASSUME QueueInv,
         \/ \E table \in LevelTables, here \in BOOLEAN : EditLevels(table, here)
         \/ \E d \in DOMAIN manager, heads \in ManagerTables : ReplaceManager(d, heads)
  PROVE  QueueInv'
<1> DEFINE R == Required(levels)
<1>1. /\ UNCHANGED <<awaiting, decided>> /\ edited' = (edited \/ Chain' # Chain)
      /\ levels' \in LevelTables /\ CopiesAreFresh'
  BY DEF EditLevels, ReplaceManager, QueueInv, CopiesAreFresh
<1>2. DOMAIN levels' = DOMAIN levels
  BY <1>1, LevelTablesAssumption DEF QueueInv
<1>3. ASSUME Chain' = Chain, Untouched \/ PastFirst PROVE (Untouched \/ PastFirst)'
  <2>1. DOMAIN Chain = R /\ DOMAIN Chain' = R' /\ R' = R
    BY <1>3 DEF Chain
  <2>2. \A l \in R : levels'[l] = levels[l]
    BY <1>3, <2>1 DEF Chain
  <2>3. \A l \in R : IsFirst(levels, R, l)' <=> IsFirst(levels, R, l)
    BY <2>1, <2>2 DEF IsFirst, Before
  <2>4. ResolveInitialSubmitStatus(levels, R)' = ResolveInitialSubmitStatus(levels, R)
    <3>1. (\E l \in R : IsFirst(levels, R, l) /\ levels[l].approverType = "FINANCE_MANAGER")'
            <=> \E l \in R : IsFirst(levels, R, l) /\ levels[l].approverType = "FINANCE_MANAGER"
      BY <2>1, <2>2, <2>3
    <3> HIDE DEF R
    <3> QED
      BY <2>1, <3>1 DEF ResolveInitialSubmitStatus
  <2> QED
    BY <1>1, <1>3, <2>1, <2>3, <2>4 DEF Untouched, PastFirst
<1>4. ChainIsInOrder'
  BY <1>1, <1>3 DEF ChainIsInOrder, QueueInv
<1> QED
  BY <1>1, <1>2, <1>4 DEF QueueInv, AwaitingIsFormed

LEMMA QueueStep == QueueInv /\ [StepDelegations]_delegationVars => QueueInv'
<1> SUFFICES ASSUME QueueInv, [StepDelegations]_delegationVars PROVE QueueInv'
  OBVIOUS
<1>1. CASE \/ \E delegator, delegate \in Users : CreateDelegation(delegator, delegate)
           \/ \E d \in delegations : Revoke(d)
           \/ Tick \/ ReadLevels \/ KeepLevels \/ ForgetLevels
           \/ UNCHANGED delegationVars
  <2>1. UNCHANGED <<awaiting, decided, levels, manager, edited>> /\ CopiesAreFresh'
    BY <1>1 DEF CreateDelegation, Revoke, Tick, ReadLevels, KeepLevels, ForgetLevels, CacheSame,
       levelVars, delegationVars, QueueInv, CopiesAreFresh
  <2>2. Required(levels)' = Required(levels)
    BY <2>1, RequiredSame DEF StagesSame
  <2> QED
    BY <2>1, <2>2 DEF QueueInv, AwaitingIsFormed, ChainIsInOrder, Untouched, PastFirst
<1>2. CASE Submit
  <2> DEFINE status == ResolveInitialSubmitStatus(levels, Required(levels))
  <2>1. /\ awaiting' = [awaiting EXCEPT !.status = status] /\ awaiting.status = "DRAFT"
        /\ UNCHANGED <<decided, levels, manager, cached, loading, unseen>>
    BY <1>2 DEF Submit
  <2>2. status # "DRAFT"
    BY DEF ResolveInitialSubmitStatus
  <2>3. AwaitingIsFormed' /\ StagesSame /\ awaiting'.status = status
    BY <2>1 DEF QueueInv, AwaitingIsFormed, StagesSame
  <2>4. Required(levels)' = Required(levels)
    BY <2>3, RequiredSame
  <2>5. Untouched'
    BY <2>1, <2>3, <2>4, RequiredIsOfLevels DEF Untouched, QueueInv
  <2> QED
    BY <2>1, <2>2, <2>3, <2>5 DEF QueueInv, CopiesAreFresh, ChainIsInOrder
<1>3. CASE Reopen
  BY <1>3 DEF Reopen, levelVars, QueueInv, AwaitingIsFormed, CopiesAreFresh, ChainIsInOrder, Pending
<1> QED
  BY <1>1, <1>2, <1>3, DecisionStep, EditStep DEF StepDelegations

(* Two levels of one table never share their place, so a chain has one first stage. *)
LEMMA OneFirst ==
  ASSUME QueueInv, NEW k \in Required(levels), NEW l \in Required(levels),
         IsFirst(levels, Required(levels), k), IsFirst(levels, Required(levels), l)
  PROVE  k = l
<1>1. /\ k \in DOMAIN levels /\ l \in DOMAIN levels /\ levels[k] # NoLevel /\ levels[l] # NoLevel
  BY RequiredIsOfLevels
<1>2. levels[k].level \in Nat /\ levels[l].level \in Nat /\ (k # l => levels[k].level # levels[l].level)
  BY <1>1, LevelTablesAssumption DEF QueueInv, ApprovalLevel
<1> QED
  BY <1>2 DEF IsFirst, Before

(* The status of the expense is the one its active stage asks for. *)
LEMMA ActiveStageFits ==
  ASSUME QueueInv, ~edited, NEW l \in ActiveStages(levels)
  PROVE  StatusFitsStage(levels, Required(levels), l, awaiting.status)
<1> DEFINE R == Required(levels)
<1>1. /\ l \in R /\ awaiting.status \in Pending /\ decided[l] = "NONE"
      /\ \A k \in R : Before(levels, k, l) => decided[k] = "APPROVED"
  BY DEF ActiveStages, IsActiveStage
<1>2. levels[l].approverType \in ApproverTypes
  BY <1>1, RequiredIsOfLevels, LevelTablesAssumption DEF QueueInv, ApprovalLevel
<1>3. CASE Untouched
  <2>1. IsFirst(levels, R, l)
    BY <1>1, <1>3 DEF Untouched, IsFirst
  <2>2. awaiting.status = IF levels[l].approverType = "FINANCE_MANAGER" THEN "UNDER_REVIEW" ELSE "SUBMITTED"
    BY <1>1, <1>3, <2>1, OneFirst DEF Untouched, ResolveInitialSubmitStatus
  <2> QED
    BY <1>2, <2>1, <2>2 DEF StatusFitsStage, ApproverTypes
<1>4. CASE PastFirst
  <2>1. ~IsFirst(levels, R, l) /\ awaiting.status = "UNDER_REVIEW"
    BY <1>1, <1>4, OneFirst DEF PastFirst
  <2> QED
    BY <2>1 DEF StatusFitsStage
<1> QED
  BY <1>1, <1>3, <1>4 DEF QueueInv, ChainIsInOrder

(* The approval queue shows a user exactly the expenses he may decide on, for
   himself or as a delegate, whatever levels, managers, delegations and decisions
   come and go, but for what an edit behind the cache or a change of the chain
   explains; and he may list and read each of them (ActionableApprovalQueueService,
   ApprovalService, ExpenseAccessPolicy). *)
THEOREM TheQueueIsExact == DelegationSpec => []QueueIsWhatCanBeDecided
<1>1. QueueInv => QueueIsWhatCanBeDecided
  <2> SUFFICES ASSUME QueueInv, NEW u \in Users
               PROVE  /\ MayApprove(u) => Actionable(u) \/ unseen
                      /\ Actionable(u) => MayApprove(u) \/ unseen \/ edited
                      /\ Actionable(u) => /\ canReadExpense(u, awaiting) /\ mayList(u, "approval")
                                          /\ expenseListVisibility(u) # "own"
    BY DEF QueueIsWhatCanBeDecided
  <2>1. canDecideOnExpense(u, awaiting) /\ awaiting.status \in Pending /\ awaiting.userId # u.id
          => Candidate(u, awaiting)
    BY DEF canDecideOnExpense, isDepartmentManagerForExpense, resolveExpenseDepartmentId, Candidate
  <2>2. canDecideOnExpense(u, awaiting) => canDecideOnApproval(u)
    BY DEF canDecideOnExpense, canDecideOnApproval, isDepartmentManagerForExpense, isManagerApprover
  <2>3. ~unseen => QueueTables = {levels}
    BY DEF QueueInv, CopiesAreFresh, QueueTables
  <2>4. ASSUME MayApprove(u), ~unseen PROVE Actionable(u)
    <3>1. PICK l \in ActiveStages(levels) : canActOnStage(u, awaiting, levels[l])
      BY <2>4 DEF MayApprove, MayDecideAt
    <3>2. awaiting.status \in Pending /\ mayDecideOnExpense(u, awaiting)
      BY <2>4 DEF MayApprove, MayDecideAt
    <3> QED
      BY <2>1, <2>3, <2>4, <3>1, <3>2 DEF Actionable, mayDecideOnExpense
  <2>5. ASSUME Actionable(u), ~unseen, ~edited PROVE MayApprove(u)
    <3>1. PICK l \in ActiveStages(levels) : canActOnStage(u, awaiting, levels[l])
      BY <2>3, <2>5 DEF Actionable
    <3>2. l \in DOMAIN levels
      BY RequiredIsOfLevels DEF ActiveStages
    <3>3. awaiting.status \in Pending /\ mayDecideOnExpense(u, awaiting)
      BY <2>5 DEF Actionable, Candidate, mayDecideOnExpense
    <3>4. StatusFitsStage(levels, Required(levels), l, awaiting.status)
      BY <2>5, ActiveStageFits
    <3> QED
      BY <3>1, <3>2, <3>3, <3>4 DEF MayApprove, MayDecideAt
  <2>6. ASSUME Actionable(u)
        PROVE  /\ canReadExpense(u, awaiting) /\ mayList(u, "approval")
               /\ expenseListVisibility(u) # "own"
    <3>1. /\ awaiting.status \in Pending /\ awaiting.status # "DRAFT" /\ awaiting.userId # u.id
          /\ canDecideOnExpense(u, awaiting)
      BY <2>6 DEF Actionable, Candidate, Pending
    <3> QED
      BY <2>2, <3>1 DEF canReadExpense, canReadPending, mayList, expenseListVisibility
  <2> QED
    BY <2>4, <2>5, <2>6
<1> QED
  BY QueueInit, QueueStep, <1>1, PTL DEF DelegationSpec

-----------------------------------------------------------------------------
(* Departments and their managers.                                         *)

Stages == {"free", "count", "begin", "leave", "commit", "save", "users", "delete"}
Kinds == {"none", "assign", "transfer", "activity", "remove"}
StagesOf(kind) ==
  CASE kind = "none" -> {"free"}
    [] kind = "assign" -> {"count", "begin", "commit"}
    [] kind = "transfer" -> {"leave", "count", "begin", "commit"}
    [] kind = "activity" -> {"save"}
    [] kind = "remove" -> {"users", "delete"}
Jobs == [stage : Stages, kind : Kinds, user : Staff \cup {0}, unit : Units \cup {0},
         from : Units \cup {0}, active : BOOLEAN, rows : SUBSET Staff, releases : BOOLEAN]

StaffTypeOK ==
  /\ member \in [Staff -> Units \cup {0}] /\ active \in [Staff -> BOOLEAN]
  /\ headOf \in [Units -> Staff \cup {0}] /\ history \in [Units -> SUBSET Staff]
  /\ removed \in SUBSET Units /\ contended \in SUBSET Units
  /\ waiting \in SUBSET [owner : Staff, unit : Units]
  /\ desk \in [Desks -> Jobs]

\* What a request is about.
JobIsFormed(job) ==
  /\ job.stage \in StagesOf(job.kind)
  /\ job.kind \in {"assign", "remove"} => job.unit \in Units /\ job.from = 0
  /\ job.kind = "remove" => job.user = 0
  /\ job.kind \in {"transfer", "activity"} => job.user \in Staff
  /\ job.kind = "activity" => job.unit = 0

\* Requests that overlap and share something have left their departments to chance.
OverlapsAreNoted ==
  \A v, w \in Desks :
    v # w /\ Share(desk[v], desk[w]) => About(desk[v]) \cup About(desk[w]) \subseteq contended

\* What DepartmentIsConsistent says of one department.
KeepsBooks(d) ==
  /\ headOf[d] # 0 => member[headOf[d]] = d
  /\ history[d] = {headOf[d]} \ {0}
  /\ d \in removed => headOf[d] = 0 /\ \A u \in Staff : member[u] # d

\* No expense of the department, or of someone who works there, waits.
Quiet(d) == \A e \in waiting : e.unit # d /\ member[e.owner] # d

\* The assignment of a manager goes on from what still holds.
AssignIsSound(job) ==
  job.kind = "assign" /\ job.unit \notin contended =>
    /\ job.unit \notin removed
    /\ job.user # 0 => member[job.user] = job.unit
    /\ job.user = 0 /\ job.stage \in {"begin", "commit"} => Quiet(job.unit)
    /\ job.stage = "commit" => job.rows = history[job.unit]

\* A transfer leads to a department that exists, and leaves one that waits for
\* nothing if it takes its manager.
TransferIsSound(job) ==
  job.kind = "transfer" =>
    /\ job.unit \notin contended \cup {0} => job.unit \notin removed
    /\ job.from \notin contended \cup {0} =>
         /\ job.stage \in {"begin", "commit"} /\ job.from # job.unit
              /\ headOf[job.from] = job.user => Quiet(job.from)
         /\ job.stage = "commit" =>
              job.rows = history[job.from] /\ (job.releases <=> ReleasesManager(job))

\* The department a request read of its user is the one he is in, or both are
\* left to chance.
UserIsKnown(job) ==
  job.kind \in {"transfer", "activity"} =>
    member[job.user] = job.from \/ {member[job.user], job.from} \ {0} \subseteq contended

RemovalIsSound(job) ==
  job.kind = "remove" /\ job.stage = "delete" /\ job.unit \notin contended =>
    \A u \in Staff : member[u] # job.unit

JobIsSound(job) ==
  /\ AssignIsSound(job) /\ TransferIsSound(job) /\ UserIsKnown(job) /\ RemovalIsSound(job)

JobsAreSound == \A job \in {desk[w] : w \in Desks} : JobIsFormed(job) /\ JobIsSound(job)

StaffInv ==
  /\ StaffTypeOK
  /\ JobsAreSound
  /\ OverlapsAreNoted
  /\ DepartmentIsConsistent

LEMMA StaffingInit == InitStaffing => StaffInv
<1> SUFFICES ASSUME InitStaffing PROVE StaffInv
  OBVIOUS
<1>1. StaffTypeOK
  BY DEF InitStaffing, StaffTypeOK, Jobs, Free, Stages, Kinds
<1>2. \A w \in Desks : desk[w] = Free
  BY DEF InitStaffing
<1>3. JobIsFormed(Free) /\ JobIsSound(Free)
  BY DEF JobIsFormed, StagesOf, JobIsSound, AssignIsSound, TransferIsSound, UserIsKnown,
         RemovalIsSound, Free
<1>4. OverlapsAreNoted
  BY <1>2 DEF OverlapsAreNoted, Share, About, Free
<1>5. DepartmentIsConsistent
  BY UnitsAssumption DEF DepartmentIsConsistent, InitStaffing
<1> QED
  BY <1>1, <1>2, <1>3, <1>4, <1>5 DEF StaffInv, JobsAreSound
LEMMA FreeIsSound == Free \in Jobs /\ JobIsFormed(Free) /\ JobIsSound(Free)
  BY DEF JobIsFormed, StagesOf, JobIsSound, AssignIsSound, TransferIsSound, UserIsKnown,
         RemovalIsSound, Free, Jobs, Stages, Kinds

\* Nothing about department d has changed.
DepartmentRests(d) ==
  /\ headOf'[d] = headOf[d] /\ history'[d] = history[d] /\ (d \in removed' <=> d \in removed)
  /\ \A u \in Staff : member'[u] = d <=> member[u] = d
  /\ Quiet(d) => Quiet(d)'

(* A request stays sound while others leave its departments alone. *)
LEMMA BystandersStaySound ==
  ASSUME StaffTypeOK, NEW job \in Jobs, JobIsFormed(job), JobIsSound(job),
         contended \subseteq contended', UserIsKnown(job)',
         \A d \in (About(job) \cap Units) \ contended' : DepartmentRests(d)
  PROVE  JobIsSound(job)'
<1>1. AssignIsSound(job)'
  <2> SUFFICES ASSUME job.kind = "assign", job.unit \notin contended' PROVE AssignIsSound(job)'
    BY DEF AssignIsSound
  <2>1. job.unit \in Units /\ DepartmentRests(job.unit) /\ job.user \in Staff \cup {0}
    BY UnitsAssumption DEF JobIsFormed, About, Jobs
  <2> QED
    BY <2>1 DEF DepartmentRests, JobIsSound, AssignIsSound
<1>2. TransferIsSound(job)'
  <2> SUFFICES ASSUME job.kind = "transfer" PROVE TransferIsSound(job)'
    BY DEF TransferIsSound
  <2>1. job.unit \in Units \cup {0} /\ job.from \in Units \cup {0} /\ job.user \in Staff
    BY DEF Jobs, JobIsFormed
  <2>2. job.unit \notin contended' \cup {0} => job.unit \notin removed'
    BY <2>1, UnitsAssumption DEF About, DepartmentRests, JobIsSound, TransferIsSound
  <2>3. ASSUME job.from \notin contended' \cup {0}
        PROVE  /\ job.stage \in {"begin", "commit"} /\ job.from # job.unit
                    /\ headOf'[job.from] = job.user => Quiet(job.from)'
               /\ job.stage = "commit" =>
                    job.rows = history'[job.from] /\ (job.releases <=> ReleasesManager(job)')
    <3>1. DepartmentRests(job.from)
      BY <2>1, <2>3 DEF About
    <3>2. ReleasesManager(job)' <=> ReleasesManager(job)
      BY <3>1 DEF DepartmentRests, ReleasesManager
    <3> QED
      BY <2>3, <3>1, <3>2 DEF DepartmentRests, JobIsSound, TransferIsSound
  <2> QED
    BY <2>2, <2>3 DEF TransferIsSound
<1>3. RemovalIsSound(job)'
  <2> SUFFICES ASSUME job.kind = "remove", job.unit \notin contended' PROVE RemovalIsSound(job)'
    BY DEF RemovalIsSound
  <2>1. job.unit \in Units /\ DepartmentRests(job.unit)
    BY UnitsAssumption DEF JobIsFormed, About
  <2> QED
    BY <2>1 DEF DepartmentRests, JobIsSound, RemovalIsSound
<1> QED
  BY <1>1, <1>2, <1>3 DEF JobIsSound

(* A step of one request that touches nothing but what it carries. *)
LEMMA BooksRest ==
  ASSUME StaffInv, NEW w \in Desks, NEW job \in Jobs,
         UNCHANGED <<member, active, headOf, history, removed, waiting, contended>>,
         desk' = [desk EXCEPT ![w] = job], JobIsFormed(job), JobIsSound(job),
         About(job) \subseteq About(desk[w]), job.user \in {0, desk[w].user}
  PROVE  StaffInv'
<1>1. \A v \in Desks : desk'[v] = IF v = w THEN job ELSE desk[v]
  BY DEF StaffInv, StaffTypeOK
<1>2. StaffTypeOK'
  BY DEF StaffInv, StaffTypeOK
<1>3. \A j : JobIsSound(j)' <=> JobIsSound(j)
  BY DEF JobIsSound, AssignIsSound, TransferIsSound, UserIsKnown, RemovalIsSound, Quiet,
         ReleasesManager
<1>4. JobsAreSound'
  BY <1>1, <1>3 DEF StaffInv, JobsAreSound
<1>5. OverlapsAreNoted'
  <2> SUFFICES ASSUME NEW u \in Desks, NEW v \in Desks, u # v, Share(desk'[u], desk'[v])
               PROVE  About(desk'[u]) \cup About(desk'[v]) \subseteq contended'
    BY DEF OverlapsAreNoted
  <2>1. \A x \in Desks : About(desk'[x]) \subseteq About(desk[x])
                           /\ desk'[x].user \in {0, desk[x].user}
    BY <1>1
  <2>2. Share(desk[u], desk[v])
    BY <2>1 DEF Share
  <2> QED
    BY <2>1, <2>2 DEF StaffInv, OverlapsAreNoted
<1>6. DepartmentIsConsistent'
  BY DEF StaffInv, DepartmentIsConsistent
<1> QED
  BY <1>2, <1>4, <1>5, <1>6 DEF StaffInv

(* A request comes in. *)
LEMMA RequestComes ==
  ASSUME StaffInv, NEW w \in Desks, NEW job \in Jobs, Take(w, job),
         UNCHANGED <<member, active, headOf, history, removed, waiting>>,
         JobIsFormed(job), JobIsSound(job)
  PROVE  StaffInv'
<1>1. \A v \in Desks : desk'[v] = IF v = w THEN job ELSE desk[v]
  BY DEF StaffInv, StaffTypeOK, Take
<1>2. \A j \in Jobs : About(j) \subseteq Units
  BY DEF About, Jobs
<1>3. \A v \in Desks : desk[v] \in Jobs
  BY DEF StaffInv, StaffTypeOK
<1>4. contended \subseteq contended' /\ contended' \subseteq Units
  BY <1>2, <1>3 DEF Take, StaffInv, StaffTypeOK
<1>5. StaffTypeOK'
  BY <1>4 DEF StaffInv, StaffTypeOK, Take
<1>6. \A j : JobIsSound(j) => JobIsSound(j)'
  BY <1>4 DEF JobIsSound, AssignIsSound, TransferIsSound, UserIsKnown, RemovalIsSound, Quiet,
         ReleasesManager
<1>7. JobsAreSound'
  BY <1>1, <1>6 DEF StaffInv, JobsAreSound
<1>8. OverlapsAreNoted'
  <2> SUFFICES ASSUME NEW u \in Desks, NEW v \in Desks, u # v, Share(desk'[u], desk'[v])
               PROVE  About(desk'[u]) \cup About(desk'[v]) \subseteq contended'
    BY DEF OverlapsAreNoted
  <2>1. \A x \in Desks : Share(job, desk[x]) => About(job) \cup About(desk[x]) \subseteq contended'
    BY DEF Take
  <2>2. CASE u = w
    BY <1>1, <2>1, <2>2
  <2>3. CASE v = w
    <3>1. Share(job, desk[u])
      BY <1>1, <2>3 DEF Share
    <3> QED
      BY <1>1, <2>1, <2>3, <3>1
  <2>4. CASE u # w /\ v # w
    BY <1>1, <1>4, <2>4 DEF StaffInv, OverlapsAreNoted
  <2> QED
    BY <2>2, <2>3, <2>4
<1>9. DepartmentIsConsistent'
  BY <1>4 DEF StaffInv, DepartmentIsConsistent
<1> QED
  BY <1>5, <1>7, <1>8, <1>9 DEF StaffInv

(* A request ends: it has moved its user at most to a department it was about,
   and touched no other. *)
LEMMA RequestEnds ==
  ASSUME StaffInv, NEW v \in Desks, desk' = [desk EXCEPT ![v] = Free],
         UNCHANGED <<waiting, contended>>, StaffTypeOK',
         \A u \in Staff : member'[u] # member[u] =>
           /\ u = desk[v].user /\ desk[v].kind \in {"transfer", "activity"}
           /\ member'[u] \in About(desk[v]) \cup {0},
         \A d \in Units \ (contended \cup About(desk[v])) :
           headOf'[d] = headOf[d] /\ history'[d] = history[d] /\ (d \in removed' <=> d \in removed),
         \A d \in (Units \cap About(desk[v])) \ contended : KeepsBooks(d)'
  PROVE  StaffInv'
<1>1. \A w \in Desks : desk'[w] = IF w = v THEN Free ELSE desk[w]
  BY DEF StaffInv, StaffTypeOK
<1>2. \A w \in Desks : desk[w] \in Jobs /\ JobIsFormed(desk[w]) /\ JobIsSound(desk[w])
  BY DEF StaffInv, StaffTypeOK, JobsAreSound
<1>3. ASSUME NEW d \in Units \ (contended \cup About(desk[v])) PROVE DepartmentRests(d)
  <2>1. ASSUME NEW u \in Staff PROVE member'[u] = d <=> member[u] = d
    <3>1. CASE member'[u] # member[u]
      <4>1. desk[v].kind \in {"transfer", "activity"} /\ desk[v].user = u
            /\ member'[u] \in About(desk[v]) \cup {0}
        BY <3>1
      <4>2. member'[u] # d
        BY <4>1, UnitsAssumption
      <4>3. member[u] # d
        BY <1>2, <4>1, UnitsAssumption DEF JobIsSound, UserIsKnown, About
      <4> QED
        BY <4>2, <4>3
    <3> QED
      BY <3>1
  <2>2. Quiet(d) => Quiet(d)'
    BY <2>1 DEF Quiet, StaffInv, StaffTypeOK
  <2> QED
    BY <2>1, <2>2 DEF DepartmentRests
<1>4. ASSUME NEW w \in Desks \ {v}, NEW job, job = desk[w] PROVE JobIsSound(job)'
  <2>1. job \in Jobs /\ JobIsFormed(job) /\ JobIsSound(job)
    BY <1>2, <1>4
  <2>2. Share(job, desk[v]) => About(job) \cup About(desk[v]) \subseteq contended
    BY <1>4 DEF StaffInv, OverlapsAreNoted
  <2>3. \A d \in (About(job) \cap Units) \ contended' : DepartmentRests(d)
    BY <1>3, <2>2 DEF Share
  <2>4. UserIsKnown(job)'
    <3> SUFFICES ASSUME job.kind \in {"transfer", "activity"},
                        member'[job.user] # job.from
                 PROVE  {member'[job.user], job.from} \ {0} \subseteq contended
      BY DEF UserIsKnown
    <3>1. job.user \in Staff /\ job.user # 0
      BY <2>1, UnitsAssumption DEF JobIsFormed
    <3>2. CASE member'[job.user] = member[job.user]
      BY <2>1, <3>2 DEF JobIsSound, UserIsKnown
    <3>3. CASE member'[job.user] # member[job.user]
      <4>1. Share(job, desk[v]) /\ member'[job.user] \in About(desk[v]) \cup {0}
        BY <3>1, <3>3 DEF Share
      <4> QED
        BY <2>2, <4>1 DEF About
    <3> QED
      BY <3>2, <3>3
  <2>5. StaffTypeOK /\ contended \subseteq contended'
    BY DEF StaffInv
  <2> QED
    BY <2>1, <2>3, <2>4, <2>5, BystandersStaySound
<1>5. JobIsFormed(Free) /\ JobIsSound(Free)'
  BY FreeIsSound DEF JobIsSound, AssignIsSound, TransferIsSound, UserIsKnown, RemovalIsSound, Free
<1>6. JobsAreSound'
  BY <1>1, <1>2, <1>4, <1>5 DEF JobsAreSound
<1>7. OverlapsAreNoted'
  <2> SUFFICES ASSUME NEW u \in Desks, NEW w \in Desks, u # w, Share(desk'[u], desk'[w])
               PROVE  About(desk'[u]) \cup About(desk'[w]) \subseteq contended'
    BY DEF OverlapsAreNoted
  <2>1. About(Free) = {} /\ Free.user = 0
    BY DEF About, Free
  <2>2. u # v /\ w # v
    BY <1>1, <2>1 DEF Share
  <2> QED
    BY <1>1, <2>2 DEF StaffInv, OverlapsAreNoted
<1>8. DepartmentIsConsistent'
  <2> SUFFICES ASSUME NEW d \in Units \ contended' PROVE KeepsBooks(d)'
    BY DEF DepartmentIsConsistent, KeepsBooks
  <2>1. CASE d \in About(desk[v])
    BY <2>1
  <2>2. CASE d \notin About(desk[v])
    <3>1. DepartmentRests(d) /\ KeepsBooks(d)
      BY <1>3, <2>2 DEF StaffInv, DepartmentIsConsistent, KeepsBooks
    <3>2. headOf[d] \in Staff \cup {0}
      BY DEF StaffInv, StaffTypeOK
    <3> QED
      BY <3>1, <3>2 DEF DepartmentRests, KeepsBooks
  <2> QED
    BY <2>1, <2>2
<1> QED
  BY <1>6, <1>7, <1>8 DEF StaffInv

LEMMA LeavingEarly ==
  ASSUME StaffInv, NEW w \in Desks, Leave(w),
         UNCHANGED <<member, active, headOf, history, removed, waiting, contended>>
  PROVE  StaffInv'
<1>1. About(Free) = {} /\ Free.user = 0
  BY DEF About, Free
<1> QED
  BY <1>1, FreeIsSound, BooksRest DEF Leave
LEMMA AssignManagerComes ==
  ASSUME StaffInv, NEW w \in Desks, NEW d \in Units, NEW u \in Staff \cup {0}, AssignManager(w, d, u)
  PROVE  StaffInv'
<1> DEFINE job == [Free EXCEPT !.stage = IF u = 0 THEN "count" ELSE "begin",
                               !.kind = "assign", !.user = u, !.unit = d]
<1>1. /\ job.stage = (IF u = 0 THEN "count" ELSE "begin")
      /\ job.kind = "assign" /\ job.user = u /\ job.unit = d /\ job.from = 0
  BY DEF Free
<1>2. job \in Jobs
  BY DEF Free, Jobs, Stages, Kinds
<1>3. Take(w, job) /\ d \notin removed /\ (u # 0 => member[u] = d)
      /\ UNCHANGED <<member, active, headOf, history, removed, waiting>>
  BY DEF AssignManager
<1> HIDE DEF job
<1>4. JobIsFormed(job)
  BY <1>1 DEF JobIsFormed, StagesOf
<1>5. JobIsSound(job)
  BY <1>1, <1>3 DEF JobIsSound, AssignIsSound, TransferIsSound, UserIsKnown, RemovalIsSound
<1> QED
  BY <1>2, <1>3, <1>4, <1>5, RequestComes

LEMMA TransferComes ==
  ASSUME StaffInv, NEW w \in Desks, NEW d \in Units \cup {0}, NEW u \in Staff, TransferUser(w, u, d)
  PROVE  StaffInv'
<1> DEFINE job == [Free EXCEPT !.stage = IF member[u] \in {0, d} THEN "begin" ELSE "leave",
                               !.kind = "transfer", !.user = u, !.unit = d,
                               !.from = member[u], !.active = active[u]]
<1>1. /\ job.stage = (IF member[u] \in {0, d} THEN "begin" ELSE "leave")
      /\ job.kind = "transfer" /\ job.user = u /\ job.unit = d /\ job.from = member[u]
  BY DEF Free
<1>2. job \in Jobs
  BY DEF Free, Jobs, Stages, Kinds, StaffInv, StaffTypeOK
<1>3. Take(w, job) /\ d \notin removed
      /\ UNCHANGED <<member, active, headOf, history, removed, waiting>>
  BY DEF TransferUser
<1> HIDE DEF job
<1>4. JobIsFormed(job)
  BY <1>1 DEF JobIsFormed, StagesOf
<1>5. JobIsSound(job)
  BY <1>1, <1>3 DEF JobIsSound, AssignIsSound, TransferIsSound, UserIsKnown, RemovalIsSound
<1> QED
  BY <1>2, <1>3, <1>4, <1>5, RequestComes

LEMMA OtherRequestsCome ==
  ASSUME StaffInv, NEW w \in Desks,
         \/ \E u \in Staff : ChangeActivity(w, u)
         \/ \E d \in Units : RemoveUnit(w, d)
  PROVE  StaffInv'
<1>1. ASSUME NEW u \in Staff, ChangeActivity(w, u) PROVE StaffInv'
  <2> DEFINE job == [Free EXCEPT !.stage = "save", !.kind = "activity", !.user = u,
                                 !.from = member[u], !.active = ~active[u]]
  <2>1. /\ job.stage = "save" /\ job.kind = "activity" /\ job.user = u /\ job.unit = 0
        /\ job.from = member[u]
    BY DEF Free
  <2>2. job \in Jobs
    BY DEF Free, Jobs, Stages, Kinds, StaffInv, StaffTypeOK
  <2>3. Take(w, job) /\ UNCHANGED <<member, active, headOf, history, removed, waiting>>
    BY <1>1 DEF ChangeActivity
  <2> HIDE DEF job
  <2>4. JobIsFormed(job)
    BY <2>1 DEF JobIsFormed, StagesOf
  <2>5. JobIsSound(job)
    BY <2>1 DEF JobIsSound, AssignIsSound, TransferIsSound, UserIsKnown, RemovalIsSound
  <2> QED
    BY <2>2, <2>3, <2>4, <2>5, RequestComes
<1>2. ASSUME NEW d \in Units, RemoveUnit(w, d) PROVE StaffInv'
  <2> DEFINE job == [Free EXCEPT !.stage = "users", !.kind = "remove", !.unit = d]
  <2>1. /\ job.stage = "users" /\ job.kind = "remove" /\ job.user = 0 /\ job.unit = d
        /\ job.from = 0
    BY DEF Free
  <2>2. job \in Jobs
    BY DEF Free, Jobs, Stages, Kinds
  <2>3. Take(w, job) /\ UNCHANGED <<member, active, headOf, history, removed, waiting>>
    BY <1>2 DEF RemoveUnit
  <2> HIDE DEF job
  <2>4. JobIsFormed(job)
    BY <2>1 DEF JobIsFormed, StagesOf
  <2>5. JobIsSound(job)
    BY <2>1 DEF JobIsSound, AssignIsSound, TransferIsSound, UserIsKnown, RemovalIsSound
  <2> QED
    BY <2>2, <2>3, <2>4, <2>5, RequestComes
<1> QED
  BY <1>1, <1>2

\* One request moves on to its next stage.
LEMMA RequestMoves ==
  ASSUME StaffInv, NEW w \in Desks, NEW stage \in Stages, MoveTo(w, stage),
         UNCHANGED <<member, active, headOf, history, removed, waiting, contended>>,
         JobIsFormed([desk[w] EXCEPT !.stage = stage]), JobIsSound([desk[w] EXCEPT !.stage = stage])
  PROVE  StaffInv'
<1> DEFINE job == [desk[w] EXCEPT !.stage = stage]
<1>1. desk[w] \in Jobs
  BY DEF StaffInv, StaffTypeOK
<1>2. job \in Jobs /\ About(job) = About(desk[w]) /\ job.user = desk[w].user
  BY <1>1 DEF Jobs, About
<1>3. desk' = [desk EXCEPT ![w] = job]
  BY DEF MoveTo, StaffInv, StaffTypeOK
<1> HIDE DEF job
<1> QED
  BY <1>2, <1>3, BooksRest DEF job

LEMMA CheckLeavingStep ==
  ASSUME StaffInv, NEW w \in Desks, CheckLeaving(w)
  PROVE  StaffInv'
<1> DEFINE stage == IF desk[w].from \notin removed /\ headOf[desk[w].from] = desk[w].user
                    THEN "count" ELSE "begin"
           job == [desk[w] EXCEPT !.stage = stage]
<1>1. desk[w] \in Jobs /\ JobIsFormed(desk[w]) /\ JobIsSound(desk[w])
  BY DEF StaffInv, StaffTypeOK, JobsAreSound
<1>2. desk[w].stage = "leave" /\ MoveTo(w, stage)
      /\ UNCHANGED <<member, active, headOf, history, removed, waiting, contended>>
  BY DEF CheckLeaving
<1>3. desk[w].kind = "transfer" /\ desk[w].user \in Staff
  BY <1>1, <1>2 DEF JobIsFormed, StagesOf, Jobs, Kinds
<1>4. /\ job.stage = stage /\ job.kind = "transfer" /\ job.user = desk[w].user
      /\ job.unit = desk[w].unit /\ job.from = desk[w].from
  BY <1>1, <1>3 DEF Jobs
<1>5. desk[w].from \in Units \ contended /\ stage = "begin" => headOf[desk[w].from] # desk[w].user
  BY <1>3, UnitsAssumption DEF StaffInv, DepartmentIsConsistent
<1>6. stage \in {"count", "begin"} /\ desk[w].from \in Units \cup {0}
  BY <1>1 DEF Jobs
<1> HIDE DEF job, stage
<1>7. JobIsFormed(job)
  BY <1>3, <1>4, <1>6 DEF JobIsFormed, StagesOf
<1>8. JobIsSound(job)
  BY <1>1, <1>3, <1>4, <1>5, <1>6 DEF JobIsSound, AssignIsSound, TransferIsSound, UserIsKnown,
     RemovalIsSound
<1>9. stage \in Stages
  BY <1>6 DEF Stages
<1> QED
  BY <1>2, <1>7, <1>8, <1>9, RequestMoves DEF job
LEMMA CountPendingStep ==
  ASSUME StaffInv, NEW w \in Desks, CountPendingApprovals(w)
  PROVE  StaffInv'
<1> DEFINE d == IF desk[w].kind = "assign" THEN desk[w].unit ELSE desk[w].from
           job == [desk[w] EXCEPT !.stage = "begin"]
<1>1. desk[w] \in Jobs /\ JobIsFormed(desk[w]) /\ JobIsSound(desk[w])
  BY DEF StaffInv, StaffTypeOK, JobsAreSound
<1>2. desk[w].stage = "count"
      /\ UNCHANGED <<member, active, headOf, history, removed, waiting, contended>>
  BY DEF CountPendingApprovals
<1>3. CASE Leave(w)
  BY <1>2, <1>3, LeavingEarly
<1>4. CASE ~Leave(w)
  <2>1. MoveTo(w, "begin") /\ Quiet(d)
    BY <1>4 DEF CountPendingApprovals, AwaitsUnit, Quiet
  <2>2. desk[w].kind \in {"assign", "transfer"}
    BY <1>1, <1>2 DEF JobIsFormed, StagesOf, Jobs, Kinds
  <2>3. /\ job.stage = "begin" /\ job.kind = desk[w].kind /\ job.user = desk[w].user
        /\ job.unit = desk[w].unit /\ job.from = desk[w].from
    BY <1>1 DEF Jobs
  <2>4. /\ desk[w].kind = "assign" => Quiet(desk[w].unit)
        /\ desk[w].kind = "transfer" => Quiet(desk[w].from)
    BY <2>1
  <2> HIDE DEF job, d
  <2>5. JobIsFormed(job)
    BY <1>1, <2>2, <2>3 DEF JobIsFormed, StagesOf
  <2>6. JobIsSound(job)
    BY <1>1, <2>2, <2>3, <2>4 DEF JobIsSound, AssignIsSound, TransferIsSound, UserIsKnown,
       RemovalIsSound
  <2>7. "begin" \in Stages
    BY DEF Stages
  <2> QED
    BY <1>2, <2>1, <2>5, <2>6, <2>7, RequestMoves DEF job
<1> QED
  BY <1>3, <1>4

LEMMA BeginStep ==
  ASSUME StaffInv, NEW w \in Desks, BeginTransaction(w)
  PROVE  StaffInv'
<1> DEFINE old == desk[w]
           job == desk'[w]
           open == UNION {history[d] : d \in IF old.kind = "assign" THEN {old.unit}
                                             ELSE {old.from} \ {0}}
<1>1. old \in Jobs /\ JobIsFormed(old) /\ JobIsSound(old) /\ desk \in [Desks -> Jobs]
      /\ history \in [Units -> SUBSET Staff]
  BY DEF StaffInv, StaffTypeOK, JobsAreSound
<1>2. old.stage = "begin" /\ old.kind \in {"assign", "transfer"}
      /\ UNCHANGED <<member, active, headOf, history, removed, waiting, contended>>
  BY <1>1 DEF BeginTransaction, JobIsFormed, StagesOf, Jobs, Kinds
<1>3. desk' = [desk EXCEPT ![w].stage = "commit",
                           ![w].releases = (old.kind = "transfer" /\ ReleasesManager(old)),
                           ![w].rows = open]
  BY DEF BeginTransaction
<1>4. open \in SUBSET Staff
  BY <1>1, <1>2 DEF JobIsFormed, Jobs
<1>5. /\ old.kind = "assign" => open = history[old.unit]
      /\ old.kind = "transfer" /\ old.from # 0 => open = history[old.from]
  BY <1>2
<1> HIDE DEF open
<1>6. /\ job.stage = "commit" /\ job.kind = old.kind /\ job.user = old.user
      /\ job.unit = old.unit /\ job.from = old.from /\ job.rows = open
      /\ job.releases = (old.kind = "transfer" /\ ReleasesManager(old))
      /\ job.active = old.active
  BY <1>1, <1>3 DEF Jobs
<1>7. job \in Jobs /\ desk' = [desk EXCEPT ![w] = job]
  <2>1. desk' \in [Desks -> Jobs]
    BY <1>1, <1>3, <1>4 DEF Jobs, Stages
  <2> QED
    BY <1>1, <1>3, <2>1
<1>8. ReleasesManager(job) <=> ReleasesManager(old)
  BY <1>6 DEF ReleasesManager
<1> HIDE DEF job
<1>9. JobIsFormed(job)
  BY <1>1, <1>2, <1>6 DEF JobIsFormed, StagesOf
<1>10. JobIsSound(job)
  <2>1. AssignIsSound(job)
    BY <1>1, <1>2, <1>5, <1>6 DEF JobIsSound, AssignIsSound
  <2>2. TransferIsSound(job)
    BY <1>1, <1>2, <1>5, <1>6, <1>8 DEF JobIsSound, TransferIsSound
  <2>3. UserIsKnown(job) /\ RemovalIsSound(job)
    BY <1>1, <1>2, <1>6 DEF JobIsSound, UserIsKnown, RemovalIsSound
  <2> QED
    BY <2>1, <2>2, <2>3 DEF JobIsSound
<1>11. About(job) = About(old) /\ job.user = old.user
  BY <1>6 DEF About
<1> QED
  BY <1>2, <1>7, <1>9, <1>10, <1>11, BooksRest

LEMMA CountMembersStep ==
  ASSUME StaffInv, NEW w \in Desks, CountMembers(w)
  PROVE  StaffInv'
<1> DEFINE job == [desk[w] EXCEPT !.stage = "delete"]
<1>1. desk[w] \in Jobs /\ JobIsFormed(desk[w]) /\ JobIsSound(desk[w])
  BY DEF StaffInv, StaffTypeOK, JobsAreSound
<1>2. desk[w].stage = "users"
      /\ UNCHANGED <<member, active, headOf, history, removed, waiting, contended>>
  BY DEF CountMembers
<1>3. CASE Leave(w)
  BY <1>2, <1>3, LeavingEarly
<1>4. CASE ~Leave(w)
  <2>1. MoveTo(w, "delete") /\ \A u \in Staff : member[u] # desk[w].unit
    BY <1>4 DEF CountMembers
  <2>2. desk[w].kind = "remove"
    BY <1>1, <1>2 DEF JobIsFormed, StagesOf, Jobs, Kinds
  <2>3. /\ job.stage = "delete" /\ job.kind = "remove" /\ job.user = desk[w].user
        /\ job.unit = desk[w].unit /\ job.from = desk[w].from
    BY <1>1, <2>2 DEF Jobs
  <2> HIDE DEF job
  <2>4. JobIsFormed(job)
    BY <1>1, <2>2, <2>3 DEF JobIsFormed, StagesOf
  <2>5. JobIsSound(job)
    BY <2>1, <2>3 DEF JobIsSound, AssignIsSound, TransferIsSound, UserIsKnown, RemovalIsSound
  <2>6. "delete" \in Stages
    BY DEF Stages
  <2> QED
    BY <1>2, <2>1, <2>4, <2>5, <2>6, RequestMoves DEF job
<1> QED
  BY <1>3, <1>4

LEMMA CommitAssignStep ==
  ASSUME StaffInv, NEW w \in Desks, CommitAssign(w)
  PROVE  StaffInv'
<1> DEFINE job == desk[w]
           d == job.unit
<1>1. job \in Jobs /\ JobIsFormed(job) /\ JobIsSound(job) /\ StaffTypeOK
  BY DEF StaffInv, StaffTypeOK, JobsAreSound
<1>2. /\ job.stage = "commit" /\ job.kind = "assign"
      /\ history' = [history EXCEPT ![d] = (@ \ job.rows) \cup ({job.user} \ {0})]
      /\ headOf' = [headOf EXCEPT ![d] = job.user]
      /\ desk' = [desk EXCEPT ![w] = Free]
      /\ UNCHANGED <<member, active, removed, waiting, contended>>
  BY DEF CommitAssign, ApplyManagerChange, Leave
<1>3. d \in Units /\ job.user \in Staff \cup {0} /\ job.from = 0
  BY <1>1, <1>2 DEF JobIsFormed, Jobs
<1>4. StaffTypeOK'
  BY <1>1, <1>2, <1>3, FreeIsSound DEF StaffTypeOK
<1>5. About(job) = {d}
  BY <1>3, UnitsAssumption DEF About
<1>6. ASSUME NEW c \in (Units \cap About(job)) \ contended PROVE KeepsBooks(c)'
  <2>1. c = d
    BY <1>5
  <2>2. /\ d \notin removed /\ (job.user # 0 => member[job.user] = d)
        /\ job.rows = history[d]
    BY <1>1, <1>2, <2>1 DEF JobIsSound, AssignIsSound
  <2>3. headOf'[c] = job.user /\ history'[c] = {job.user} \ {0}
    BY <1>1, <1>2, <1>3, <2>1, <2>2 DEF StaffTypeOK
  <2> QED
    BY <1>2, <2>1, <2>2, <2>3 DEF KeepsBooks
<1>7. \A c \in Units \ {d} : headOf'[c] = headOf[c] /\ history'[c] = history[c]
  BY <1>1, <1>2 DEF StaffTypeOK
<1> QED
  BY <1>2, <1>4, <1>5, <1>6, <1>7, RequestEnds

LEMMA CommitTransferStep ==
  ASSUME StaffInv, NEW w \in Desks, CommitTransfer(w)
  PROVE  StaffInv'
<1> DEFINE job == desk[w]
           u == job.user
<1>1. job \in Jobs /\ JobIsFormed(job) /\ JobIsSound(job) /\ StaffTypeOK
  BY DEF StaffInv, StaffTypeOK, JobsAreSound
<1>2. /\ job.stage = "commit" /\ job.kind = "transfer"
      /\ member' = [member EXCEPT ![u] = IF job.unit = 0 THEN @ ELSE job.unit]
      /\ active' = [active EXCEPT ![u] = job.active]
      /\ desk' = [desk EXCEPT ![w] = Free]
      /\ UNCHANGED <<removed, waiting, contended>>
  BY DEF CommitTransfer, SaveUserRow, Leave
<1>3. /\ job.releases => /\ history' = [history EXCEPT ![job.from] = (@ \ job.rows) \cup ({0} \ {0})]
                         /\ headOf' = [headOf EXCEPT ![job.from] = 0]
      /\ ~job.releases => UNCHANGED <<headOf, history>>
  BY DEF CommitTransfer, ApplyManagerChange
<1>4. u \in Staff /\ job.unit \in Units \cup {0} /\ job.from \in Units \cup {0}
      /\ job.active \in BOOLEAN /\ job.rows \in SUBSET Staff /\ job.releases \in BOOLEAN
  BY <1>1, <1>2 DEF JobIsFormed, Jobs
<1>5. StaffTypeOK'
  <2>1. member' \in [Staff -> Units \cup {0}] /\ active' \in [Staff -> BOOLEAN]
        /\ desk' \in [Desks -> Jobs]
    BY <1>1, <1>2, <1>4, FreeIsSound DEF StaffTypeOK
  <2>2. headOf' \in [Units -> Staff \cup {0}] /\ history' \in [Units -> SUBSET Staff]
    BY <1>1, <1>3, <1>4 DEF StaffTypeOK
  <2> QED
    BY <1>1, <1>2, <2>1, <2>2 DEF StaffTypeOK
<1>6. \A v \in Staff : member'[v] # member[v] =>
        v = u /\ job.unit # 0 /\ member'[v] = job.unit
  BY <1>1, <1>2 DEF StaffTypeOK
<1>7. \A d \in Units \ {job.from} : headOf'[d] = headOf[d] /\ history'[d] = history[d]
  BY <1>1, <1>3, <1>4 DEF StaffTypeOK
<1>8. ASSUME NEW d \in (Units \cap About(job)) \ contended PROVE KeepsBooks(d)'
  <2>1. KeepsBooks(d) /\ headOf[d] \in Staff \cup {0} /\ d # 0
    BY <1>1, UnitsAssumption DEF StaffInv, DepartmentIsConsistent, KeepsBooks, StaffTypeOK
  <2>2. d \in removed' => \A v \in Staff : member'[v] # d
    BY <1>1, <1>2, <1>6, <2>1 DEF KeepsBooks, JobIsSound, TransferIsSound
  <2>3. CASE d = job.from
    <3>1. job.rows = history[d] /\ (job.releases <=> ReleasesManager(job))
      BY <1>1, <1>2, <2>1, <2>3 DEF JobIsSound, TransferIsSound
    <3>2. CASE job.releases
      <4>1. headOf'[d] = 0 /\ history'[d] = {}
        BY <1>1, <1>3, <2>3, <3>1, <3>2 DEF StaffTypeOK
      <4> QED
        BY <2>2, <4>1 DEF KeepsBooks
    <3>3. CASE ~job.releases
      <4>1. headOf'[d] = headOf[d] /\ history'[d] = history[d]
        BY <1>3, <3>3
      <4>2. headOf[d] # 0 => member'[headOf[d]] = d
        <5>1. headOf[d] = u /\ d # job.unit => d \in removed
          BY <2>1, <2>3, <3>1, <3>3 DEF ReleasesManager
        <5> QED
          BY <1>4, <1>6, <2>1, <5>1, UnitsAssumption DEF KeepsBooks
      <4> QED
        BY <1>2, <2>1, <2>2, <4>1, <4>2 DEF KeepsBooks
    <3> QED
      BY <3>2, <3>3
  <2>4. CASE d # job.from
    <3>1. d = job.unit
      BY <2>4 DEF About
    <3> QED
      BY <1>2, <1>6, <1>7, <2>1, <2>2, <2>4, <3>1 DEF KeepsBooks
  <2> QED
    BY <2>3, <2>4
<1>9. \A d \in Units \ About(job) : d # job.from
  BY UnitsAssumption DEF About
<1>10. job.unit # 0 => job.unit \in About(job)
  BY DEF About
<1> QED
  BY <1>2, <1>5, <1>6, <1>7, <1>8, <1>9, <1>10, RequestEnds
LEMMA SaveActivityStep ==
  ASSUME StaffInv, NEW w \in Desks, SaveActivity(w)
  PROVE  StaffInv'
<1> DEFINE job == desk[w]
           u == job.user
<1>1. job \in Jobs /\ JobIsFormed(job) /\ JobIsSound(job) /\ StaffTypeOK
  BY DEF StaffInv, StaffTypeOK, JobsAreSound
<1>2. job.stage = "save" /\ job.kind = "activity" /\ u \in Staff
      /\ job.from \in Units \cup {0} /\ job.active \in BOOLEAN
  BY <1>1 DEF SaveActivity, JobIsFormed, StagesOf, Jobs, Kinds
<1>3. /\ member' = [member EXCEPT ![u] = job.from]
      /\ active' = [active EXCEPT ![u] = job.active]
      /\ desk' = [desk EXCEPT ![w] = Free]
      /\ UNCHANGED <<headOf, history, removed, waiting, contended>>
  BY <1>2 DEF SaveActivity, SaveUserRow, Leave
<1>4. StaffTypeOK'
  BY <1>1, <1>2, <1>3, FreeIsSound DEF StaffTypeOK
<1>5. \A v \in Staff : member'[v] # member[v] =>
        v = u /\ member'[v] = job.from /\ {member[v], job.from} \ {0} \subseteq contended
  BY <1>1, <1>2, <1>3 DEF StaffTypeOK, JobIsSound, UserIsKnown
<1>6. \A v \in Staff : member'[v] # member[v] => member'[v] \in About(job) \cup {0}
  BY <1>5 DEF About
<1>7. ASSUME NEW d \in (Units \cap About(job)) \ contended PROVE KeepsBooks(d)'
  <2>1. KeepsBooks(d) /\ headOf[d] \in Staff \cup {0}
    BY <1>1 DEF StaffInv, DepartmentIsConsistent, KeepsBooks, StaffTypeOK
  <2>2. \A v \in Staff : member'[v] = d <=> member[v] = d
    BY <1>5, UnitsAssumption
  <2> QED
    BY <1>3, <2>1, <2>2 DEF KeepsBooks
<1> QED
  BY <1>2, <1>3, <1>4, <1>5, <1>6, <1>7, RequestEnds

LEMMA DeleteUnitStep ==
  ASSUME StaffInv, NEW w \in Desks, DeleteUnit(w)
  PROVE  StaffInv'
<1> DEFINE job == desk[w]
<1>1. job \in Jobs /\ JobIsFormed(job) /\ JobIsSound(job) /\ StaffTypeOK
  BY DEF StaffInv, StaffTypeOK, JobsAreSound
<1>2. /\ job.stage = "delete" /\ removed' = removed \cup {job.unit}
      /\ desk' = [desk EXCEPT ![w] = Free]
      /\ UNCHANGED <<member, active, headOf, history, waiting, contended>>
  BY DEF DeleteUnit, Leave
<1>3. job.kind = "remove" /\ job.unit \in Units /\ job.from = 0
  BY <1>1, <1>2 DEF JobIsFormed, StagesOf, Jobs, Kinds
<1>4. About(job) = {job.unit}
  BY <1>3, UnitsAssumption DEF About
<1>5. StaffTypeOK'
  BY <1>1, <1>2, <1>3, FreeIsSound DEF StaffTypeOK
<1>6. ASSUME NEW d \in (Units \cap About(job)) \ contended PROVE KeepsBooks(d)'
  <2>1. d = job.unit /\ KeepsBooks(d) /\ headOf[d] \in Staff \cup {0}
    BY <1>1, <1>4 DEF StaffInv, DepartmentIsConsistent, KeepsBooks, StaffTypeOK
  <2>2. \A u \in Staff : member[u] # d
    BY <1>1, <1>2, <1>3, <2>1 DEF JobIsSound, RemovalIsSound
  <2> QED
    BY <1>2, <2>1, <2>2 DEF KeepsBooks
<1> QED
  BY <1>2, <1>4, <1>5, <1>6, RequestEnds

(* Expenses come and go without a request of the department noticing. *)
LEMMA ExpensesMove ==
  ASSUME StaffInv, StaffTypeOK', UNCHANGED <<member, active, headOf, history, removed, desk>>,
         contended \subseteq contended',
         \A w \in Desks, d \in Units \ contended' :
           d \in About(desk[w]) /\ Quiet(d) => Quiet(d)'
  PROVE  StaffInv'
<1>1. ASSUME NEW w \in Desks, NEW job, job = desk[w]
      PROVE  JobIsFormed(job) /\ JobIsSound(job)'
  <2>1. StaffTypeOK /\ job \in Jobs /\ JobIsFormed(job) /\ JobIsSound(job)
    BY <1>1 DEF StaffInv, StaffTypeOK, JobsAreSound
  <2>2. \A d \in (About(job) \cap Units) \ contended' : DepartmentRests(d)
    BY <1>1 DEF DepartmentRests
  <2>3. UserIsKnown(job)'
    BY <2>1 DEF JobIsSound, UserIsKnown
  <2> QED
    BY <2>1, <2>2, <2>3, BystandersStaySound
<1>2. JobsAreSound'
  BY <1>1 DEF JobsAreSound
<1>3. OverlapsAreNoted'
  BY DEF StaffInv, OverlapsAreNoted
<1>4. DepartmentIsConsistent'
  BY DEF StaffInv, DepartmentIsConsistent
<1> QED
  BY <1>2, <1>3, <1>4 DEF StaffInv

LEMMA ExpenseSteps ==
  ASSUME StaffInv, SettleExpense \/ \E u \in Staff : FileExpense(u)
  PROVE  StaffInv'
<1>1. CASE SettleExpense
  <2>1. waiting' \subseteq waiting
        /\ UNCHANGED <<member, active, headOf, history, removed, desk, contended>>
    BY <1>1 DEF SettleExpense
  <2>2. StaffTypeOK'
    BY <2>1 DEF StaffInv, StaffTypeOK
  <2>3. \A d : Quiet(d) => Quiet(d)'
    BY <2>1 DEF Quiet
  <2> QED
    BY <2>1, <2>2, <2>3, ExpensesMove
<1>2. ASSUME NEW u \in Staff, FileExpense(u) PROVE StaffInv'
  <2>1. /\ member[u] # 0 /\ waiting' = waiting \cup {[owner |-> u, unit |-> member[u]]}
        /\ contended' = contended \cup ({member[u]} \cap UNION {About(desk[w]) : w \in Desks})
        /\ UNCHANGED <<member, active, headOf, history, removed, desk>>
    BY <1>2 DEF FileExpense
  <2>2. member[u] \in Units
    BY <2>1 DEF StaffInv, StaffTypeOK
  <2>3. StaffTypeOK'
    BY <2>1, <2>2 DEF StaffInv, StaffTypeOK
  <2>4. ASSUME NEW w \in Desks, NEW d \in Units \ contended', d \in About(desk[w]), Quiet(d)
        PROVE  Quiet(d)'
    <3>1. d # member[u]
      BY <2>1, <2>4
    <3> QED
      BY <2>1, <2>4, <3>1 DEF Quiet
  <2> QED
    BY <2>1, <2>3, <2>4, ExpensesMove
<1> QED
  BY <1>1, <1>2

LEMMA StaffingStep == ASSUME StaffInv, [StepStaffing]_staffingVars PROVE StaffInv'
<1>1. CASE UNCHANGED staffingVars
  <2>1. UNCHANGED <<member, active, headOf, history, removed, waiting, desk, contended>>
    BY <1>1 DEF staffingVars
  <2>2. StaffTypeOK'
    BY <2>1 DEF StaffInv, StaffTypeOK
  <2>3. \A d : Quiet(d) => Quiet(d)'
    BY <2>1 DEF Quiet
  <2> QED
    BY <2>1, <2>2, <2>3, ExpensesMove
<1>2. ASSUME NEW w \in Desks,
             \/ \E d \in Units, u \in Staff \cup {0} : AssignManager(w, d, u)
             \/ \E d \in Units \cup {0}, u \in Staff : TransferUser(w, u, d)
             \/ \E u \in Staff : ChangeActivity(w, u)
             \/ \E d \in Units : RemoveUnit(w, d)
      PROVE  StaffInv'
  BY <1>2, AssignManagerComes, TransferComes, OtherRequestsCome
<1>3. ASSUME NEW w \in Desks,
             \/ CheckLeaving(w) \/ CountPendingApprovals(w) \/ BeginTransaction(w)
             \/ CommitAssign(w) \/ CommitTransfer(w) \/ SaveActivity(w)
             \/ CountMembers(w) \/ DeleteUnit(w)
      PROVE  StaffInv'
  BY <1>3, CheckLeavingStep, CountPendingStep, BeginStep, CommitAssignStep, CommitTransferStep,
     SaveActivityStep, CountMembersStep, DeleteUnitStep
<1> QED
  BY <1>1, <1>2, <1>3, ExpenseSteps DEF StepStaffing

(* A department that no two overlapping requests were about has a manager who
   works there and stands alone in its history, and none of either once it is
   deleted (applyManagerChange, adminUpdate, DepartmentMutationService.remove). *)
THEOREM DepartmentsStayConsistent == StaffingSpec => []DepartmentIsConsistent
<1>1. StaffInv => DepartmentIsConsistent
  BY DEF StaffInv
<1> QED
  BY StaffingInit, StaffingStep, <1>1, PTL DEF StaffingSpec

(* Nor does such a department lose its manager while someone waits for him
   (assertManagerCanBeCleared, assertManagerCanLeaveDepartment). *)
THEOREM ManagersStay == StaffingSpec => ManagerStaysForWaiting
<1> DEFINE Stays == \A d \in Units \ contended' :
                      headOf[d] # 0 /\ headOf'[d] = 0 =>
                        \A e \in waiting : e.unit # d /\ member[e.owner] # d
<1>1. ASSUME StaffInv, StepStaffing PROVE Stays
  <2> SUFFICES ASSUME NEW d \in Units \ contended', headOf[d] # 0, headOf'[d] = 0
               PROVE  Quiet(d)
    BY DEF Quiet
  <2>1. PICK w \in Desks : CommitAssign(w) \/ CommitTransfer(w)
    BY <1>1 DEF StepStaffing, SettleExpense, FileExpense, AssignManager, TransferUser,
       ChangeActivity, RemoveUnit, CheckLeaving, CountPendingApprovals, BeginTransaction,
       SaveActivity, CountMembers, DeleteUnit
  <2>2. contended' = contended /\ d \notin contended /\ d # 0 /\ desk[w].stage = "commit"
    BY <2>1, UnitsAssumption DEF CommitAssign, CommitTransfer
  <2>3. JobIsSound(desk[w]) /\ headOf \in [Units -> Staff \cup {0}]
    BY <1>1 DEF StaffInv, JobsAreSound, StaffTypeOK
  <2>4. CASE CommitAssign(w)
    <3>1. desk[w].kind = "assign" /\ desk[w].unit = d /\ desk[w].user = 0
      BY <2>3, <2>4 DEF CommitAssign, ApplyManagerChange
    <3> QED
      BY <2>2, <2>3, <3>1 DEF JobIsSound, AssignIsSound
  <2>5. CASE CommitTransfer(w)
    <3>1. desk[w].kind = "transfer" /\ desk[w].from = d /\ desk[w].releases
      BY <2>3, <2>5 DEF CommitTransfer, ApplyManagerChange
    <3>2. ReleasesManager(desk[w])
      BY <2>2, <2>3, <3>1 DEF JobIsSound, TransferIsSound
    <3> QED
      BY <2>2, <2>3, <3>1, <3>2 DEF JobIsSound, TransferIsSound, ReleasesManager
  <2> QED
    BY <2>1, <2>4, <2>5
<1>2. ASSUME StaffInv, [StepStaffing]_staffingVars PROVE [Stays]_staffingVars
  BY <1>1, <1>2
<1> QED
  BY StaffingInit, StaffingStep, <1>2, PTL DEF StaffingSpec, ManagerStaysForWaiting
=============================================================================
