--------------------------- MODULE RoleAdministration ---------------------------
(***************************************************************************)
(* One custom role under administration: it is created, from a template or *)
(* empty, given permissions by several administrators at once, assigned to *)
(* a user and removed.  RoleService uses no transaction, so the statements *)
(* of a request interleave with those of the others.                       *)
(***************************************************************************)
EXTENDS AccessRoutes, Naturals

CONSTANTS Administrators, \* who administer roles
          ActorRoles,     \* role name -> permissions: the roles an administrator may hold
          WantedSets,     \* permission sets an administrator asks for, templates among them
          MaxRoleRequests     \* bound: requests that write the permissions

\* The permissions asked for are rows of the catalogue: others are refused.
ASSUME WantedSetsAssumption == WantedSets \subseteq SUBSET PERMISSION_SEEDS

VARIABLES actorRole,       \* administrator -> name of the role he holds
          roleRow,         \* "absent", "live" or "removed"
          rolePermissions, \* the rows of role_permissions
          assignment,      \* administrator -> the request he runs
          holders,         \* how many users hold the role
          removal,         \* the request that removes the role
          givers,          \* administrators whose permissions were written
          overlapped,      \* two assignments were under way at once
          requests         \* requests so far
roleVars == <<actorRole, roleRow, rolePermissions, assignment, holders, removal,
              givers, overlapped, requests>>

Actor(a) == [id |-> a, role |-> actorRole[a], permissions |-> ActorRoles[actorRole[a]],
             managedDepartmentIds |-> {}]
NoAssignment == [step |-> "idle", wanted |-> {}, existing |-> {}]

InitRoles ==
  /\ actorRole \in [Administrators -> DOMAIN ActorRoles]
  /\ roleRow = "absent" /\ rolePermissions = {}
  /\ assignment = [a \in Administrators |-> NoAssignment]
  /\ holders = 0 /\ removal = "idle" /\ givers = {} /\ overlapped = FALSE
  /\ requests = 0

(* create: the row is saved before the template's permissions are assigned,
   which is an assignment like any other and may be refused. *)
CreateRole(a) ==
  /\ roleRow = "absent" /\ assignment[a].step = "idle"
  /\ can(Actor(a), "create", "role")
  /\ roleRow' = "live"
  /\ \/ UNCHANGED assignment
     \/ \E key \in DOMAIN ROLE_TEMPLATES :
          assignment' = [assignment EXCEPT ![a] =
            [step |-> "read", wanted |-> ROLE_TEMPLATES[key], existing |-> {}]]
  /\ UNCHANGED <<actorRole, rolePermissions, holders, removal, givers, overlapped, requests>>

RequestPermissions(a) ==
  /\ assignment[a].step = "idle" /\ can(Actor(a), "update", "role")
  /\ requests < MaxRoleRequests /\ requests' = requests + 1
  /\ \E wanted \in WantedSets :
       assignment' = [assignment EXCEPT ![a] =
         [step |-> "read", wanted |-> wanted, existing |-> {}]]
  /\ UNCHANGED <<actorRole, roleRow, rolePermissions, holders, removal, givers, overlapped>>

OthersWriting(a) ==
  \E b \in Administrators \ {a} : assignment[b].step \in {"remove", "add", "save"}

(* setPermissions up to its first write: the role and its permissions are
   read, the request is checked. *)
ReadRole(a) ==
  /\ assignment[a].step = "read"
  /\ assignment' = [assignment EXCEPT ![a] =
       IF roleRow = "live" /\ canAssignPermissions(Actor(a), assignment[a].wanted)
         THEN [step |-> "remove", wanted |-> @.wanted, existing |-> rolePermissions]
         ELSE NoAssignment]
  /\ overlapped' = (overlapped \/ OthersWriting(a))
  /\ UNCHANGED <<actorRole, roleRow, rolePermissions, holders, removal, givers, requests>>

(* addAndRemove: one DELETE, then one INSERT that fails as a whole on a
   permission the role already has. *)
RemovePermissions(a) ==
  /\ assignment[a].step = "remove"
  /\ rolePermissions' = rolePermissions \ assignment[a].existing
  /\ assignment' = [assignment EXCEPT ![a].step = "add"]
  /\ UNCHANGED <<actorRole, roleRow, holders, removal, givers, overlapped, requests>>

AddPermissions(a) ==
  /\ assignment[a].step = "add"
  /\ assignment' = [assignment EXCEPT ![a] = NoAssignment]
  /\ IF assignment[a].wanted \cap rolePermissions = {}
       THEN /\ rolePermissions' = rolePermissions \cup assignment[a].wanted
            /\ givers' = givers \cup {a}
       ELSE UNCHANGED <<rolePermissions, givers>>
  /\ UNCHANGED <<actorRole, roleRow, holders, removal, overlapped, requests>>

(* update: the name or the description changes, but the entity that is saved
   was loaded with its permissions, and they are written as they were read. *)
RequestUpdate(a) ==
  /\ assignment[a].step = "idle" /\ can(Actor(a), "update", "role")
  /\ roleRow = "live" /\ requests < MaxRoleRequests /\ requests' = requests + 1
  /\ assignment' = [assignment EXCEPT ![a] =
       [step |-> "save", wanted |-> {}, existing |-> rolePermissions]]
  /\ overlapped' = (overlapped \/ OthersWriting(a))
  /\ UNCHANGED <<actorRole, roleRow, rolePermissions, holders, removal, givers>>

SaveRole(a) ==
  /\ assignment[a].step = "save"
  /\ rolePermissions' = assignment[a].existing
  /\ assignment' = [assignment EXCEPT ![a] = NoAssignment]
  /\ UNCHANGED <<actorRole, roleRow, holders, removal, givers, overlapped, requests>>

(* UserService.adminUpdate gives a live role to a user, or takes it away. *)
AssignRole ==
  /\ roleRow = "live" /\ holders = 0 /\ holders' = 1
  /\ UNCHANGED <<actorRole, roleRow, rolePermissions, assignment, removal, givers,
                 overlapped, requests>>
UnassignRole ==
  /\ holders = 1 /\ holders' = 0
  /\ UNCHANGED <<actorRole, roleRow, rolePermissions, assignment, removal, givers,
                 overlapped, requests>>

(* remove: the count of its users, then the soft delete. *)
CountUsers(a) ==
  /\ roleRow = "live" /\ removal = "idle" /\ holders = 0
  /\ can(Actor(a), "delete", "role")
  /\ removal' = "counted"
  /\ UNCHANGED <<actorRole, roleRow, rolePermissions, assignment, holders, givers,
                 overlapped, requests>>
SoftDelete ==
  /\ removal = "counted" /\ removal' = "done" /\ roleRow' = "removed"
  /\ UNCHANGED <<actorRole, rolePermissions, assignment, holders, givers, overlapped, requests>>

(* jwt.strategy loads the user with the role that is not deleted. *)
Member(managed) ==
  [id |-> "member", role |-> IF roleRow = "live" THEN "custom" ELSE None,
   permissions |-> IF roleRow = "live" THEN rolePermissions ELSE {},
   managedDepartmentIds |-> managed]

StepRoles ==
  \/ \E a \in Administrators :
       \/ CreateRole(a) \/ RequestPermissions(a) \/ ReadRole(a)
       \/ RemovePermissions(a) \/ AddPermissions(a)
       \/ RequestUpdate(a) \/ SaveRole(a) \/ CountUsers(a)
  \/ AssignRole \/ UnassignRole \/ SoftDelete
RoleSpec == InitRoles /\ [][StepRoles]_roleVars

(* Whatever administrators do at once, a member of the role may do only what
   one of those whose assignments were written may do himself: nobody gives
   away more than he holds (PermissionAssignmentPolicy), own or company-wide. *)
NobodyGivesMoreThanTheyHold ==
  roleRow = "live" => \A p \in PERMISSION_SEEDS, scope \in {None, "self", "global"} :
    hasPermission(Member({}), p.action, p.resource, scope) =>
      \E a \in givers : hasPermission(Actor(a), p.action, p.resource, scope)

(* A role never lets the same user submit and decide, unless two requests
   wrote its permissions at the same time: each checks only what it adds. *)
DutiesAreSeparated ==
  ~overlapped => ~(/\ Holds(rolePermissions, "expense", "submit")
                   /\ \E a \in {"approve", "reject"} : Holds(rolePermissions, "approval", a))

Asked == {route.any : route \in Guarded}

(* What the front end shows is what the guard admits: for every route, one of
   its actions is shown exactly if the guard lets the member through.  A role
   with only one of approve and reject is shown both. *)
CapabilitiesMatchGuards ==
  roleRow = "live" => \A managed \in {{}, {"dept"}} :
    LET u == Member(managed)
        shown == capabilitiesFromAuthContext(u)
    IN  (can(u, "approve", "approval") <=> can(u, "reject", "approval"))
        => \A any \in Asked :
             canActivate(u, [kind |-> "policy", any |-> any]) <=> any \cap shown # {}
=============================================================================
