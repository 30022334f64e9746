SPECIFICATION Spec
CONSTANTS
  Handlers = {a1, a2}
  Tokens = {1, 2}
  Codes = {c1, c2}
  Roles = {ra, rb}
  MaxRequests = 3
  Told <- MCTold
  PreferenceSets <- MCPreferenceSets
  MaxAttempts = 2
  MaxFaults = 2
  Checks = {k1, k2, k3}
  Thresholds = {1, 2}
  MaxUtilization = 2
  MaxAlertFaults = 1
  MaxSubmissions = 3
  Administrators = {a1, a2}
  ActorRoles <- MCActorRoles
  WantedSets <- MCWantedSets
  MaxRoleRequests = 2
  People <- MCPeople
  FiledExpenses <- MCFiledExpenses
  LevelTables <- MCLevelTables
  ManagerTables <- MCManagerTables
  NoLevel = NoLevel
  NoMaximum = NoMaximum
  MaxDelegations = 1
  MaxEdits = 1
  MaxInstant = 2
  InstantsPerDay = 1
  DaysPerMonth = 2
  Claims = {a1, a2}
  ClaimAmounts = {2}
  ClaimCategories = {"travel"}
  AttachmentCounts = {0}
  PolicyChoices <- MCPolicyChoices
  CacheTtl = 1
  MaxPolicyInstant = 2
  MaxPolicyChanges = 1
  MaxClaimEdits = 1
  Clients = {a1, a2}
  RateWindow = 2
  RateLimits <- MCRateLimits
  FailClosed <- MCFailClosed
  MaxRateInstant = 3
  Staff = {a1, a2}
  Units = {c1, c2}
  Desks = {a1, a2}
  MaxJobs = 4
  FiledClaims = {a1, a2}
  FigureUnits = {c1, c2}
  BudgetedUnits = {c1, c2}
  CalendarDays <- MCCalendarDays
  ClaimKinds <- MCClaimKinds
  CategoryCaps <- MCCategoryCaps
  Viewers <- MCViewers
  MaxMoves = 1
  EXPORT_ROW_LIMIT = 1
INVARIANTS
  SessionsFollowPassword ContextFollowsAccount OneCodeAtATime
  PendingIsUnderWay OutcomeIsTrue EveryoneTold
  AnnouncedOnce CrossedIsAnnounced PendingIsReminded
  NobodyGivesMoreThanTheyHold DutiesAreSeparated CapabilitiesMatchGuards
  QueueIsWhatCanBeDecided PoliciesAreKept WindowIsLimited DepartmentIsConsistent FiguresAskedAgree
PROPERTIES ManagerStaysForWaiting
SYMMETRY Interchangeable
CHECK_DEADLOCK FALSE
