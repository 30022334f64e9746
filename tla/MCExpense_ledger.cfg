SPECIFICATION Spec
CONSTANTS
  e1 = e1  e2 = e2  l1 = l1  l2 = l2  l3 = l3  u1 = u1  u2 = u2  d1 = d1  c1 = c1  c2 = c2
  Expenses = {e1, e2}
  Levels = {l1, l2}
  Users = {u1, u2}
  Depts = {d1}
  DeptOf <- OneDept
  Clients = {c1, c2}
  Amounts = {1, 2}
  CompliantAmounts = {1, 2}
  Years = {1, 2}
  YearOf <- YearTurns
  Limits <- BudgetBothYears
  LevelRows <- StageRows
  InitialLevels <- LargeToFinance
  BlockSubmitOnOverspend = TRUE
  AdminEdits = {}
  EditsOnlyWhenIdle = FALSE
  MaxInstant = 3
  NoUser = NoUser  NoBudget = NoBudget  Idle = Idle
  NoLevel = NoLevel  NoMaximum = NoMaximum
SYMMETRY ClientSymmetry
INVARIANTS TypeOK LedgerExact WithinLimit AnnouncementMatchesStatus
PROPERTIES SettledIsFinal BudgetsAreLedgers
CHECK_DEADLOCK FALSE
