SPECIFICATION Spec
CONSTANTS
  e1 = e1  e2 = e2  l1 = l1  l2 = l2  l3 = l3  u1 = u1  u2 = u2  d1 = d1  c1 = c1  c2 = c2
  Expenses = {e1}
  Levels = {l1, l2, l3}
  Users = {u1, u2}
  Depts = {d1}
  DeptOf <- OneDept
  Clients = {c1}
  Amounts = {1, 2}
  CompliantAmounts = {1}
  Years = {1}
  YearOf <- SameYear
  Limits <- NoBudgets
  LevelRows <- EditableRows
  InitialLevels <- ThreeStages
  BlockSubmitOnOverspend = FALSE
  AdminEdits = {"levels", "managers", "departments"}
  EditsOnlyWhenIdle = TRUE
  MaxInstant = 2
  NoUser = NoUser  NoBudget = NoBudget  Idle = Idle
  NoLevel = NoLevel  NoMaximum = NoMaximum
INVARIANTS PendingCanBeDecided
CHECK_DEADLOCK FALSE
