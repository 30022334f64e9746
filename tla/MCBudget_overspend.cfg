\* Administrators create and update the budget while expenses are submitted.
CONSTANTS
    w = w
    x = x
    y = y
    z = z
    a1 = a1
    Expenses = {x, y, z}
    Cost <- SmallAndLarge
    Admins = {a1}
    LimitsToSet = {2, 3}
    MayDeactivate = TRUE
    EditsOnlyWhenQuiet = FALSE
    BlockSubmitOnOverspend = TRUE
    NoRow = NoRow
    NoOne = NoOne
    NoBudget = NoBudget
SPECIFICATION BudgetSpec
PROPERTIES OverspendIsBlocked
CHECK_DEADLOCK FALSE
