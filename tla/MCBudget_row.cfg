\* Transactions of four expenses on one budget row, the limit of which changes between them.
CONSTANTS
    w = w
    x = x
    y = y
    z = z
    a1 = a1
    Expenses = {w, x, y, z}
    Cost <- SmallAndLarge
    Admins = {a1}
    LimitsToSet = {2, 4}
    MayDeactivate = FALSE
    EditsOnlyWhenQuiet = TRUE
    BlockSubmitOnOverspend = TRUE
    NoRow = NoRow
    NoOne = NoOne
    NoBudget = NoBudget
SPECIFICATION BudgetSpec
INVARIANTS BudgetTypeOK RowMatchesSpend
PROPERTIES ImplementsLedger
SYMMETRY EqualCostSymmetry
CHECK_DEADLOCK FALSE
