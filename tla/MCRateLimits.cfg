SPECIFICATION Spec
CONSTANTS
    Calls = {c1, c2}
    Kinds <- IssueKinds
    Buckets <- IssueBuckets
    Budgets <- IssueBudgets
    Limit <- IssueLimit
    Window <- IssueWindow
    Lag = 1
    MaxTime = 5
SYMMETRY Symmetry
INVARIANTS BudgetHolds RefusedWaits
PROPERTIES WindowsApart RefusedOnlyWhenFull
CHECK_DEADLOCK FALSE
