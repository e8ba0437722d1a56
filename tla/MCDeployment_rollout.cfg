SPECIFICATION Spec
CONSTANTS
    Specs = {"x", "y"}
    MaxEdits = 2
    Budgets <- EditsOrPauses
    HistoryLimit = 3
    ObjectLag = TRUE
INVARIANT FinalizerProtects
PROPERTY NoOutage
CHECK_DEADLOCK FALSE
