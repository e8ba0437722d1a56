SPECIFICATION Spec
CONSTANTS
    Specs = {"x", "y"}
    MaxEdits = 2
    Budgets <- Edits
    HistoryLimit = 1
    ObjectLag = FALSE
PROPERTY PrunesArchived
CHECK_DEADLOCK FALSE
