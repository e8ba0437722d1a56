SPECIFICATION FairSpec
CONSTANTS
    Specs = {"x", "y"}
    MaxEdits = 2
    Budgets <- EditsOrDeletions
    HistoryLimit = 1
    ObjectLag = FALSE
PROPERTIES Converges DeletionCompletes
CHECK_DEADLOCK FALSE
