SPECIFICATION FairSpec
CONSTANTS
    Owners <- TwoOwners
    Revisions <- TwoRevisions
    Strategies = {"native", "annotation"}
    CollisionProtection <- NoneThenPrevent
    Siblings <- AllSiblings
    PauseChoices = {FALSE}
    UnfilteredReader = FALSE
    FilteredCache = FALSE
    Finalizers = TRUE
    Archivable = {1}
    Orphanable = {}
    Interference = {"edit", "delete"}
    QuietAt = 3
    MaxVersion = 20
PROPERTIES Converges TeardownCompletes
CHECK_DEADLOCK FALSE
