SPECIFICATION Spec
CONSTANTS
    Owners <- ThreeOwners
    Revisions <- ThreeRevisions
    Strategies = {"native"}
    CollisionProtection <- AllPrevent
    Siblings <- AllSiblings
    PauseChoices = {FALSE}
    UnfilteredReader = TRUE
    FilteredCache = FALSE
    Finalizers = FALSE
    Archivable = {1}
    Orphanable = {}
    Interference = {}
    QuietAt = 0
    MaxVersion = 10
PROPERTY RemovesOnlyOwnRef
CHECK_DEADLOCK FALSE
