SPECIFICATION Spec
CONSTANTS
    Owners <- TwoOwners
    Revisions <- TwoRevisions
    Strategies = {"none", "native", "annotation"}
    CollisionProtection <- PreventThenIfNoController
    Siblings <- AllSiblings
    PauseChoices = {TRUE, FALSE}
    UnfilteredReader = TRUE
    FilteredCache = TRUE
    Finalizers = TRUE
    Archivable = {1}
    Orphanable = {1}
    Interference = {"create", "adopt", "edit", "delete"}
    QuietAt = 4
    MaxVersion = 5
INVARIANT OneController
PROPERTIES NoStolenControl DeleteOnlyControlled SuccessMeansApplied PausedWritesNothing ImplementsManagedObject
CHECK_DEADLOCK FALSE
