SPECIFICATION Spec
CHECK_DEADLOCK FALSE
CONSTANTS
    Objects = {"a", "b", "d"}
    Revisions = {1, 2}
    Phases <- TwoRevisions
    Probed = {"a", "b"}
    Finalized = {"d"}
    Taken = {"d"}
    AggregateErrors = TRUE
    PauseChoices = {TRUE, FALSE}
    Preflight = {"ok", "invalid", "error"}
    Lag = FALSE
    Deletable = {1, 2}
INVARIANTS TypeOK PhaseOrder TornDownHoldsNothing ArchivedForRolledOut
PROPERTY ProgressedMeansHandedOver
