SPECIFICATION FairSpec
CONSTANTS
    Objects = {"a", "b", "c"}
    Revisions = {1, 2}
    Phases <- TwoSmallRevisions
    Probed = {"a"}
    Finalized = {"b"}
    Taken = {"c"}
    AggregateErrors = FALSE
    PauseChoices = {FALSE}
    Preflight = {"ok"}
    Lag = TRUE
    Deletable = {}
PROPERTIES ObjectsManaged RolloutCompletes TeardownCompletes
