SPECIFICATION Spec
CONSTANTS
    Owners = {"o"}
    GVKs = {"g"}
    Clients = {"u"}
    MaxCaches = 2
    Anonymous = FALSE
    GiveUps = FALSE
    Crashes = FALSE
    Shutdowns = FALSE
INVARIANT FreedIsStopped
CHECK_DEADLOCK FALSE
