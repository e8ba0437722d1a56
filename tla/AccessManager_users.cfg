SPECIFICATION FairSpec
CONSTANTS
    Owners = {"o"}
    GVKs = {"g"}
    Clients = {"u", "v"}
    MaxCaches = 2
    Anonymous = TRUE
    GiveUps = TRUE
    Crashes = TRUE
    Shutdowns = TRUE
INVARIANTS TypeOK UsersKeepTheirCache EventsReachUsers
PROPERTIES UsedInformersStay RequestsAnswered
CHECK_DEADLOCK FALSE
