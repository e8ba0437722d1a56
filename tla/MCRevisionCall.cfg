SPECIFICATION Spec
CONSTANTS
    Inputs <- MCInputs
    MaxGeneration = 2
    MaxOptions = 2
INVARIANT OneController
PROPERTY PauseObeyed
PROPERTY ProtectionObeyed
PROPERTY OrphanObeyed
PROPERTY OthersAreSpared
PROPERTY NothingLeftBehind
PROPERTY OnlyValidWritten
PROPERTY CompleteIsReady
PROPERTY OwnersAreTold
