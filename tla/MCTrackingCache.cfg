SPECIFICATION FairSpec
CONSTANTS
    GVKs = {"g", "h"}
    Callers = {"c", "d", "r"}
    Sources = {"s"}
    ErrorGVKs <- SomeErrors
    Environments <- AllEnvironments
INVARIANTS TypeOK WaitersRegistered HandlersConnected
PROPERTIES WatchedAreKnown NotRemovedWhileReading CallsEnd
CHECK_DEADLOCK FALSE
