SPECIFICATION FairSpec
CONSTANTS
    s1 = s1
    s2 = s2
    watcher = watcher
    k1 = k1
    k2 = k2
    Subs <- OneSender
    Senders <- OneSender
    Cancelers <- Nobody
    StoredStates <- OldTask
    CreateIfMissing = TRUE
    AgentEvents <- StatusEvents
    CancelEvents <- NoEvents
    AgentRaises = FALSE
    Polite = TRUE
    Disconnects = FALSE
    AllowAclose = FALSE
    SubCapacity = 3
    MaxEvents = 1
CHECK_DEADLOCK FALSE
PROPERTY FinishedIsPruned
