SPECIFICATION FairSpec
CONSTANTS
    s1 = s1
    s2 = s2
    watcher = watcher
    k1 = k1
    k2 = k2
    Subs <- SenderAndWatcher
    Senders <- OneSender
    Cancelers <- OneCancel
    StoredStates <- AnyTask
    CreateIfMissing = FALSE
    AgentEvents <- Completed
    CancelEvents <- NoEvents
    AgentRaises = TRUE
    Polite = FALSE
    Disconnects = FALSE
    AllowAclose = TRUE
    SubCapacity = 2
    MaxEvents = 1
CHECK_DEADLOCK FALSE
PROPERTIES RequestsAnswered CancelsReturn AcloseReturnsEventually
