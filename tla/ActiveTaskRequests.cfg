SPECIFICATION Spec
CONSTANTS
    s1 = s1
    s2 = s2
    watcher = watcher
    k1 = k1
    k2 = k2
    Subs <- TwoSenders
    Senders <- TwoSenders
    Cancelers <- Nobody
    StoredStates <- AnyTask
    CreateIfMissing = TRUE
    AgentEvents <- MixedEvents
    CancelEvents <- NoEvents
    AgentRaises = TRUE
    Polite = FALSE
    Disconnects = TRUE
    AllowAclose = FALSE
    SubCapacity = 2
    MaxEvents = 2
CHECK_DEADLOCK FALSE
INVARIANTS TypeOK CleanupOnlyWhenUnused SerialRequests CompleteStreams
