SPECIFICATION FairSpec
CONSTANTS
    s1 = s1
    s2 = s2
    w1 = w1
    k1 = k1
    k2 = k2
    Senders <- TwoSenders
    Watchers <- OneWatcher
    Cancelers <- OneCancel
    MaxInstances = 3
    StoredStates <- AnyState
    CancelWrites = TRUE
    AllowAclose = TRUE
CHECK_DEADLOCK FALSE
INVARIANTS TypeOK RunningIsRegistered CancelHolds
PROPERTIES FinishedIsForgotten
