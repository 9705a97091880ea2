\* Two requests, an agent that may fail, and a cancel.
SPECIFICATION Spec
CONSTANTS
    Kinds <- AllKinds
    MayFail = TRUE
    MayCancel = TRUE
    MaxRequests = 2
    MaxEvents = 2
INVARIANTS TypeOK HistoryInOrder StoreFollows CancelIsFinal
CHECK_DEADLOCK FALSE
