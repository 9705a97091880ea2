\* One request of an agent that fails, and a cancel.
SPECIFICATION Spec
CONSTANTS
    Kinds <- AllKinds
    MayFail = TRUE
    MayCancel = TRUE
    MaxRequests = 1
    MaxEvents = 1
INVARIANTS
    CancelIsStored
CHECK_DEADLOCK FALSE
