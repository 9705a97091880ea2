SPECIFICATION Spec
CONSTANTS
    s1 = s1
    s2 = s2
    w1 = w1
    k1 = k1
    k2 = k2
    Senders <- TwoSenders
    Watchers <- OneWatcher
    Cancelers <- TwoCancels
    MaxInstances = 3
    StoredStates <- Working
    CancelWrites = FALSE
    AllowAclose = FALSE
CHECK_DEADLOCK FALSE
INVARIANTS OneProducer
