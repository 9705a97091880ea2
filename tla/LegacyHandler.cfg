SPECIFICATION FairSpec
CONSTANTS
    r1 = r1
    r2 = r2
    w1 = w1
    k1 = k1
    Nobody = Nobody
    Reqs <- TwoRequests
    Watchers <- OneWatcher
    Cancels <- OneCancel
    Parties <- RequestAndOther
    ClientsLeave <- OneOfEach
    Modes <- SendOrStream
    Kinds <- SomeEvents
    MaxEvents = 2
    AgentsRaise = TRUE
CHECK_DEADLOCK FALSE
INVARIANTS TypeOK EventsPersist StreamsAreComplete
PROPERTIES Settles
