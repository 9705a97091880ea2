SPECIFICATION FairSpec
CONSTANTS
    r1 = r1
    r2 = r2
    w1 = w1
    k1 = k1
    u1 = u1
    u2 = u2
    Nobody = Nobody
    Reqs <- TwoRequests
    Watchers <- OneWatcher
    Cancels <- OneCancel
    Parties <- RequestAndOther
    Modes <- EachMode
    Kinds <- SomeKinds
    MaxEvents = 2
    Rows <- NewOrStored
    Urls <- Endpoints
    IdOf <- SameId
    Brings <- Brought
    Unsafe <- NoEndpoint
CHECK_DEADLOCK FALSE
INVARIANTS TypeOK BlockingAnswers FailureIsTold EndpointsFollow NoGap
PROPERTIES MessagesAreAnswered
