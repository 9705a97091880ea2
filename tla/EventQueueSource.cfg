SPECIFICATION FairSpec
CONSTANTS
    def = def
    obs = obs
    c1 = c1
    c2 = c2
    Sinks <- TwoSinks
    InitialSinks <- Default
    EvictOnFull <- Observer
    LiveReaders <- Default
    Closers <- TwoClosers
    Capacity = 1
    MaxEvents = 2
    AllowForced = TRUE
CHECK_DEADLOCK FALSE
INVARIANTS TypeOK NoTapSurvivesClose GracefulCloseLosesNothing
PROPERTIES ImplementsBroadcast ProducersRecover CloseCompletes
