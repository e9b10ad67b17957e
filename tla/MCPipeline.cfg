CONSTANTS
    Workers = {w1, w2}
    IngestCapacity = 2
    SubscriberCapacity = 1
    ALERT_PERIOD = 2
    MaxCommands = 1
SPECIFICATION FairSpec
INVARIANTS
    TypeOK
    NoUseAfterDestroy
    AtMostOneTickLeft
    NobodyWaitsInVain
PROPERTIES
    ShutdownReachesTransport
    BackPressureIsReleased
    TeardownAdvances
