CONSTANTS
    Threads = {t1, t2, t3}
    Items = {a, b}
    NoItem = NoItem
    RequestedCapacity = 2
    MSG_QUEUE_DEFAULT_CAPACITY = 2
SPECIFICATION FairSpec
INVARIANTS
    TypeOK
    RingConsistent
    NoLostWakeup
    NobodySleepsAfterShutdown
PROPERTIES
    ImplementsBoundedQueue
    ShutdownReleasesCallers
    SleepersAreServed
