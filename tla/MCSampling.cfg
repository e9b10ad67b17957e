CONSTANTS
    PRODUCER_SLEEP_SLICE_MS = 3
    RADIO_CONTROL_DEFAULT_INTERVAL_MS = 5
    Arguments <- MCArguments
    Modulus = 8
SPECIFICATION FairSpec
INVARIANTS
    TypeOK
    StopIsNoticed
    TickOnTime
PROPERTY LastIntervalIsUsed
