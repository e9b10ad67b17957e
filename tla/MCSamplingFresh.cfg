CONSTANTS
    PRODUCER_SLEEP_SLICE_MS = 2
    RADIO_CONTROL_DEFAULT_INTERVAL_MS = 5
    Arguments <- MCArguments
    Modulus = 8
SPECIFICATION Spec
INVARIANT FreshIntervalIsNoticed
