CONSTANTS
    HANDSHAKE_SERVER_VERSIONS = {1}
    Lines <- MCEither
    OutCapacity = 2
    Modulus = 8
    LINE_MAX = 3
    InMax = 2
    OutMax = 2
SPECIFICATION Spec
INVARIANT FailureIsNacked
