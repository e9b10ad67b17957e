CONSTANTS
    telemetry = telemetry
    alerts = alerts
    telemetry_and_more = telemetry_and_more
    Names = {telemetry, alerts}
    LongNames = {}
    Cut <- MCCut
    PUBSUB_MAX_TOPICS = 2
    PUBSUB_MAX_SUBSCRIBERS_PER_TOPIC = 2
    Publishers = {p1, p2}
    Sessions = {s1, s2}
    TOPIC_TELEMETRY = telemetry
    TOPIC_ALERTS = alerts
    Capacity = 3
    MaxMessages = 3
    Modulus = 2
    NoOne = NoOne
    Nothing = Nothing
SPECIFICATION Spec
SYMMETRY Symmetry
INVARIANTS
    SameOrder
    DisorderBounded
