CONSTANTS
    telemetry = telemetry
    alerts = alerts
    telemetry_and_more = telemetry_and_more
    Names <- MCNames
    LongNames = {telemetry_and_more}
    Cut <- MCCut
    PUBSUB_MAX_TOPICS = 2
    PUBSUB_MAX_SUBSCRIBERS_PER_TOPIC = 2
    Publishers = {p1, p2}
    Sessions = {s1, s2}
    TOPIC_TELEMETRY = telemetry
    TOPIC_ALERTS = alerts
    Capacity = 1
    MaxMessages = 2
    Modulus = 2
    NoOne = NoOne
    Nothing = Nothing
SPECIFICATION FairSpec
INVARIANTS
    TypeOK
    NoDanglingSubscriber
    RegistryExact
    PayloadsAccounted
    EveryoneOffered
PROPERTIES
    PublishReturns
    ImplementsBroadcast
