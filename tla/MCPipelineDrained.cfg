CONSTANTS
    Workers = {w1, w2}
    IngestCapacity = 2
    SubscriberCapacity = 1
    ALERT_PERIOD = 2
    MaxCommands = 2
SPECIFICATION Spec
SYMMETRY Symmetry
INVARIANT QueuesAreDrained
