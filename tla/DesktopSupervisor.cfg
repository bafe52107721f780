SPECIFICATION Spec
CONSTANTS
    Consumers = {main, compact, mascot}
    RecoveryIds = {r1, r2}
    MaxSequence = 3
    MaxGeneration = 3
    max_consumers = 1
    max_consumer_identities = 2
    max_queue_events = 2
    max_in_flight_events = 2
    BASELINE_IDENTITY_HISTORY_LIMIT = 1
INVARIANTS
    InFlightThenQueue
    
PROPERTIES
    NeverBack
    ImplementsCursor
