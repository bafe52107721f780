SPECIFICATION Spec
CONSTANTS
    Mode = "direct-unmanaged"
    MaxSequence = 3
    Heavy = {3}
    INPUT_CAPACITY = 3
    BATCH_EVENT_CAPACITY = 3
    REPLAY_BUFFER_CAPACITY = 2
    RESTART_ATTEMPTS = 2
    MaxFaults = 0
    MaxGeneration = 8
    MaxRecoveries = 5
INVARIANT IdleMeansDelivered
CHECK_DEADLOCK FALSE
