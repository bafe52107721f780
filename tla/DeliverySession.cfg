SPECIFICATION FairSpec
CONSTANTS
    Mode = "supervisor"
    MaxSequence = 4
    Heavy = {3}
    INPUT_CAPACITY = 2
    BATCH_EVENT_CAPACITY = 3
    REPLAY_BUFFER_CAPACITY = 2
    RESTART_ATTEMPTS = 2
    MaxFaults = 2
    MaxGeneration = 16
    MaxRecoveries = 8
INVARIANTS
    SessionInv
    AckedIsApplied
    CursorsAgree
PROPERTIES
    EverythingApplied
CHECK_DEADLOCK FALSE
