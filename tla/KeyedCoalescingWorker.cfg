SPECIFICATION FairSpec
CONSTANTS
    Keys = {k1, k2}
    Drainers = {d1, d2}
    MaxEnqueues = 3
CHECK_DEADLOCK FALSE
INVARIANTS
    Conserved
    DrainMeansDone
PROPERTIES
    EveryValueAttempted
    DrainReturns
