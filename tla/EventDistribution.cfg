SPECIFICATION FairSpec
CONSTANTS
    Threads = {t1, t2}
    PageSize = 1
    CompactBatch = 2
    MaxLog = 3
    MaxAppend = 2
    Reactors = {r1}
    Mobile = {}
    Desktop = {d1}
    LiveCapacity = 1
    CaptureCapacity = 2
    PendingCapacity = 1
    StorageFaults = TRUE
    MaxFollowers = 1
CHECK_DEADLOCK FALSE
INVARIANTS
    NumbersNeverReused
    ReplayIsExact
    MissingIsCovered
    StreamInv
PROPERTIES
    StepByStep
    FollowersServed
