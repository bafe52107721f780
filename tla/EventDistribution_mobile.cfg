SPECIFICATION FairSpec
CONSTANTS
    Threads = {t1}
    PageSize = 2
    CompactBatch = 2
    MaxLog = 3
    MaxAppend = 2
    Reactors = {}
    Mobile = {m1}
    Desktop = {}
    LiveCapacity = 1
    CaptureCapacity = 2
    PendingCapacity = 1
    StorageFaults = TRUE
    MaxFollowers = 1
CHECK_DEADLOCK FALSE
INVARIANTS
    StreamInv
PROPERTIES
    FollowersServed
