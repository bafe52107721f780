SPECIFICATION FairSpec
CONSTANTS
    Threads = {t1, t2}
    PageSize = 2
    CompactBatch = 2
    MaxLog = 3
    MaxAppend = 2
    Reactors = {r1}
    Mobile = {}
    Desktop = {}
    LiveCapacity = 1
    CaptureCapacity = 2
    PendingCapacity = 1
    StorageFaults = FALSE
    MaxFollowers = 1
CHECK_DEADLOCK FALSE
PROPERTIES
    LaterIntentsDelivered
