SPECIFICATION FairSpec
CONSTANTS
    Calls = {c1, c2}
    ClientIds = {i1}
    FlushIds = {f1}
    Payloads = {p1, p2}
    FlushPayload = p1
    NoPayload = none
    NoCall = nocall
    LegacyIds = {i1}
    Capacity = 2
    Reserved = 1
    MaxEvents = 2
    MaxRecoveries = 1
    MaxCrashes = 1
CHECK_DEADLOCK FALSE
INVARIANTS
    ReceiptMatchesLog
    AtMostOnce
    OutcomeIsDurable
    ReadModelTracksLog
    PublishedInOrder
    AcceptedIsCovered
    
PROPERTIES
    EveryCallSettles
    ImplementsLedger
