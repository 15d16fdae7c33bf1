\* Fair behaviours of one operation, one subscriber and the drain.
CONSTANTS
    Entries = {e1}
    Subs = {s1}
    Ids = {i1}
    NoEntry = NoEntry
    NoId = NoId
    MaxEvents = 3
    MaxBytes = 9
    CompletionReserve = 1
    CompletionSize = 1
    EventSizes = {1}
    MaxActive = 1
    MaxCompleted = 1
    Retention = 1
    SubscriberQueue = 1
    MaxSubsPerOp = 1
    MaxSubs = 1
    MaxTime = 0
SPECIFICATION FairSpec
CHECK_DEADLOCK FALSE
PROPERTIES
    DrainReleasesEveryWorker
    NothingIsHeldForever
