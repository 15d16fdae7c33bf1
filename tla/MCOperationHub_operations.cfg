\* Two operations at once, competing for one operation ID.
CONSTANTS
    Entries = {e1, e2, e3}
    Subs = {}
    Ids = {i1, i2}
    NoEntry = NoEntry
    NoId = NoId
    MaxEvents = 2
    MaxBytes = 8
    CompletionReserve = 4
    CompletionSize = 1
    EventSizes = {5}
    MaxActive = 2
    MaxCompleted = 1
    Retention = 1
    SubscriberQueue = 1
    MaxSubsPerOp = 1
    MaxSubs = 1
    MaxTime = 1
SPECIFICATION Spec
SYMMETRY EntrySymmetry
CHECK_DEADLOCK FALSE
INVARIANTS
    WorkIsExclusiveAndCounted
    RetentionIsBounded
