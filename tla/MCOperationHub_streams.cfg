\* Two subscribers of one operation whose log reaches its byte limit.
CONSTANTS
    Entries = {e1}
    Subs = {s1, s2}
    Ids = {i1}
    NoEntry = NoEntry
    NoId = NoId
    MaxEvents = 4
    MaxBytes = 7
    CompletionReserve = 2
    CompletionSize = 2
    EventSizes = {2}
    MaxActive = 1
    MaxCompleted = 1
    Retention = 1
    SubscriberQueue = 1
    MaxSubsPerOp = 2
    MaxSubs = 2
    MaxTime = 0
SPECIFICATION Spec
SYMMETRY Symmetry
CHECK_DEADLOCK FALSE
INVARIANTS
    TerminalStreamsEndWithCompletion
    HubNeverWedges
    SubscribersSeeEveryEvent
PROPERTIES
    GracePeriodRestartsOnAttach
