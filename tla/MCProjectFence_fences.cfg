CONSTANTS
    Procs = {p1, p2}
    Nobody = Nobody
    MaxOps = 4
    RepointsAnytime = FALSE
SPECIFICATION FairSpec
CHECK_DEADLOCK FALSE
INVARIANTS
    ClaimIsCurrent
    EndpointIsKnown
PROPERTIES
    SessionsAreRegistered
    OperationsEnd
