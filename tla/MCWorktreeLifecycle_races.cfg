\* Two processes and three operations on one path, with crashes and a user who
\* opens, deletes and prunes what he finds there.
CONSTANTS
    Procs = {p1, p2}
    Nobody = Nobody
    MaxOps = 3
SPECIFICATION FairSpec
\* The bound on operations ends every behaviour.
CHECK_DEADLOCK FALSE
INVARIANTS
    ClaimIsKept
PROPERTIES
    RemovalIsFenced
    CreatedIsProtected
    OperationsEnd
