\* One request and one lease, rescheduled without end, against every stage of the
\* shutdown; fair behaviours.
CONSTANTS
    Requests = {r1}
    Leases = {l1}
    MaxHolds = 2
    MaxPending = 2
SPECIFICATION FairSpec
CHECK_DEADLOCK FALSE
INVARIANTS
    QuietShutdown
    ConnectionsAndReservationsAgree
PROPERTIES
    TimerSparesUsedLease
    HostSettles
