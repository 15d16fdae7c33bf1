\* Two commands of one build and two processes; fair behaviours.
CONSTANTS
    Procs = {p1, p2}
    Commands = {c1, c2}
    Builds <- OneBuild
    Hashes <- ModelHashes
    Nobody = Nobody
SPECIFICATION FairSpec
CHECK_DEADLOCK FALSE
INVARIANTS
    OwnerStaysDiscoverable
PROPERTIES
    CommandsEnd
