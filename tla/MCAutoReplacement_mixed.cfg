\* Releases together with builds stamped with a hash only.
CONSTANTS
    Hashes <- ModelHashes
    Clients <- MixedBuilds
    InitialDaemons <- MixedBuilds
SPECIFICATION Spec
INVARIANTS
    NewestDaemonIsKept
