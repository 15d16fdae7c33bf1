\* Small instances of the components that share no state, explored one by one.
CONSTANTS
    Procs = {p1, p3, p4}
    Nobody = Nobody
    Inodes = {i1, i2, i3}
    MaxAttempts = 4
    Unlinks = TRUE
    MaxEvents = 5
    Clients = {c1, c2}
    Files = {f1, f2}
    Contents = {d1, d2}
    NoDigest = NoDigest
    Unlocked = Unlocked
    MaxEdits = 2
    MaxQueries = 1
    MaxLoads = 3
    MaxWorktrees = 2
    MaxFaults = 1
    m1 = m1
    m2 = m2
    m3 = m3
    a = a
    b = b
    up = up
    low = low
    x1 = x1
    x2 = x2
    y1 = y1
    p1 = p1
    p3 = p3
    p4 = p4
    Refs = {r1}
    NoFile = NoFile
    MaxChanges = 2
    Warmers = {a, b}
    Claimers = {b, c}
    Recoverers = {b, c}
    Pruners = {b, c}
    Movers = {b, c}
    MaxMade = 2
    MaxTouches = 2
    MaxCrashes = 1
    Heads = {h1, h2}
    Sources = {s1, s2}
    Numbers = {1, 2}
    None = None
    MaxMoves = 4
    Openers = {c1}
    Removers = {c2}
    Gens = {f1, f2}
    Protected = {f2}
    Directories = {a, b}
    Branches = {r1, r2}
    MaxSessions = 2
    MaxActs = 1
    Importers = {i1}
    Visitors = {v1}
    MaxCommits = 3
    MaxSyncs = 2
    MaxWrites = 2
    Machines <- ModelMachines
    HostOf <- ModelHostOf
    InfosOf <- ModelInfosOf
    Spellings <- ModelSpellings
    Fold <- ModelFold
    Configured <- ModelConfigured
    Discovered <- ModelDiscovered
    Publishers <- ModelPublishers
    MachineOf <- ModelMachineOf
SPECIFICATION ServicesSpec
CHECK_DEADLOCK FALSE
INVARIANTS
    FollowingIsFaithful
PROPERTIES
    SparesAndBasesAreSafe
    OwnershipIsExclusive
    TrustIsReviewed
    InventoryIsConsistent
    FleetIsTrue
    PruneIsSafe
    SessionsAreKept
    ImportsAreProtected
