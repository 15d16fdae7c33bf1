\* One command of any build and three processes of any build; a path with an
\* alias and two more paths, two runs of doctor.
CONSTANTS
    Procs = {p1, p2, p3}
    Commands = {c1}
    Builds <- AllBuilds
    Hashes <- ModelHashes
    Nobody = Nobody
    home = home
    link = link
    left = left
    right = right
    Identities = {id}
    Doctors = {d1, d2}
    MaxTrees = 2
    MaxSteps = 2
    MaxRuns = 2
    MaxProjects = 2
SPECIFICATION ServicesSpec
SYMMETRY Symmetry
CHECK_DEADLOCK FALSE
INVARIANTS
    NoPhantomOwners
    UnprovenOrderNeverReplaces
    ReplacedDaemonIsGone
PROPERTIES
    RepairsAreSafe
