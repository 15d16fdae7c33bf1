\* Two callers; a jump host that is kept idle and a host that forwards an agent.
CONSTANTS
    jump = jump
    agentHost = agentHost
    Ids = {jump, agentHost}
    Terminals = {agentHost}
    Agents = {agentHost}
    Chain <- AgentChain
    KeepsIdle = TRUE
    Callers = {c1, c2}
    Sweeper = Sweeper
    Closer = Closer
    Nobody = Nobody
    MaxGen = 3
    Helpers = {h1, h2, h3}
    MaxRounds = 2
    MaxConnections = 2
    None = None
    Commands = {k1}
    Routes = {r1, r2}
    MaxAttempts = 3
    MaxChanges = 4
    pm = pm
    p1 = p1
    p2 = p2
    qm = qm
    q1 = q1
    All = All
    MaxCommands = 2
    MaxOutside = 1
    MaxFailures = 1
    MaxEvents = 3
SPECIFICATION ServicesSpec
SYMMETRY Symmetry
CHECK_DEADLOCK FALSE
INVARIANTS
    ConnectionsAreKept
    PromptsAreKept
    LeasesServeTheirCommands
    NothingIsForgotten
PROPERTIES
    RowsAreTrue
