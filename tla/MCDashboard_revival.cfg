SPECIFICATION Spec
CONSTANTS
  pm = pm
  p1 = p1
  p2 = p2
  qm = qm
  q1 = q1
  None = None
  All = All
  Paths <- MCPaths
  Mains <- MCMains
  ProjectOf <- MCProjectOf
  Hub <- MCHub
  Elsewhere <- MCElsewhere
  Missing <- MCMissing
  Launches <- MCLaunches
  MaxGen = 2
  MaxCommands = 3
  MaxOutside = 1
  MaxFailures = 1
  MaxEvents = 3
CHECK_DEADLOCK FALSE
INVARIANTS
  DeletedRowsStayDeleted
