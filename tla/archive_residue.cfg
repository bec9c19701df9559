SPECIFICATION PubSpec
CONSTANTS
  p1 = p1
  p2 = p2
  Procs = {p1, p2}
  Paths <- MCPaths
  Slash = 2
  MaxRecords = 4
  MaxNodes = 8
  StagingTries = 2
  Scenarios <- MCMeeting
  Nobody = Nobody
INVARIANTS NoResidueAtDestination
CHECK_DEADLOCK FALSE
