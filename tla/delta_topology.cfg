SPECIFICATION HostSpec
CONSTANTS
  p1 = p1
  p2 = p2
  Procs = {p1, p2}
  Paths <- MCPaths
  Slash = 2
  MaxRecords = 4
  MaxNodes = 8
  StagingTries = 2
  Scenarios <- MCRestScenarios
  Nobody = Nobody
  Number <- MCNumber
  WordBits = 2
  BlockLimit = 28
  BootstrapFd = 1
  EmptyPath = 2
  LaunchPolicies <- MCRestPolicies
  TargetCalls <- MCTargetCalls
  FailCode = 3
  Default <- MCDefault
  Groups <- MCTopologyGroups
  Calls <- MCCalls
  Places = {"p", "q"}
  Digests = {"d", "e"}
  Peers = {"x", "y"}
  MaxBudget = 2
  RestPolicy <- MCRestPolicy
  RestScenario = "rest"
PROPERTIES ApprovedNeverWidens
CHECK_DEADLOCK FALSE
