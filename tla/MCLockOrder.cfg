SPECIFICATION Spec
CONSTANTS
  CPUs <- MCCPUs
  Locks <- MCLocks
  Paths <- MCPaths
  Rank <- MCRank
  MaxRank = 9
  MaxJobs = 1
  NoCPU = NoCPU
INVARIANT WaitsUpward
INVARIANT NoCircularWait
PROPERTY HandlersReturn
CHECK_DEADLOCK FALSE
