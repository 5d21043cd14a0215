SPECIFICATION Spec
CONSTANTS
  Width = 2
  Size = 5
  Base <- MCBase
  Values = {0, 1}
  MaxRun = 3
  CacheTables = 1
  HostClusters = 12
  MaxOps = 3
  MaxFaults = 1
CHECK_DEADLOCK FALSE
INVARIANT NoSharedCluster
PROPERTY IsDisk
