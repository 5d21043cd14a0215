CONSTANTS
  v1 = v1
  v2 = v2
  s1 = s1
  s2 = s2
  k1 = k1
  k2 = k2
  x1 = x1
  x2 = x2
  m1 = m1
  m2 = m2
  b1 = b1
  b2 = b2
  Vols <- MCVols
  Snaps <- MCSnaps
  Handlers <- MCHandlers
  Buckets <- MCBuckets
  Sandboxes <- MCSandboxes
  Managers <- MCManagers
  Wirings <- MCWirings
  Mounts <- MCMounts
  Budgets <- MCBudgets
  MaxFaults = 1
SYMMETRY Symmetric
SPECIFICATION VolumesSpec
 
INVARIANT NoOrphanBlock
INVARIANT MountsMatchHolders
CHECK_DEADLOCK FALSE
