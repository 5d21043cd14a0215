SPECIFICATION Spec
CONSTANTS
  a = a
  b = b
  c = c
  RestoredId = c
  Root = Root
  Task <- MCTask
  Slot = {1, 2}
  Profiles <- MCProfiles
  MaxValue = 2
SYMMETRY Symmetry
INVARIANT ChainsResolve
INVARIANT CompleteWhenListed
INVARIANT FrozenOnlyWhileCaptured
