CONSTANTS
  BrokenThreshold = 2
  Clocks = {0, 3}
  MaxSaves = 3
  MaxRemovals = 1
  MaxFaults = 3
  MaxReloads = 2
SPECIFICATION FairSpec
INVARIANTS LandedStandsUnless SavedIsKept RemovedStaysRemoved
PROPERTIES EverySaveLands
CHECK_DEADLOCK FALSE
