SPECIFICATION FairSpec
CONSTANTS
  N = 3
  Added <- MCAdded
  Removed <- MCRemoved
  MaxDisturbed = 2
  MaxCrashes = 2
  MaxFaults = 2
INVARIANTS WriteAhead DeathIsRecovered
PROPERTIES NoChangeUnderTheChild KeepsPromise
CHECK_DEADLOCK FALSE
