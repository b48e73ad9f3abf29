SPECIFICATION FairSpec
CONSTANTS
  Roots = {r1}
  NoRoot = NoRoot
  Names = {a, b}
  Dir = Dir
  Orders = {UpdatedNewest, NameAscending}
  ReadOrder = UpdatedNewest
  Budget = 3
  MaxFaults = 2
INVARIANT QuietIsCurrent
PROPERTIES NothingOlderIsShown CatchesUp
CHECK_DEADLOCK FALSE
