SPECIFICATION Spec
CONSTANTS
  save1 = save1
  save2 = save2
  load1 = load1
  load2 = load2
  p1 = p1
  p2 = p2
  i1 = i1
  i2 = i2
  i3 = i3
  i4 = i4
  i5 = i5
  old = old
  new = new
  nofile = nofile
  nodata = nodata
  Savers = {save1}
  Loaders = {load2}
  Pids = {p1, p2}
  PidOf <- MCPidOfOther
  Inos = {i1, i2, i3}
  Data = {old, new}
  NoFile = nofile
  NoData = nodata
  Guards <- MCGuards
  Pinning = TRUE
  MaxAttempts = 3
  MaxStuck = 1
SYMMETRY InoSymmetry
PROPERTIES
  RecoversOnlyInterruptedMoves
CHECK_DEADLOCK FALSE
