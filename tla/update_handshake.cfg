SPECIFICATION Spec
CONSTANTS
  a1 = a1
  a2 = a2
  h1 = h1
  h2 = h2
  None = None
  Apps = {a1, a2}
  Patient = {a1}
  Helpers = {h1, h2}
  MaxTxns = 2
  MaxLaunches = 2
  MaxTroubles = 1
INVARIANTS RecordsAreSound EditsOnlySettledVersion EditorsAreNotKilled
PROPERTIES
  FilesChangeAlone
  EveryStartIsAnswered
CHECK_DEADLOCK FALSE
