CONSTANTS
  Procs = {h1, h2}
  NoProc = NoProc
  Creds = {k1, k2, k3}
  NoCred = NoCred
  MaxRev = 3
  MaxFaults = 3
  MaxCrashes = 1
SPECIFICATION Spec
SYMMETRY Alike
CHECK_DEADLOCK FALSE
INVARIANTS JournalIsSound NamedKeyExists TurnKeepsItsSettings
PROPERTIES NoBlindSave
