CONSTANTS
  Paths = {p, q}
  Contents = {a, b}
  NoPath = NoPath
  NoFile = NoFile
  Budget = 4
  UserActions = {"edit", "compose", "rename", "overwrite", "external"}
SPECIFICATION Spec
SYMMETRY Names
CHECK_DEADLOCK FALSE
INVARIANTS SettledViewIsCurrent ConflictIsShown
PROPERTIES NoReloadPastOwnWrite ApprovalHolds
