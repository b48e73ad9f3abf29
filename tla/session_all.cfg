CONSTANTS
  Paths = {p, q}
  Contents = {a, b}
  NoPath = NoPath
  NoFile = NoFile
  Budget = 3
  UserActions = {"edit", "compose", "save", "saveAs", "createNew", "rename", "overwrite", "reload",                 "open", "switch", "recheck", "trash", "external", "faults"}
SPECIFICATION Spec
SYMMETRY Names
CHECK_DEADLOCK FALSE
INVARIANTS OneAtATime CleanIsBaseline
PROPERTIES NoSilentLoss ReplacesOnlyKnown
