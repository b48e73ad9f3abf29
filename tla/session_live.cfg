CONSTANTS
  Paths = {p, q}
  Contents = {a, b}
  NoPath = NoPath
  NoFile = NoFile
  Budget = 2
  UserActions = {"edit", "rename", "overwrite", "external"}
SPECIFICATION FairSpec
CHECK_DEADLOCK FALSE
PROPERTIES EditsAreTried LearnsTheDisk
