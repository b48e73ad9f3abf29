SPECIFICATION Spec
CONSTANTS
  d1 = d1
  d2 = d2
  root = root
  sub = sub
  w1 = w1
  w2 = w2
  ui = ui
  Drafts = {d1}
  Root = root
  Targets = {root, sub}
  Workers = {w1, w2}
  Ui = ui
  Budget = 5
  UserActions <- MCUserActions
INVARIANTS JournalIsSound
PROPERTIES
  JournalOnlyAdvances
  LeavingKeepsNotes
  EditsReachJournal
CHECK_DEADLOCK FALSE
