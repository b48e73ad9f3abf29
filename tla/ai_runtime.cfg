CONSTANTS
  Callers = {t1, t2}
  NoCaller = NoCaller
  MaxRev = 1
  Budget = 3
  MaxFaults = 1
SPECIFICATION FairSpec
CHECK_DEADLOCK FALSE
INVARIANTS LockOutlivesChild ReadyServesItsRevision
PROPERTIES ReadyLostForCause EveryoneIsAnswered
