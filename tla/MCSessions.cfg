CONSTANTS
  Conns = {c1, c2}
  Limits = {1, 2}
  Free = Free
  Nil = Nil
  s1 = s1
  s2 = s2
  Selections = {s1, s2}
  MaxRequests = 2
  MaxChanges = 1
  None = None
  Complete = Complete
SPECIFICATION MCSpec
INVARIANTS AdmissionExact ShutdownComplete PollingContinues
PROPERTIES ShutdownDrains ResyncAnswered ReportIsSelected SelectionIsShown
CHECK_DEADLOCK FALSE
