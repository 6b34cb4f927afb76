SPECIFICATION Spec
CONSTANTS
  Targets = {t1}
  Dispatchers = {d1}
  MaxCancels = 1
  MaxRuns = 1
  MaxPlans = 0
  MaxTime = 0
  Stall = 1
  RunMax = 2
  EndedAge = 0
  ReapAfter = 2
  Deadline = 4
CHECK_DEADLOCK FALSE
PROPERTIES CancelledIsFinal
