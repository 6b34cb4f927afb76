SPECIFICATION MCSpec
CONSTANTS
  Pair = {x1, x2}
  Targets = {t1}
  Dispatchers = {d1}
  MaxCancels = 0
  MaxRuns = 2
  MaxPlans = 0
  MaxTime = 2
  Stall = 0
  RunMax = 1
  EndedAge = 0
  ReapAfter = 1
  Deadline = 3
SYMMETRY Symmetry
CHECK_DEADLOCK FALSE
INVARIANTS
  TypeOK
  FinalizedTruthful
  VerdictsHold
  CatalogueSound
PROPERTIES
  AgeReapIsSafe
