SPECIFICATION MCSpec
CONSTANTS
  Pair = {x1, x2}
  OtherPair = {y1, y2}
  Producers = {p1, p2}
  Drains = {dr1}
  Workers = {wk1}
  Keys = {k1}
  NoKey = NoKey
  Kinds = {"sweep", "recompute", "event"}
  MaxAttempts = 2
  BackoffBase = 1
  MaxBackoff = 2
  BatchLimit = 1
  Delay = {0}
  Retention = 0
  MaxQueued = 1
  MaxTime = 0
SYMMETRY Symmetry
CHECK_DEADLOCK FALSE
INVARIANTS
  InsertedCovered
  HandedOnOnce
  RollupsComplete
  
  HoldsKept
