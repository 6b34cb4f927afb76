SPECIFICATION MCSpec
CONSTANTS
  Pair = {x1, x2}
  OtherPair = {y1, y2}
  Processes = {pr1, pr2}
  Ops = {a, b}
  Pages = {b}
  Priced = {}
  None = None
  MaxFails = 1
  MaxCrashes = 1
SYMMETRY Symmetry
CHECK_DEADLOCK FALSE
INVARIANTS
  AccruedOnce
  CloseKept
  ChildKept
  LedgerKept
  PaidStops
  PageRead
  FetchBounded
  PoliciesHold
PROPERTIES
  FetchSteps
