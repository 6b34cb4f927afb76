SPECIFICATION MCSpec
CONSTANTS
  Pair = {x1, x2}
  OtherPair = {y1, y2}
  Requests = {x1, x2}
  Tasks = {t1}
  Workspaces = {y1, y2}
  None = None
  Servers = {s1}
  ThreadPool = 1
  Engines = {e1, e2}
  MaxTxns = 2
  MaxStray = 1
  MaxForks = 0
SYMMETRY Symmetry
CHECK_DEADLOCK FALSE
INVARIANTS
  OwnRowsOnly
  SessionsSafe
  AccountsOnce
  CapsHold
  DeclaredRuns
  LifecycleKept
  AlarmsHonest
PROPERTIES
  ControlSteps
