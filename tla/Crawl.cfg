SPECIFICATION MCSpec
CONSTANTS
  Rows = {x1, x2}
  Identities = {i1}
  Nodes = {n1}
  Deliveries = {d1, d2}
  CallerOwned = {d1}
  None = None
  Cancellable = FALSE
  MaxTime = 3
  MaxPosts = 2
  HttpTimeout = 1
  NetDelay = 1
  Lease = 2
  Quorum = 2
  Window = 1
  Horizon = 3
  SentinelTTL = 2
  GuardTTL = 3
  Keep = 1
SYMMETRY Symmetry
CHECK_DEADLOCK FALSE
INVARIANTS
  TypeOK
  DoubleRunExcused
  MissingIsTrue
  StampHasRun
  PlanWhole
  WitnessVetoes
PROPERTIES
  PostsStopAfterFence
