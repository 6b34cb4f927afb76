SPECIFICATION Spec
CONSTANTS
  Identities = {i1}
  Nodes = {n1}
  Deliveries = {d1}
  CallerOwned = {}
  None = None
  Cancellable = FALSE
  MaxTime = 1
  MaxPosts = 2
  HttpTimeout = 1
  NetDelay = 1
  Lease = 2
  Quorum = 2
  Window = 1
  Horizon = 3
  SentinelTTL = 2
  GuardTTL = 3
  Keep = 1
CHECK_DEADLOCK FALSE
INVARIANTS NoDoubleRun
