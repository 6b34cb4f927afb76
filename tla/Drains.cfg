SPECIFICATION DrainSpec
CONSTANTS
  Pair = {x1, x2}
  Second = x2
  w1 = w1
  w2 = w2
  k1 = k1
  Grants = {g1, g2}
  Ops = {o1}
  Workspaces = {w1, w2}
  Fleet = Fleet
  None = None
  Requests <- Asked
  Costs = {2}
  Limit <- Limits
  Cap = 2
  Lease = 1
  MaxReplays = 1
  MaxAmount = 6
  MaxPeriod = 1
CHECK_DEADLOCK FALSE
PROPERTIES
  DrainsOut
