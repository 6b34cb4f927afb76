SPECIFICATION Spec
CONSTANTS
  Passes = {p1}
  N = 3
  Fallback = 3
  Cap = 1
  MaxPhysical = 2
  Deadline = 1
  Retries = 0
  Streak = 4
  Cooldown = 1
  Canary = 1
  MaxDefers = 0
  MaxNow = 0
  MaxCrashes = 0
  MaxLost = 0
CHECK_DEADLOCK FALSE
INVARIANTS AttemptsWithinBudget
