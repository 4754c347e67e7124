CONSTANTS
  Calls = {1, 2, 3, 4}
  MaxActive = 2
  MaxRecent = 3
  Window = 1
  Threshold = 2
  OpenFor = 2
SPECIFICATION FairPlanner
CHECK_DEADLOCK FALSE
INVARIANTS
  PlannerInvariant
  WindowLimit
  CircuitHolds
PROPERTIES
  PlannerRecovers
