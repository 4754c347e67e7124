CONSTANTS
  Keys = {k1}
  Inputs = {i1}
  Requests = {r1, r2, r3}
  Externals = {}
  LeaseMs = 1
  MaxInterruptions = 2
  None = None
SPECIFICATION FairSpec
PROPERTIES
  EveryRequestEnds
  PendingIsRecovered
CHECK_DEADLOCK FALSE
