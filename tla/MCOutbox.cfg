CONSTANTS
  Events = {1, 2}
  Workers = {w1, w2}
  BatchLimit = 2
  MaxAttempts = 2
  LeaseMs = 1
  BackoffCap = 1
  MaxFaults = 1
SPECIFICATION Spec
SYMMETRY WorkerSymmetry
INVARIANTS
  InductiveInvariant
  OverlapOnlyAfterExpiry
PROPERTIES
  ImplementsDelivery
