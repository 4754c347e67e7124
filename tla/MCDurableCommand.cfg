CONSTANTS
  Keys = {k1}
  Inputs = {i1, i2}
  Requests = {r1, r2, r3}
  Externals = {planner}
  LeaseMs = 1
  MaxInterruptions = 1
  None = None
SPECIFICATION Spec
SYMMETRY RequestSymmetry
INVARIANTS
  InductiveInvariant
  AtMostOneEffect
PROPERTIES
  CompletedIsFinal
  SupersededOnlyFails
  ImplementsOnce
  ImplementsService
CHECK_DEADLOCK FALSE
