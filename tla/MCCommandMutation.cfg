CONSTANTS
  Requests = {1, 2, 3}
  Inputs = {plan, accept, delete}
  Guarded = {plan, accept}
  OneShot = {accept}
  MaxLeaves = 1
  Nothing = Nothing
SPECIFICATION CommandSpec
CHECK_DEADLOCK FALSE
INVARIANTS
  CommandInvariant
  NoDuplicateUntilTold
