CONSTANTS
  Queries = {all}
  Views = {v1}
  MaxVersion = 1
  MaxMoves = 4
  None = None
SPECIFICATION FairSpec
INVARIANTS
  InductiveInvariant
PROPERTIES
  ImplementsCachedQuery
  DataNeverGoesBack
  WatchedViewsCatchUp
CHECK_DEADLOCK FALSE
