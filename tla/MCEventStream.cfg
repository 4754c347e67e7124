CONSTANTS
  Events = {1, 2, 3}
  eventBatchSize = 2
  maxCursorEventIds = 1
  ReconnectDelay = 1
  MaxTime = 2
  MaxInterruptions = 2
  None = None
SPECIFICATION FairSpec
INVARIANTS
  InductiveInvariant
PROPERTIES
  ImplementsFeed
  TimelyEventsArrive
CHECK_DEADLOCK FALSE
