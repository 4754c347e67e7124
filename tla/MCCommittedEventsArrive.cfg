CONSTANTS
  Events = {1, 2}
  eventBatchSize = 2
  maxCursorEventIds = 2
  ReconnectDelay = 1
  MaxTime = 1
  MaxInterruptions = 0
  None = None
SPECIFICATION FairSpec
PROPERTIES
  CommittedEventsArrive
CHECK_DEADLOCK FALSE
