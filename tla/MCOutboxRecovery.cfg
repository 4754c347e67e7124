CONSTANTS
  Events = {1}
  Workers = {w1, w2}
  BatchLimit = 2
  MaxAttempts = 3
  LeaseMs = 2
  BackoffCap = 2
  MaxFaults = 1
SPECIFICATION FairSpec
PROPERTIES
  EveryEventSettlesOrIsStranded
