CONSTANTS
  ours = ours
  theirs = theirs
  None = None
  Commands = {c1, c2, c3}
  Ids = {1, 2, 3}
  MaxLimit = 2
  Tenants = {ours, theirs}
  Inputs <- SomeInputs
  MaxTime = 1
SPECIFICATION FairSpec
CHECK_DEADLOCK FALSE
INVARIANTS
  InductiveInvariant
  EventsTellTheTasks
  OneTaskInOrder
  NoLostUpdate
  PagesAreComplete
PROPERTIES
  ImplementsLedger
  EveryCommandIsAnswered
