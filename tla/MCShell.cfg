CONSTANTS
  list = list
  create = create
  content = content
  navigation = navigation
  created = created
  deleted = deleted
  planned = planned
  None = None
  Modules = {list, create}
  Places = {content, navigation}
  Keys = {content, navigation, created, deleted, planned}
  Bundles <- SomeBundles
  Attempts = {1, 2}
  MaxLoads = 3
  Content = content
  EventType <- Types
  TaskEvents = {created, deleted}
  MaxEvents = 3
  MaxBreaks = 1
SPECIFICATION ShellSpec
CHECK_DEADLOCK FALSE
INVARIANTS
  ContributionsInvariant
  SignInInvariant
  CacheFollowsEvents
  EventsInvariant
