CONSTANTS
  read = read
  delete = delete
  ours = ours
  theirs = theirs
  live = live
  None = None
  Files = {1, 2, 3}
  Names = {1, 2, 3, 4}
  Repositories <- SomeRepositories
  Requests = {1, 2, 3}
  MaxClients = 2
  Methods = {"GET", "DELETE"}
  Paths = {"/tasks"}
  Matches <- SomeMatches
  AllScopes = {read, delete, live}
  EventRead = live
  Actors = {ours, theirs}
  Credentials <- SomeCredentials
  Environments <- SomeEnvironments
SPECIFICATION FairSpec
CHECK_DEADLOCK FALSE
INVARIANTS
  VerdictIsRight
  ServerInvariant
  RefusedHasNoEffect
PROPERTIES
  ShutdownCompletes
