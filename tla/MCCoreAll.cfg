SPECIFICATION Spec
CONSTANTS
  ab = ab
  abc = abc
  Query <- MCQuery
  Features = {"type", "sort", "nth", "exclude", "reload", "reload-sync", "type+reload"}
  Sync = FALSE
  Tail = 0
  MaxOps = 2
  MaxItems = 1
CHECK_DEADLOCK FALSE
SYMMETRY Symmetry
INVARIANTS NothingLost SyncKeepsList
