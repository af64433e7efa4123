SPECIFICATION FairSpec
CONSTANTS
  ab = ab
  abc = abc
  Query <- MCQuery
  Features = {"type", "sort", "nth"}
  Sync = TRUE
  Tail = 1
  MaxOps = 3
  MaxItems = 3
CHECK_DEADLOCK FALSE
INVARIANTS ResultExact
PROPERTIES Settles
