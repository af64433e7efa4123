SPECIFICATION FairSpec
CONSTANTS
  w1 = w1
  w2 = w2
  Worker <- MCWorker
  NumChunks = 3
  MaxKey = 2
  Depth <- MCDepth
  Changes = {"query", "nth", "with-nth"}
  Slow = {TRUE, FALSE}
  MaxOps = 2
CHECK_DEADLOCK FALSE
INVARIANTS ResultExact
PROPERTIES ScanEnds
