SPECIFICATION FairSpec
CONSTANTS
  Sources = {"command", "walker", "stdin"}
  MaxSessions = 3
  MaxItems = 2
CHECK_DEADLOCK FALSE
INVARIANTS OneSession FinalIsComplete
PROPERTIES ReloadStarts
