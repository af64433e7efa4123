CONSTANTS
  MaxPattern = 3
  MaxFocus = 1
  MaxSteps = 20
  None = None
  Scenes <- AllScenes
  Lists <- SomeLists
  MaxHistory = 3
  MaxPrints = 3
  MaxEvents = 2
SPECIFICATION Spec
INVARIANTS SelectionSound CursorVisible WaitKeepsOrder WaitsAnswered
PROPERTIES ChangeNoticed HistoryKept TrackKeepsItem
CHECK_DEADLOCK FALSE
