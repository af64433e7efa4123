SPECIFICATION Spec
CONSTANTS
  Options <- SomeOptions
  TextChars <- SomeChars
  MaxText = 4
  MaxPattern = 3
  Scenes <- SomeScenes
  QueryCacheMax = 4
  MaxSearches = 3
  Searches <- SomeSearches
  Snapshots <- SomeSnapshots
  HeaderLines = {0, 1, 2}
  ChunkSize = 2
  RadixMin = 3
INVARIANTS MatchSound FastPathsAgree CacheNarrows OffsetsOfWholeLine RowsInOrder FoundWhereShown
CHECK_DEADLOCK FALSE
