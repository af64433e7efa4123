SPECIFICATION Spec
CONSTANTS
  KeyBytes <- SomeKeys
  MaxKeys = 3
  AnsiBytes <- SomeBytes
  AnsiSeeds <- SomeSeeds
  MaxBytes = 4
  Pieces <- SomePieces
  MaxPieces = 5
  MaxShown = 2
INVARIANTS EventsAreKeys EscapesLikeRegex ColorsExact TokensKeepColors
CHECK_DEADLOCK FALSE
