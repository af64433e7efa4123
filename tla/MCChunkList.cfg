SPECIFICATION Spec
CONSTANTS
  ChunkSize = 2
  Tails = {0, 1, 5}
  MaxHeap = 9
  MaxSnapshots = 2
CHECK_DEADLOCK FALSE
INVARIANTS SnapshotsImmutable
PROPERTIES SnapshotExact
