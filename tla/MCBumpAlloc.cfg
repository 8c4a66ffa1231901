SPECIFICATION FairSpec
CONSTANTS
  Thread = {t1, t2}
  ChunkCapacity = 4
  Overhead = 2
  Sizes = {1, 3, 5}
  MaxAllocs = 3
  MaxChunk = 6
INVARIANTS
  BlocksExact
  UsedStaysInList
  ChunksBounded
PROPERTY
  OperationsReturn
CHECK_DEADLOCK FALSE
