SPECIFICATION FairSpec
CONSTANTS
  LockedUsers = 3
  UnlockedUsers = 2
  ChunkSize = 2
  MaxChunk = 4
INVARIANTS
  RefcountExact
  LockedIteratorsKeepAlive
  ChunksUsedUp
  LockedScanComplete
PROPERTY
  PushReturns
