SPECIFICATION Spec
CONSTANTS
  N = 2
  Enqueues <- MCEnqueues
  Dequeuers = {1, 2}
  BlockSize = 2
  IndexRange = 16
  IndexSize = 1
  PoolSize = 2
  MaxBlock = 4
  MaxFailures = 1
  StartIndex = 14
INVARIANTS
  ElementsExact
  BlocksAccounted
  ReservationsBalance
