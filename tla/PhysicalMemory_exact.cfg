CONSTANTS
  ALLOC_MAX_ORDER = 3
  BlockSize <- MCBlockSize
  MemoryMaps <- ExactMaps
  Requests = {1, 2, 3, 9}
  Reservations <- ExactReservations
  NodeLimit = 6
SPECIFICATION FairSpec
INVARIANTS Conservation Restored HaltMeansExhausted IsAllocatedExact
PROPERTIES Implements CallReturns
