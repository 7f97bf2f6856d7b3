CONSTANTS
  ALLOC_MAX_ORDER = 2
  BlockSize <- MCBlockSize
  MemoryMaps <- AnyMaps
  Requests = {0, 1, 2, 3, 5}
  Reservations <- SomeReservations
  NodeLimit = 4
SPECIFICATION Spec
INVARIANTS TypeOK NoOverlap NodesAccounted
