CONSTANTS
  ALLOC_MAX_ORDER = 3
  BlockSize <- MCBlockSize
  MemoryMaps <- HighMaps
  Requests = {1}
  Reservations = {}
  NodeLimit = 6
SPECIFICATION Spec
INVARIANTS LowMemoryDropped
