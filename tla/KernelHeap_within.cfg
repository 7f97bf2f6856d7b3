CONSTANTS
  WordBits = 16
  IntBits = 8
  Scale = 4
  MaxOrder = 2
  InitPages = 8
  EmergPages = 8
  NewPages = {100}
  MaxFrames = 4
  Leftovers <- SomeLeft
  Requests = {2, 3, 4, 8}
  MaxLive <- Within
SPECIFICATION Spec
INVARIANTS TypeOK ChunksApart CountsMatch CapacityKept ClobberedUnused
