CONSTANTS
  HHStart = 8
  RegSize = 8
  BootPages = 2
  Sizes <- SomeSizes
  Places <- SomePlaces
SPECIFICATION Spec
INVARIANTS ReservedNotGiven
