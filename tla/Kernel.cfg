CONSTANTS
  Slots = 4
  RecSlot = 2
  Root = 1
  LowFrames = 8
  Vectors = {2, 9}
  BootTables <- MCBoot
  Machines <- MCMachines
  Calls <- MCCalls
  Watched <- MCWatched
  TestPage <- MCTestPage
SPECIFICATION BootSpec
INVARIANTS TypeOK GettersExact FrameOnce CallEffect TlbCoherent HaltJustified MapCopied TestPassed ResetsEarly BootOutcome
PROPERTIES TablesStay CallReturns BootEnds
