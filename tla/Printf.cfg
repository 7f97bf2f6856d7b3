CONSTANTS
  Calls <- MCCalls
  MaxCalls = 2
  MinChunk = 8
  Chunks = 6
  PageRoom = 40
  Bits <- MCBits
  Unknown = "?"
  Garbage = {"NUL", "z"}
SPECIFICATION Spec
INVARIANTS TypeOK KprintfExact KsnprintfExact PassesAgree IntsFit HeapRestored
