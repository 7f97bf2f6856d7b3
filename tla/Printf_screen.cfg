CONSTANTS
  Calls <- LongCalls
  MaxCalls = 1
  MinChunk = 8
  Chunks = 6
  PageRoom = 40
  Bits <- MCBits
  Unknown = "?"
  Garbage = {"NUL"}
SPECIFICATION Spec
INVARIANTS PrintsToScreen
