CONSTANTS
  Width = 2
  Height = 3
  UInt = 16
  Colors = {"light grey", "white on white"}
  Negative = {"e"}
  Numbers = {0}
  NumberSize = 1
  Chars <- MCChars
  Strings <- MCStrings
SPECIFICATION Spec
INVARIANTS TypeOK CursorKept ScreenShows
