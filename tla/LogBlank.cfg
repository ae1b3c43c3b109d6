CONSTANTS
  Length = 4
  Bytes = {"c", "n", "r"}
  InitSize = 4
  MaxSize = 8
SPECIFICATION LogSpec
INVARIANT StripsNewline
CHECK_DEADLOCK FALSE
