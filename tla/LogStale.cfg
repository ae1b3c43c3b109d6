CONSTANTS
  Length = 4
  Bytes = {"c", "n"}
  InitSize = 4
  MaxSize = 8
SPECIFICATION LogSpec
INVARIANT ForgetsWhatItRead
CHECK_DEADLOCK FALSE
