CONSTANTS
  Kinds = {"escape"}
  InitSize = 1
  InitWrite = 2
  Size = 16
  MaxLen = 2
  MaxWrites = 1
  MaxFailures = 0
SPECIFICATION Spec
INVARIANT CommitsAll
CHECK_DEADLOCK FALSE
