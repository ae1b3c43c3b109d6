CONSTANTS
  Kinds = {"log", "escape", "blob", "udp", "raw"}
  InitSize = 1
  InitWrite = 2
  Size = 16
  MaxLen = 3
  MaxWrites = 2
  MaxFailures = 3
  N = 3
  TxRings = {0, 1}
  MaxFrames = 6
SPECIFICATION MCSpec
INVARIANTS OutputFollows OutputInOrder NmInv SentAsCommitted TimeoutOnlyIfSwapped
PROPERTIES EndWriteReturns SentAfterClose
CHECK_DEADLOCK FALSE
