CONSTANTS
  Length = 4
  Bytes = {"c", "n", "r"}
  InitSize = 2
  MaxSize = 8
  Kinds = {"udp", "raw", "periodic", "dag", "exa", "netmap", "fast"}
  P = 2
  MaxRecords = 4
  PortRecords = 3
  Period = 2
SPECIFICATION MCSpec
INVARIANTS BufferInOrder ClosesOnlyAtEnd ReadyTruthful NothingLost EndsAtEmptyOnly PeriodKept NoPortStarves
PROPERTIES ReturnsNextLine EveryLineReturned ImplementsQueue ReadyReturns EveryRecordReturned
CHECK_DEADLOCK FALSE
