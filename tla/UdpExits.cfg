CONSTANTS
  Kinds = {"udp", "raw"}
  P = 1
  MaxRecords = 2
  PortRecords = 1
  Period = 1
SPECIFICATION Spec
INVARIANT ReadyNeverExits
CHECK_DEADLOCK FALSE
