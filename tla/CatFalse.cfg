CONSTANTS
  Files = {"a", "b"}
  Rings = {"ring"}
  Setups <- RingToTwo
  N = 2
  MaxWrites = 4
  MaxLines = 2
  Lengths = {1}
SPECIFICATION Spec
PROPERTY OverrunIsReal
CHECK_DEADLOCK FALSE
