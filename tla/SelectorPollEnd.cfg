CONSTANTS
  Policies = {"poll"}
  Max = 2
  Streams = {0, 1}
SPECIFICATION Spec
INVARIANT EndOfSelectUnreachable
CHECK_DEADLOCK FALSE
