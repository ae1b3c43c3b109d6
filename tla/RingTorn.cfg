CONSTANTS
  N = 2
  W = 2
  MaxSync = 3
  Readers = {r1}
  Lengths = {2}
SPECIFICATION Spec
PROPERTY EndReadDetectsChange
CHECK_DEADLOCK FALSE
