CONSTANTS
  N = 2
  W = 2
  MaxSync = 5
  Readers = {r1}
  Lengths = {0, 2, 3}
  RingReaders = {r1, r2}
  RingWriter = w
  MaxFiles = 3
  MaxGen = 4
SPECIFICATION MCSpec
INVARIANTS ReaderInStep IntactUnlessOverwriting TornBetweenNeighbours OpenInv NotConfused SameRing
PROPERTIES ImplementsChannel CatchesUp
CHECK_DEADLOCK FALSE
