CONSTANTS
  Policies = {"spin", "seq", "poll"}
  Max = 3
  Streams = {0, 1, 2, 3}
SPECIFICATION FairSpec
INVARIANTS CountIsWatched ReturnsReadyStream NoneIsPassedTwice EarlierStreamsFirst
PROPERTY NoStarvation
CHECK_DEADLOCK FALSE
