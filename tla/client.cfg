CONSTANTS
  Texts = {0, 40}
  FakeSize = 43
  MaxPackets = 2
SPECIFICATION FairSpec
INVARIANTS TypeOK ClosedOnce SameName WholePackets NothingRefused ShownInOrder NothingMissed
PROPERTIES StopEnds CountIsTold
CHECK_DEADLOCK FALSE
