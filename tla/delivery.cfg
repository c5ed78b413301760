CONSTANTS
  Workers = {w1, w2, w3}
  MaxBatch = 2
  MaxPackets = 4
SPECIFICATION FairSpec
INVARIANTS TypeOK OneSender RightKept
PROPERTIES IsFifo QueueDrains
CHECK_DEADLOCK FALSE
