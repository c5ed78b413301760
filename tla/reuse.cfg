SPECIFICATION FairSpec
CONSTANTS
  Workers = {w1, w2}
  Sessions = {s1}
  Conns = {c1, c2}
  None = None
  AcceptCount = 2
  MaxBatch = 2
  Budget = 1
  Bursts <- BurstsLeave
CHECK_DEADLOCK FALSE
INVARIANTS AcceptsKept
PROPERTIES DroppedIsClosed IsConnectionLife
