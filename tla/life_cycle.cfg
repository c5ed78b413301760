SPECIFICATION Spec
CONSTANTS
  Workers = {w1, w2}
  Sessions = {s1, s2}
  Conns = {c1, c2}
  None = None
  AcceptCount = 2
  MaxBatch = 2
  Budget = 1
  Bursts <- BurstsAll
SYMMETRY Symmetry
CHECK_DEADLOCK FALSE
INVARIANTS TypeOK RecvExclusive SendExclusive ReleasedOnce NoLeak NobodyForgotten SessionInv
PROPERTIES BufferHeldAtClose
