SPECIFICATION FairSpec
CONSTANTS
  Workers = {w1}
  Conns = {c1}
  Main = Main
  None = None
  AcceptCount = 1
CHECK_DEADLOCK FALSE

PROPERTIES StopReturns
