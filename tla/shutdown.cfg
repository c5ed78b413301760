SPECIFICATION FairSpec
CONSTANTS
  Workers = {w1, w2}
  Conns = {c1, c2}
  Main = Main
  None = None
  AcceptCount = 1
CHECK_DEADLOCK FALSE
INVARIANTS TypeOK NobodyLeft AllServe EnoughWoken
PROPERTIES LogKept StopEnds
