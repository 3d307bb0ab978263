SPECIFICATION FairSpec
CONSTANTS
  p1 = p1
  p2 = p2
  c1 = c1
  c2 = c2
  Pids = {p1, p2}
  Conns = {c1, c2}
  MaxProcess = 2
  MaxConnection = 1
  Stopping = FALSE
  Father = Father
  Server = Server
  Stop = Stop
  Free = Free
  None = None
PROPERTY KilledEnds
CHECK_DEADLOCK FALSE
