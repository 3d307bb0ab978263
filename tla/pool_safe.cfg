SPECIFICATION Spec
CONSTANTS
  p1 = p1
  p2 = p2
  p3 = p3
  c1 = c1
  c2 = c2
  c3 = c3
  Pids = {p1, p2, p3}
  Conns = {c1, c2, c3}
  MaxProcess = 2
  MaxConnection = 1
  Stopping = TRUE
  Father = Father
  Server = Server
  Stop = Stop
  Free = Free
  None = None
INVARIANTS
  TypeOK
  AskedAnswers
  RunningBound
  NoSocketForgotten
SYMMETRY Symmetry
CHECK_DEADLOCK FALSE
