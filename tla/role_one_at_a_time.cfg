SPECIFICATION Spec
CONSTANTS
  Sessions = {a}
  Handlers = {h1}
  Workers = {w1, w2}
  Main = Main
  Stop = Stop
  TSFails = TRUE
  Mortal = {}
  Stopping = FALSE
  MaxOrders = 3
  Absent = Absent
  None = None
INVARIANT NoOrphanUser
SYMMETRY Symmetry
CHECK_DEADLOCK FALSE
