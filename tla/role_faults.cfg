SPECIFICATION Spec
CONSTANTS
  Sessions = {a}
  Handlers = {h1, h2}
  Workers = {w1, w2}
  Main = Main
  Stop = Stop
  TSFails = TRUE
  Mortal = {w1, w2}
  Stopping = TRUE
  MaxOrders = 1
  Absent = Absent
  None = None
INVARIANTS
  TypeOK
  LockedIsInSpool
  DestroyIsPending
SYMMETRY Symmetry
CHECK_DEADLOCK FALSE
