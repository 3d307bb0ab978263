SPECIFICATION FairSpec
CONSTANTS
  Sessions = {a}
  Handlers = {h1}
  Workers = {w1}
  Main = Main
  Stop = Stop
  TSFails = FALSE
  Mortal = {}
  Stopping = TRUE
  MaxOrders = 1
  Absent = Absent
  None = None
PROPERTIES
  DestroyEnds
  StopEnds
CHECK_DEADLOCK FALSE
