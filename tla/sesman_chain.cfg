SPECIFICATION Spec
CONSTANTS
  None = None
  Clients = {c1, c2}
  Users = {u1}
  Versions = {0}
  Workers = {w1}
  Items = {i1, i2}
  MaxSessions = 1
  KillDisconnected = TRUE
  Orders = {"list"}
  Stopping = FALSE
  ThreadFails = FALSE
  Homeless = {}
INVARIANT OneThreadInChain
CHECK_DEADLOCK FALSE
