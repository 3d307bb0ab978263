SPECIFICATION FairSpec
CONSTANTS
  None = None
  Clients = {c1, c2}
  Users = {u1}
  Versions = {0, 1}
  Workers = {w1}
  Items = {i1, i2}
  MaxSessions = 1
  KillDisconnected = FALSE
  Orders = {"logoff"}
  Stopping = FALSE
  ThreadFails = FALSE
  Homeless = {}
INVARIANT LimitHolds
PROPERTY Answered
CHECK_DEADLOCK FALSE
