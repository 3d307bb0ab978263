SPECIFICATION Spec
CONSTANTS
  None = None
  Clients = {c1, c2}
  Users = {u1, u2}
  Versions = {0, 1}
  Workers = {w1}
  Items = {i1, i2}
  MaxSessions = 2
  KillDisconnected = FALSE
  Orders = {"logoff", "disconnect", "list"}
  Stopping = TRUE
  ThreadFails = TRUE
  Homeless = {u1, u2}
SYMMETRY Symmetry
INVARIANTS TypeOK OwnDisplay OneSessionPerUser DisplaysDiffer ListFits
PROPERTY DestroyIsFinal
CHECK_DEADLOCK FALSE
