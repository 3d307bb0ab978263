SPECIFICATION Spec
CONSTANTS
  s1 = s1
  r1 = r1
  r2 = r2
  Aps = {s1}
  Main = s1
  Requests = {r1, r2}
  Persistent = TRUE
  Desktop = FALSE
  External = TRUE
  Kinds = {"cron", "remove", "logout", "stop", "monitoring", "disconnect"}
  Unreachable = {}
  Failing = {s1}
  Losing = {s1}
  NoRow = NoRow
  NoServer = NoServer
  NoReport = NoReport
SYMMETRY Symmetry
INVARIANT TypeOK
 
CHECK_DEADLOCK FALSE
