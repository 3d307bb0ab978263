SPECIFICATION Spec
CONSTANTS
  s1 = s1
  s2 = s2
  r1 = r1
  Aps = {s1, s2}
  Main = s1
  Requests = {r1}
  Persistent = TRUE
  Desktop = TRUE
  External = TRUE
  Kinds = {"stop", "logout", "kill", "disconnect", "poll", "monitoring", "remove"}
  Unreachable = {s1}
  Failing = {s2}
  Losing = {s1, s2}
  NoRow = NoRow
  NoServer = NoServer
  NoReport = NoReport
INVARIANT NoOrphan
PROPERTY ReadyOnlyWhenStarted
PROPERTY NoRegress
CHECK_DEADLOCK FALSE
