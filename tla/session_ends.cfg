SPECIFICATION FairSpec
CONSTANTS
  s1 = s1
  s2 = s2
  r1 = r1
  Aps = {s1, s2}
  Main = s1
  Requests = {r1}
  Persistent = TRUE
  Desktop = FALSE
  External = TRUE
  Kinds = {"kill", "monitoring", "wait", "resume"}
  Unreachable = {}
  Failing = {}
  Losing = {s1, s2}
  NoRow = NoRow
  NoServer = NoServer
  NoReport = NoReport
PROPERTY Gone
PROPERTY Starts
CHECK_DEADLOCK FALSE
