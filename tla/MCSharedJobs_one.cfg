SPECIFICATION Spec
CONSTANTS
  Replica = {r1, r2}
  Job = {j1}
  Client = {c1, c2}
  None = None
  MaxJobs = 1
  RouteFetch = {"owner", "foreign"}
  RouteStatus = {"owner"}
  RouteCancel = {"foreign"}
  Others = TRUE
  MaxCrashes = 0
  Aging = TRUE
  SlowClaims = TRUE
INVARIANT FileBehindRecord
PROPERTY HandOverKept
SYMMETRY MCSymmetry
CHECK_DEADLOCK FALSE
