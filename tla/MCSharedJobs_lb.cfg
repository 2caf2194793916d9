SPECIFICATION Spec
CONSTANTS
  Replica = {r1, r2}
  Job = {j1, j2}
  Client = {c1, c2}
  None = None
  MaxJobs = 1
  RouteFetch = {"owner", "foreign"}
  RouteStatus = {}
  RouteCancel = {}
  Others = FALSE
  MaxCrashes = 1
  Aging = FALSE
  SlowClaims = FALSE
INVARIANT FileBehindRecord
PROPERTY HandOverKept
SYMMETRY MCSymmetry
CHECK_DEADLOCK FALSE
