SPECIFICATION FairSpec
CONSTANTS
  Replica = {r1, r2}
  Job = {j1}
  Client = {c1, c2}
  None = None
  MaxJobs = 1
  RouteFetch = {}
  RouteStatus = {"owner"}
  RouteCancel = {"owner", "foreign"}
  Others = TRUE
  MaxCrashes = 0
  Aging = TRUE
  SlowClaims = FALSE
PROPERTIES CancelReachesOwner 
CHECK_DEADLOCK FALSE
