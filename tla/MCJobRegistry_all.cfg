SPECIFICATION FairSpec
CONSTANTS
  Job = {j1, j2}
  Client = {c1, c2}
  None = None
  MaxJobs = 1
  Aging = TRUE
  SlowOpens = TRUE
INVARIANTS RegistryBounded NoOrphan
PROPERTIES RunningNeverEvicted HandOverKept WatchedQueryEnds
CHECK_DEADLOCK FALSE
