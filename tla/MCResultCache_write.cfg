SPECIFICATION Spec
CONSTANTS
  r1 = r1  r2 = r2  c1 = c1  c2 = c2
  Replica = {r1}
  Client = {c1}
  Home <- MCOneHome
  None = None
  Query = {"preview"}
  Change = {"overwrite"}
  MaxGen = 1
  QueueDepth = 1
  L2On = FALSE
INVARIANTS NoStaleHit
CHECK_DEADLOCK FALSE
