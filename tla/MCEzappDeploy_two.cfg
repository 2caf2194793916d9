SPECIFICATION Spec
CONSTANTS
  ch = ch
  app = app
  m1 = m1
  m2 = m2
  None = None
  Call = {c1, c2}
  Chart = {ch}
  App = {app}
  Handle = {h1, h2}
  Manifest = {m1, m2}
  AppOf <- MCAppOf
  MaxSessions = 1
  MaxStaged = 1
  MaxBusy = 2
SYMMETRY MCSymmetry
INVARIANT StagedOnce
PROPERTIES OthersUntouched UpdatesKeepOthers
CHECK_DEADLOCK FALSE
