SPECIFICATION LeaseSpec
CONSTANTS
  s1 = s1
  s2 = s2
  s3 = s3
  t1 = t1
  t2 = t2
  t3 = t3
  ra = ra
  rb = rb
  n1 = n1
  n2 = n2
  alice = alice
  bob = bob
  ka = ka
  kb = kb
  None = None
  x = x
  xx = xx
  y = y
  q1 = q1
  q2 = q2
  Canon = Canon
  Limits = {}
  i1 = i1
  i2 = i2
  i3 = i3
  MaxJobs = 1
  MaxEntries = 1
  Name <- MCName
  Clean <- MCClean
  Query <- MCQuery
  Replica <- MCReplica
  Thread <- MCThread
  ThreadOf <- MCThreadOf
  Saver <- MCSaver
  SaverOf <- MCSaverOf
  Title <- MCTitle
  Owner <- MCOwner
  Ask <- MCAsk
  Fingerprint <- MCFingerprint
  Minted <- MCMinted
  Want <- MCWant
  Previews <- MCPreviews
  TableRows = 3
  FirstRows = 2
  MaxRows = 3
  Page <- MCPage
  Id <- MCId
  MaxSaved <- MaxEntries
  MaxHarm = 1
  w1 = w1
  w2 = w2
  w3 = w3
  w4 = w4
  w5 = w5
  a1 = a1
  a2 = a2
  a3 = a3
  b1 = b1
  hostA = hostA
  hostB = hostB
  pid1 = pid1
  pid2 = pid2
  pid3 = pid3
  Write = {w1, w2, w3, w4, w5}
  Process = {a1, a2, a3, b1}
  Host = {hostA, hostB}
  Pid = {pid1, pid2}
  Runs <- MCRuns
  HostOf <- MCHostOf
  PidOf <- MCPidOf
  Pods = TRUE
  MaxAttempts = 2
INVARIANT Exclusive
PROPERTIES NeverDisplaced WriteSettles
CHECK_DEADLOCK FALSE
