SPECIFICATION MCSpec
CONSTANTS
  c1 = c1
  c2 = c2
  c3 = c3
  ns = ns
  two = two
  half = half
  one = one
  d1 = d1
  d2 = d2
  d3 = d3
  None = None
  Call = {c1, c2, c3}
  Namespace = {ns}
  Manifest = {two, half, one}
  Doc = {d1, d2, d3}
  Request <- MCRequest
  Mode = "deny"
  DocsOf <- MCDocs
  Unfit <- MCUnfit
  Wide = {d3}
  Frail = {d2}
  MaxUnwritten = 1
  MaxUnread = 1
  Tears = TRUE
INVARIANTS AppliedWasDryRun TrailVerifies TrailIsFaithful
PROPERTIES AuditGoesOn
CHECK_DEADLOCK FALSE
