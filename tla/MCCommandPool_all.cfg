SPECIFICATION MCSpec
CONSTANTS
  c1 = c1
  c2 = c2
  c3 = c3
  s1 = s1
  s2 = s2
  s3 = s3
  p1 = p1
  p2 = p2
  Command <- MCCommand
  Script <- MCScript
  Pod <- MCPod
  Widths <- MCWidths
  None = None
  MaxPools = 3
INVARIANTS NeverQueued CountsAreExact OneRunPerPod
PROPERTY Answered
CHECK_DEADLOCK FALSE
