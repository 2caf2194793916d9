SPECIFICATION MCSpec
CONSTANTS
  Job = {j1, j2}
  Canceller = {c1, c2}
  MaxConcurrent = 1
  None = None
  Asker = {t1, t2}
  Unrestricted = Unrestricted
  Closed = Closed
  MaxEdits = 2
  Caller = {t1}
  Refresher = {w1}
  Timer = {m1}
  TTL = 1
  MaxTime = 1
  f1 = f1
  f2 = f2
  u1 = u1
  u2 = u2
  Visitor <- MCVisitor
  Url <- MCUrl
INVARIANTS SlotsConserved AnswersAreDue FailuresAreRetried
PROPERTIES OutcomeKept SlotReturned RefreshGoesOn StayersAnswered
CHECK_DEADLOCK FALSE
