CONSTANTS
  t1 = t1
  t2 = t2
  n1 = n1
  n2 = n2
  NoNode = NoNode
  Thread = {t1, t2}
  MemNode = {n1, n2}
  Requests <- MCOneRequest
  Observed = {n1}
  MaxRegion = 1
  MaxBuffer = 2
  MaxAttempt = 1
  MemOps = {"migrate", "invalidate"}
  Disciplined = TRUE
SPECIFICATION MigSpec
INVARIANTS
  CurrentIsFresh
CHECK_DEADLOCK FALSE
