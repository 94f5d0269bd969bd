CONSTANTS
  t1 = t1
  t2 = t2
  n1 = n1
  n2 = n2
  NoNode = NoNode
  Thread = {t1, t2}
  MemNode = {n1, n2}
  Requests <- MCOneRequest
  Observed = {n1, n2, NoNode}
  MaxRegion = 2
  MaxBuffer = 3
  MaxAttempt = 2
  MemOps = {"release", "migrate", "rollback", "invalidate"}
  Disciplined = FALSE
SPECIFICATION MigSpec
SYMMETRY MCMigrationSymmetry
INVARIANTS
  OneMover
PROPERTIES
  PlacementFenced
CHECK_DEADLOCK FALSE
