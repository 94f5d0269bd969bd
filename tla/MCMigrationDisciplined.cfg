CONSTANTS
  t1 = t1
  t2 = t2
  n1 = n1
  n2 = n2
  NoNode = NoNode
  Thread = {t1, t2}
  MemNode = {n1, n2}
  Requests <- MCPinnedRequest
  Observed = {n1, NoNode}
  MaxRegion = 2
  MaxBuffer = 3
  MaxAttempt = 2
  MemOps = {"release", "migrate", "rollback"}
  Disciplined = TRUE
SPECIFICATION FairMigSpec
INVARIANTS
  LastCopyKept
  NoDoubleFree
  BuffersOwned
  UsageExact
PROPERTIES
  MoveEnds
CHECK_DEADLOCK FALSE
