CONSTANTS
  Client = {c1, c2, c3}
  NoConn = NoConn
SPECIFICATION FairServerSpec
INVARIANTS
  StoppedForGood
  AbortNeedsFrame
PROPERTIES
  ShutdownEnds
CHECK_DEADLOCK FALSE
