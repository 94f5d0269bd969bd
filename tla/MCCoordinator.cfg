CONSTANTS
  n1 = n1
  w1 = w1
  w2 = w2
  c1 = c1
  c2 = c2
  NoNode = NoNode
  NoAccelerator = NoAccelerator
  BindNode <- MCNode
  Node <- MCNode
  Accelerator = {}
  Capacity <- MCCapacity
  AccelCeiling = 0
  Word = 8
  SlotWord = 8
  Sizes = {1}
  SlotCounts = {0}
  WorkerId = {w1, w2}
  ConnId = {c1, c2}
  Controller = {c2}
  Ops = {"register", "bind", "observe", "place", "migrate", "revalidate"}
  MaxBoot = 4
  Generation = {1, 2, 3, 4}
  MaxId = 0
  MaxEpoch = 2
  MaxFrames = 4
SPECIFICATION CoordSpec
SYMMETRY MCSymmetry
INVARIANTS
  CoordTypeOK
  StaleNeverActs
PROPERTIES
  LossFenced
  BootsAreFences
  ObservationsOrdered
CHECK_DEADLOCK FALSE
