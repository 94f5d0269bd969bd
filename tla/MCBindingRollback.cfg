CONSTANTS
  n1 = n1
  w1 = w1
  w2 = w2
  c1 = c1
  c2 = c2
  NoNode = NoNode
  NoAccelerator = NoAccelerator
  BindNode <- MCNode
  Node <- MCNode
  Accelerator = {}
  Capacity <- MCCapacity
  AccelCeiling = 0
  Word = 8
  SlotWord = 8
  Sizes = {1}
  SlotCounts = {0}
  WorkerId = {w1}
  ConnId = {c1, c2}
  Controller = {}
  Ops = {"register", "bind"}
  MaxBoot = 4
  Generation = {1, 2, 3, 4}
  MaxId = 3
  MaxEpoch = 1
  MaxFrames = 4
SPECIFICATION CoordSpec
PROPERTIES
  BindingNeverRollsBack
CHECK_DEADLOCK FALSE
