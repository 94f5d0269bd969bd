CONSTANTS
  n1 = n1
  w1 = w1
  w2 = w2
  NoNode = NoNode
  NoAccelerator = NoAccelerator
  WorkerId = {w1}
  BindNode <- MCNode
  Node <- MCNode
  Accelerator = {}
  Capacity <- MCCapacity
  AccelCeiling = 0
  Word = 8
  SlotWord = 8
  Sizes = {1}
  SlotCounts = {0}
  MaxId = 2
  MaxBoot = 3
  Generation = {1}
  MaxEpoch = 2
  MaxCrash = 1
  MaxPersist = 1
  EarlierSaves <- MCEarlierSaves
SPECIFICATION RecSpec
PROPERTIES
  RefusalChangesNothing
CHECK_DEADLOCK FALSE
