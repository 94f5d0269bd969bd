CONSTANTS
  n1 = n1
  w1 = w1
  w2 = w2
  NoNode = NoNode
  NoAccelerator = NoAccelerator
  WorkerId = {w1}
  BindNode <- MCNode
  Node <- MCNode
  Accelerator = {}
  Capacity <- MCCapacity
  AccelCeiling = 0
  Word = 8
  SlotWord = 8
  Sizes = {1}
  SlotCounts = {0}
  MaxId = 2
  MaxBoot = 3
  Generation = {1}
  MaxEpoch = 2
  MaxCrash = 1
  MaxPersist = 1
  EarlierSaves = {}
SPECIFICATION RecSpec
\* One of these at a time: each is refuted.
PROPERTY
  BootsFresh
\* RecoveredNotCurrent
\* RestoredKept
CHECK_DEADLOCK FALSE
