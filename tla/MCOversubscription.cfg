CONSTANTS
  n1 = n1
  n2 = n2
  a1 = a1
  NoAccelerator = NoAccelerator
  Node <- MCSmallNode
  Accelerator = {}
  Capacity <- MCSmallCapacity
  AccelCeiling = 2
  Word = 8
  SlotWord = 16
  Sizes = {2, 6}
  SlotCounts = {0}
  MaxId = 3
SPECIFICATION StoreSpec
INVARIANTS
  NoOversubscription
CHECK_DEADLOCK FALSE
