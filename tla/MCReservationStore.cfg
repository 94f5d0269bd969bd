CONSTANTS
  n1 = n1
  n2 = n2
  a1 = a1
  NoAccelerator = NoAccelerator
  Node <- MCNode
  Accelerator <- MCAccelerator
  Capacity <- MCCapacity
  AccelCeiling = 2
  Word = 64
  SlotWord = 16
  Sizes = {0, 2}
  SlotCounts = {0, 1}
  MaxId = 3
SPECIFICATION StoreSpec
INVARIANTS
  StoreTypeOK
  GenerationOrder
  LedgerExact
PROPERTIES
  ReleasedIsFinal
  ImplementsLedger
CHECK_DEADLOCK FALSE
