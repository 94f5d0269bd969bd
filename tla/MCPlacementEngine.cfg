CONSTANTS
  a1 = a1
  a2 = a2
  a3 = a3
  NoAccelerator = NoAccelerator
  Node = {1, 2, 3}
  Accelerator <- MCAccelerator
  Capacity <- MCCapacity
  Cpus <- MCCpus
  Free <- MCFree
  Homes <- MCHomes
  Requests <- MCRequests
  Synthetic = TRUE
  AccelCeiling = 2
  Word = 64
  SlotWord = 16
  Sizes = {2}
  SlotCounts = {0}
  MaxId = 2
SPECIFICATION PlanSpec
INVARIANTS
  PlanSound
  PlanComplete
CHECK_DEADLOCK FALSE
