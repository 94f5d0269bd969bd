CONSTANTS
  w1 = w1
  w2 = w2
  A = A
  B = B
  A2 = A2
  S1 = S1
  S2 = S2
  S3 = S3
  NoNode = NoNode
  NoAccelerator = NoAccelerator
  BindNode = {1}
  Node = {1}
  Accelerator = {}
  Capacity <- MCCapacity
  Cpus <- MCCpus
  Free <- MCCapacity
  AccelCeiling = 0
  Word = 8
  SlotWord = 16
  Sizes = {1}
  SlotCounts = {2}
  WorkerId = {w1, w2}
  Process = {A, B, A2}
  Id <- MCId
  Fleets <- MCFleets
  Footprint = 1
  ConnId = {A, B, A2, S1, S2, S3}
  Controller = {}
  Ops = {}
  MaxBoot = 3
  Generation = {}
  MaxId = 3
  MaxEpoch = 2
  MaxFrames = 20
SPECIFICATION FleetSpec
INVARIANTS
  ReservationOwed
  FailureExplained
PROPERTIES
  ProgramsEnd
  ProofPasses
  LossDetected
  RefusalNeedsRace
CHECK_DEADLOCK FALSE
