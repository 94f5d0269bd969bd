CONSTANTS
  Unused = Unused
  MaskBits = 3
  Machines <- MCMachines
  Frees <- MCFrees
  Configs <- MCConfigs
  DefaultCapacity = 4
  ByteWord = 32
  AllocSizes = {1, 2}
  Spreads <- MCSpreads
  MaxGrants = 3
  MaxScopes = 3
SPECIFICATION HostSpec
\* One of these at a time: each is refuted.
INVARIANT
  FreeMemoryOwn
\* LocalIsLocal
\* UsageReturned
\* PROPERTY CurrentAffinityActual
CHECK_DEADLOCK FALSE
