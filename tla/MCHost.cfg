CONSTANTS
  Unused = Unused
  MaskBits = 3
  Machines <- MCMachines
  Frees <- MCFrees
  Configs <- MCConfigs
  DefaultCapacity = 4
  ByteWord = 32
  AllocSizes = {1, 2}
  Spreads <- MCSpreads
  MaxGrants = 3
  MaxScopes = 3
SPECIFICATION HostSpec
INVARIANTS
  DiscoveryExact
  AffinityRestored
  SyntheticExact
PROPERTIES
  BoundWithinNode
  DigestStable
CHECK_DEADLOCK FALSE
