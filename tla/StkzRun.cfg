CONSTANTS
  AddrMax = 39
  ZtopWrites <- MixedWrites
  CpuAccesses <- AlignedAccesses
  StkZIntrOK = TRUE
  WriteWhileActive = TRUE
SPECIFICATION Spec
INVARIANTS
  TypeOK
  ProgressIsCleared
PROPERTIES
  ClearsOnlyItsRegion
  NoLostStore
  CpuSeesClearedOnly
