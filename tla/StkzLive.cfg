CONSTANTS
  AddrMax = 39
  ZtopWrites <- DisciplinedWrites
  CpuAccesses <- FewAccesses
  StkZIntrOK = FALSE
  WriteWhileActive = FALSE
SPECIFICATION FairSpec
INVARIANTS
  TaggedMeansRunning
PROPERTIES
  RunEnds
  StalledAccessServed
