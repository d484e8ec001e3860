CONSTANTS
  AddrMax = 39
  ZtopWrites <- BlockAligned
  CpuAccesses <- StraddlingAccesses
  StkZIntrOK = FALSE
  WriteWhileActive = FALSE
SPECIFICATION Spec
INVARIANTS
  SecondWordStaysOut
