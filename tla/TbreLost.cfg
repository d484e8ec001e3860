CONSTANTS
  FifoSize = 2
  MaxAddr8 = 2
  Regs <- MCRegs
  HeapBase8 = 1
  TSMapSize = 1
  MapWordBits = 2
  Addr8Space = 8
  CapIds <- MCCaps
  CapOf <- MCCapOf
  CpuOps <- SweepOps
  Sweeps <- OneSweep
  Add1Wait = FALSE
SPECIFICATION Spec
INVARIANTS
  RevokedIsCleared
