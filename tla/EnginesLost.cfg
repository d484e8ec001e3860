CONSTANTS
  FifoSize = 2
  MaxAddr8 = 3
  AddrMax = 31
  Regs <- MCRegs
  HeapBase8 = 1
  TSMapSize = 1
  MapWordBits = 2
  Addr8Space = 8
  CapIds <- MCCaps
  CapOf <- MCCapOf
  CpuOps <- MCCpu
  ZtopWrites <- MCWrites
  Sweep <- ShortSweep
  BusErrors = FALSE
  RestartWhileActive = FALSE
SPECIFICATION Spec
PROPERTIES
  ClearedStaysCleared
