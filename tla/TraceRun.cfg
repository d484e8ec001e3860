CONSTANTS
  Formats <- MCFormats
  MaxSteps = 3
  MaxExcursions = 1
  MaxTail = 1
  MaxLinesLeft = 1
  Kinds <- AllKinds
  Defects <- AllDefects
SPECIFICATION Spec
CHECK_DEADLOCK FALSE
INVARIANTS
  PassMeansAgree
  NoFalseAlarm
