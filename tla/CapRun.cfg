CONSTANTS
  ADDR_W = 6
  TOP_W = 3
  CEXP_W = 2
  Lengths <- MCLengths
  Masks <- MCMasks
  Otypes = {0, 3}
  Highs <- MCHighs
SPECIFICATION Spec
CONSTRAINT Explored
INVARIANTS
  BoundsContract
  DecodersAgree
PROPERTIES
  Monotone
