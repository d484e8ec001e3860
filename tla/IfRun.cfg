CONSTANTS
  HalfCount = 6
  Compressed <- MCCompressed
  Boot <- MCBoot
  Branches <- MCBranches
SPECIFICATION FairSpec
INVARIANTS
  InstructionIntact
  ErrorIsItsOwn
  FetchAuthorised
  PushNeverFull
  OutstandingAgree
  RequestStable
  NoFalseAlert
PROPERTIES
  FetchGoesOn
