CONSTANTS
  CpuRequests <- MCCpu
  EngRequests <- MCEng
SPECIFICATION FairSpec
INVARIANTS
  AnswersTheRequest
  FirstFailingAddress
  NoStrayWord
  HalvesAgree
PROPERTIES
  ImplementsContract
  EveryRequestAnswered
