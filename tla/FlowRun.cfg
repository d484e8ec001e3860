CONSTANTS
  t1 = t1
  t2 = t2
  t3 = t3
  Configs <- MCConfigs
  TestEntry <- MCTestEntry
  SimYaml <- MCSimYaml
  Tests <- MCTests
  Options <- MCOptions
  Simulators = {"vcs", "questa"}
  EnvVars = {"ISS_ROOT"}
  Outcomes <- MCOutcomes
  MaxMakes = 3
  MaxStops = 1
  MaxEdits = 1
SPECIFICATION Spec
CHECK_DEADLOCK FALSE
INVARIANTS
  PassDeserved
  SuccessDeserved
  RightBench
