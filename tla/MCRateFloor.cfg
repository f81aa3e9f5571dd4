SPECIFICATION Spec
CONSTANTS
  Configs <- FloorConfigs
  IndexModulus = 8
  MaxRuns = 1
INVARIANT
  NoStepRefused
CHECK_DEADLOCK FALSE
