SPECIFICATION Spec
CONSTANTS
  Configs <- PassConfigs
  IndexModulus = 8
  MaxRuns = 3
INVARIANTS
  EveryWindowOnce
  MeanOfGroup
  StepsAreWholeEpochs
  EvaluationsCompare
  RateRisesThenFalls
CHECK_DEADLOCK FALSE
