CONSTANTS
  Layers = 2
  Heads = 2
  MaxPasses = 3
  Configs <- ConfigsOf
SPECIFICATION Spec
INVARIANTS
  OnlyTheNetwork
  WeightsUpToDate
  ReportsOfThisPass
  GradientsOfThisBatch
CHECK_DEADLOCK FALSE
