SPECIFICATION Spec
CONSTANTS
  Losses <- MCLosses
  NonFinite = NonFinite
  NoVal = NoVal
  MinDelta = 0
  MinEpochs = 2
  PatienceEpochs = 2
  TargetLoss <- MCNoTarget
  StopOnNonfinite = TRUE
  tokA = tokA
  tokB = tokB
  modelA = modelA
  modelB = modelB
  Raw = Raw
  Absent = Absent
  Empty = Empty
  StepsPerEpoch = 2
  SaveInterval = 2
  ValidationEvery = 2
  SharedPath = FALSE
  NoPlan = NoPlan
  Nothing = Nothing
  Tokenizers = {tokA}
  Models = {modelA}
  Plans <- CrashPlans
  MaxRuns = 3
  MaxCrashes = 2
  MaxFailures = 1
INVARIANTS
  TypeOK
  MemoryCoherent
  FilesCoherent
  BestFileIsTheBest
  SidecarsMatch
  MonitorStopIsSaved
PROPERTY KeepsProgress
CHECK_DEADLOCK FALSE
