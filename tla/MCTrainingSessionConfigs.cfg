SPECIFICATION FairSpec
CONSTANTS
  Losses <- MCLosses
  NonFinite = NonFinite
  NoVal = NoVal
  MinDelta = 0
  MinEpochs = 2
  PatienceEpochs = 2
  TargetLoss <- MCNoTarget
  StopOnNonfinite = TRUE
  tokA = tokA
  tokB = tokB
  modelA = modelA
  modelB = modelB
  Raw = Raw
  Absent = Absent
  Empty = Empty
  StepsPerEpoch = 2
  SaveInterval = 2
  ValidationEvery = 3
  SharedPath = FALSE
  NoPlan = NoPlan
  Nothing = Nothing
  Tokenizers = {tokA, tokB}
  Models = {modelA, modelB}
  Plans <- ConfigPlans
  MaxRuns = 3
  MaxCrashes = 0
  MaxFailures = 1
INVARIANTS
  BoundedLoss
  NoTrainingAfterStop
  OwnTokenizer
PROPERTY InvocationCompletes
CHECK_DEADLOCK FALSE
