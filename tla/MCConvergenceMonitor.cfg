SPECIFICATION Spec
CONSTANTS
  Losses <- MCLosses
  NonFinite = NonFinite
  NoVal = NoVal
  Unjudged = Unjudged
  NoCheckpoint = NoCheckpoint
  MinDelta = 1
  MinEpochs = 2
  PatienceEpochs = 2
  TargetLoss = 1
  StopOnNonfinite = TRUE
  MaxEpochs = 3
INVARIANTS
  BestBeatsHistory
  PatienceStopsInTime
  InterruptionIsInvisible
PROPERTIES
  NoEarlyPatienceStop
