SPECIFICATION Spec
CONSTANTS
  Heads = 4
  NumLanes = 3
INVARIANTS
  AsIfSequential
PROPERTY
  AllWorkDone
CHECK_DEADLOCK FALSE
