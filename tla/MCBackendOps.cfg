SPECIFICATION OpsSpec
CONSTANTS
  Calls <- RowCalls
  CellCalls <- MCCellCalls
  ProductCalls <- MCProductCalls
  BlockThreads = 2
  MaxBlockX = 2
  TileDim = 1
  MaxGridY = 2
  Vocab = 2
  Heads = 1
  CallCells = 13
  ProductCells = 24
INVARIANTS
  NoDataRace
  ResultsAreWhole
  BackendsAgree
  AsTheLoops
PROPERTY LaunchEnds
CHECK_DEADLOCK FALSE
