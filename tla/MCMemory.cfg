SPECIFICATION MemorySpec
CONSTANTS
  SpecLists <- MCSpecLists
  Alignments <- MCAlignments
  Configs <- MCConfigs
INVARIANTS
  SlicesApart
  SlicesInZone
  AllAligned
  EveryTensorIsThere
  TensorsApart
  OptimizerInStep
CHECK_DEADLOCK FALSE
