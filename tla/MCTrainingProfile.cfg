SPECIFICATION Spec
CONSTANTS
  kMarksPerOptimizerStep = 25
  MaxMarks = 100
  Layers = 1
  WorkOf <- MCWorkOf
  Runs <- MCRuns
INVARIANTS
  StageLinesAddUp
  MarksAreTheWindow
  ReportIsOfTheWindow
