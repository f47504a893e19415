SPECIFICATION Spec
CONSTANTS
  Articles <- MCArticles
  Source <- MCSource
  Origin <- MCOrigin
  Analyses <- MCAnalyses
  Tunings <- MCTunings
  FirstTuning <- MCFirst
  Grades <- MCGrades
  MaxGatings = 3
  MaxChanges = 2
INVARIANTS TypeOK 
PROPERTIES RegatedIndicatorsAlike OnlyTrustedPromoted
CHECK_DEADLOCK FALSE
