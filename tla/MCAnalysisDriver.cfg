SPECIFICATION Spec
CONSTANTS
  Articles <- MCArticles
  Unserved <- MCUnserved
  Outcomes <- MCOutcomes
  Limit = 2
  Depth = 2
  MaxCrashes = 1
PROPERTIES AnalysisStands ServedSettle
