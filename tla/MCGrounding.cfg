SPECIFICATION GroundingSpec
CONSTANTS
  Letters = {"a", "b", "c"}
  Bodies <- MCBodies
  WellFormed <- MCWellFormed
  Techniques <- MCTechniques
  Bundles <- MCBundles
  _MAX_REVOCATION_HOPS = 3
  _MIN_EVIDENCE_CHARS = 3
  MAX_TTPS = 2
  IocAnswers <- MCIocAnswers
  TtpAnswers <- MCTtpAnswers
  Sketches <- MCSketches
  Diamonds <- MCDiamonds
INVARIANTS GroundingTypeOK SpansQuote RefusedOnlyIfAbsent
