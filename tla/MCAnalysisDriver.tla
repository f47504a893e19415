-------------------------- MODULE MCAnalysisDriver ---------------------------
EXTENDS AnalysisDriver

MCArticles == 1..3
MCUnserved == {2}
MCOutcomes == {"ok", "dropped", "staged", "error"}
=============================================================================
