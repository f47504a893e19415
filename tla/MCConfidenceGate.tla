-------------------------- MODULE MCConfidenceGate ---------------------------
(* Two articles of one feed and one of another, which writes up the same     *)
(* research as one of them; an analysis that survived whole, and one that    *)
(* lost half, was doubted and has no technique.                              *)
EXTENDS ConfidenceGate

MCArticles == {"a1", "a2", "b1"}
MCSource == [a1 |-> "feedA", a2 |-> "feedA", b1 |-> "feedB"]
MCOrigin == [a1 |-> "vendor", a2 |-> "agency", b1 |-> "vendor"]

MCAnalyses ==
  { [held |-> Kinds, anchor |-> [ioc |-> 1000, ttp |-> 1000, sketch |-> 1000], critic |-> 1000,
     context |-> 1000, self |-> 0],
    [held |-> Kinds \ {"ttp"}, anchor |-> [ioc |-> 500, ttp |-> Missing, sketch |-> 1000],
     critic |-> 600, context |-> 0, self |-> 0] }

MCGrades == {"B", "F"}

\* The defaults of config.py, and a tuning that asks more of the indicator and
\* less of the rest, with a feed that has since listed it.
MCFirst == [floor |-> [ioc |-> 850, ttp |-> 700, narrative |-> 900, sketch |-> 750],
            overall |-> 750, lift |-> 100, rented |-> FALSE]
MCTunings == {MCFirst, [floor |-> [ioc |-> 950, ttp |-> 600, narrative |-> 600, sketch |-> 600],
                        overall |-> 600, lift |-> 100, rented |-> TRUE]}
=============================================================================
