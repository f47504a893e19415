---------------------------- MODULE ConfidenceGate ----------------------------
(***************************************************************************)
(* How findings are scored and decided (ai/enrichment/gate.py and          *)
(* ai/confidence): the composite of four measurements, the two grades, the *)
(* floors, and the gate run again and again while judges, analysts and     *)
(* operators change what it reads.  It is followed for one indicator and   *)
(* one technique that several articles may report, and for the narrative   *)
(* and the sketch every analysis has.  What the gate does to a group is     *)
(* kept to one fact: whether the indicator was written to it.              *)
(*                                                                         *)
(* Scores are integers, in thousandths, rounded down; the code keeps       *)
(* floating-point numbers.                                                 *)
(***************************************************************************)
EXTENDS Integers, FiniteSets

CONSTANTS
  Articles,
  Source,       \* the feed of each article
  Origin,       \* whose research it writes up, which no table records
  Analyses,     \* what an analysis may find, a set of Analysis
  Tunings,      \* the floors an operator may set
  FirstTuning,  \* those the process starts with
  Grades,       \* the grades feeds are given
  MaxGatings,   \* bound: how often the gate runs
  MaxChanges    \* bound: how often judge, analyst or operator intervene

Kinds == {"ioc", "ttp", "narrative", "sketch"}

Missing == -1

Scores == 0..1000

Measured == Scores \cup {Missing}

\* What the machine leaves behind: the findings, the survival ratio of each
\* state's proposals, the judge's verdict, whether the indicator has its
\* optional context, and the technique's self-report.  Narrative and sketch
\* are there whenever verify is.
Analysis == [held : {h \in SUBSET Kinds : {"narrative", "sketch"} \subseteq h},
             anchor : [{"ioc", "ttp", "sketch"} -> Measured], critic : Measured,
             context : {0, 1000}, self : Scores]

\* What a process is started with: the floors, the lift, and whether the
\* published address space it reads once holds the indicator.
Tuning == [floor : [Kinds -> Scores], overall : Scores, lift : Scores, rented : BOOLEAN]

ASSUME GateAssumption == /\ IsFiniteSet(Articles) /\ Source \in [Articles -> STRING]
                         /\ Origin \in [Articles -> STRING]
                         /\ Analyses \subseteq Analysis
                         /\ Tunings \subseteq Tuning
                         /\ FirstTuning \in Tunings
                         /\ Grades \subseteq {"A", "B", "C", "D", "E", "F"}
                         /\ MaxGatings \in Nat /\ MaxChanges \in Nat

Sources == {Source[a] : a \in Articles}

-----------------------------------------------------------------------------
(* The composite (composite.py). *)

Neutral == 500

Weight == [anchor |-> 4, critic |-> 3, schema |-> 2, self |-> 1]

WeightOf(n, notApplicable) == IF n \in notApplicable THEN 0 ELSE Weight[n]

\* (mutant) the sum is taken over all four, the weights over those that apply
CompositeOfAll(c, notApplicable) ==
  LET value(n) == IF c[n] = Missing THEN Neutral ELSE c[n]
      total    == WeightOf("anchor", notApplicable) + WeightOf("critic", notApplicable)
                  + WeightOf("schema", notApplicable) + WeightOf("self", notApplicable)
  IN (4 * value("anchor") + 3 * value("critic") + 2 * value("schema") + value("self")) \div total

\* (mutant) what a kind does not have counts as missing
CompositeOfMissing(c, notApplicable) ==
  LET value(n) == IF c[n] = Missing \/ n \in notApplicable THEN Neutral ELSE c[n]
  IN (4 * value("anchor") + 3 * value("critic") + 2 * value("schema") + value("self")) \div 10

\* A measurement that is merely missing takes the neutral value and keeps its
\* weight; one the kind does not have is left out and the rest renormalised.
composite(c, notApplicable) ==
  LET w(n)     == WeightOf(n, notApplicable)
      value(n) == IF c[n] = Missing THEN Neutral ELSE c[n]
      total    == w("anchor") + w("critic") + w("schema") + w("self")
  IN IF total = 0 THEN Neutral
     ELSE (w("anchor") * value("anchor") + w("critic") * value("critic")
           + w("schema") * value("schema") + w("self") * value("self")) \div total

\* The Components of each kind; self is the confidence stored on the
\* finding's own row.
Measurements(kind, found, stored) ==
  [anchor |-> IF kind = "narrative" THEN Missing ELSE found.anchor[kind],
   critic |-> found.critic,
   schema |-> IF kind = "ioc" THEN found.context ELSE Missing,
   self   |-> IF kind = "ttp" THEN stored ELSE Missing]

NotApplicable == [ioc |-> {"self"}, ttp |-> {}, narrative |-> {"anchor", "schema", "self"},
                  sketch |-> {"schema", "self"}]

-----------------------------------------------------------------------------
(* The two axes (grading.py), factors in hundredths. *)

SourceGrades == {"A", "B", "C", "D", "E", "F"}

SourceFactors == [A |-> 100, B |-> 90, C |-> 75, D |-> 55, E |-> 30]

\* Nothing the gate passes reaches the other grades.
InfoGrades == {"confirmed", "possibly_true", "cannot_be_judged"}

InfoFactors == [confirmed |-> 100, possibly_true |-> 75]

Factor(factors, g) == IF g \in DOMAIN factors THEN factors[g] ELSE 100

\* apply_axes: an axis that cannot be judged contributes no factor.
apply_axes(raw, g, info) == (raw * Factor(SourceFactors, g) * Factor(InfoFactors, info)) \div 10000

unjudgeable(g, info) == g \notin DOMAIN SourceFactors \/ info \notin DOMAIN InfoFactors

-----------------------------------------------------------------------------
(* The decision (thresholds.py). *)

Decisions == {"auto", "staged"}

\* thresholds_for: a local model is held to a higher bar, never past the top.
Lifted(floor, tuning, localRun) ==
  LET lifted == floor + (IF localRun THEN tuning.lift ELSE 0)
  IN IF lifted > 1000 THEN 1000 ELSE lifted

\* decide: an axis nobody can judge, then the kind's floor, then the overall.
decide(raw, g, info, floor, overall) ==
  IF unjudgeable(g, info) \/ raw < floor \/ raw < overall THEN "staged" ELSE "auto"

-----------------------------------------------------------------------------
VARIABLES
  analysis,     \* what each article's analysis left behind, or none yet
  verified,     \* articles whose verify row is ok
  confidence,   \* the confidence column of the finding's own row
  staged,       \* the staged_findings rows: at most one per article and kind
  known,        \* articles whose sketch names a group the database holds
  promoted,     \* articles whose indicator was written to that group
  grade,        \* reliability_grade of each feed
  tuning,       \* the floors in force
  gatings,      \* how often the gate has run, up to MaxGatings
  changes       \* how many interventions there were, up to MaxChanges

vars == <<analysis, verified, confidence, staged, known, promoted, grade, tuning, gatings, changes>>

None == [kind |-> "none"]

\* The columns the properties read; the floors and the factors are left out.
Verdict == [kind : {"verdict"}, raw : Scores, total : Scores, info : InfoGrades,
            critic : Measured, decision : Decisions]

\* The kinds with a findings table, and so a confidence, of their own.
Rows == {"ioc", "ttp"}

Analysed(a) == analysis[a] # None

Held(a) == IF Analysed(a) THEN analysis[a].held ELSE {}

Init == /\ analysis = [a \in Articles |-> None]
        /\ verified = {}
        /\ confidence = [a \in Articles |-> [k \in Rows |-> Missing]]
        /\ staged = [a \in Articles |-> [k \in Kinds |-> None]]
        /\ known = {} /\ promoted = {}
        /\ grade \in [Sources -> Grades]
        /\ tuning = FirstTuning
        /\ gatings = 0
        /\ changes = 0

Intervene == changes < MaxChanges /\ changes' = changes + 1

\* The machine finishes an article (_ground): an indicator is stored without a
\* confidence, a technique with the model's own.
Analyse(a) ==
  /\ ~Analysed(a)
  /\ \E found \in Analyses :
       /\ analysis' = [analysis EXCEPT ![a] = found]
       /\ confidence' = [confidence EXCEPT ![a].ttp = IF "ttp" \in found.held THEN found.self ELSE Missing]
  /\ verified' = verified \cup {a}
  /\ UNCHANGED <<staged, known, promoted, grade, tuning, gatings, changes>>

\* The prose is restyled by hand: narrative, sketch and verify are cleared and
\* asked for again; the findings and their scores stay.
ClearProse(a) ==
  /\ a \in verified
  /\ Intervene
  /\ verified' = verified \ {a}
  /\ UNCHANGED <<analysis, confidence, staged, known, promoted, grade, tuning, gatings>>

Restyled(old, found) ==
  [old EXCEPT !.critic = found.critic, !.anchor = [old.anchor EXCEPT !["sketch"] = found.anchor["sketch"]]]

VerifyAgain(a) ==
  /\ Analysed(a) /\ a \notin verified
  /\ \E found \in Analyses : analysis' = [analysis EXCEPT ![a] = Restyled(@, found)]
  /\ verified' = verified \cup {a}
  /\ UNCHANGED <<confidence, staged, known, promoted, grade, tuning, gatings, changes>>

\* corroboration_for_ioc, _ttp: another feed has reported the same.
Confirmed(a, k) == \E b \in Articles : Source[b] # Source[a] /\ k \in Held(b)

\* A name the database holds confirms a sketch; nothing judges a narrative.
InfoGrade(a, k) ==
  IF k = "narrative" THEN "cannot_be_judged"
  ELSE IF (k = "sketch" /\ a \in known) \/ (k \in Rows /\ Confirmed(a, k))
       THEN "confirmed" ELSE "possibly_true"

Components(a, k) == Measurements(k, analysis[a], IF k \in Rows THEN confidence[a][k] ELSE Missing)

\* The verdict _record stores for a composite.
VerdictOn(raw, a, k, localRun) ==
  LET g       == grade[Source[a]]
      info    == InfoGrade(a, k)
      floor   == Lifted(tuning.floor[k], tuning, localRun)
      overall == Lifted(tuning.overall, tuning, localRun)
  IN [kind |-> "verdict", raw |-> raw, total |-> apply_axes(raw, g, info), info |-> info,
      critic |-> analysis[a].critic, decision |-> decide(raw, g, info, floor, overall)]

\* (mutant) the axes are folded into the composite
ScoredFused(a, k, localRun) ==
  VerdictOn(apply_axes(composite(Components(a, k), NotApplicable[k]), grade[Source[a]], InfoGrade(a, k)),
            a, k, localRun)

Scored(a, k, localRun) ==
  VerdictOn(composite(Components(a, k), NotApplicable[k]), a, k, localRun)

\* (mutant) the sketch's verdict speaks for its indicators
PromotesBySketch(a, verdicts) ==
  /\ a \in known
  /\ verdicts["sketch"].decision = "auto"
  /\ "ioc" \in Held(a)
  /\ ~tuning.rented

\* _gate_prose, _infrastructure_from: a sketch that passed and names a group
\* the database holds gives it the article's indicators that passed too.
Promotes(a, verdicts) ==
  /\ a \in known
  /\ verdicts["sketch"].decision = "auto"
  /\ "ioc" \in Held(a) /\ verdicts["ioc"].decision = "auto"
  /\ ~tuning.rented

\* run_gate: the article's rows are replaced, and its findings' confidence
\* becomes the total.  An article without a finished verify is skipped.
Gate(a, localRun) ==
  /\ a \in verified
  /\ gatings < MaxGatings /\ gatings' = gatings + 1
  /\ LET verdicts == [k \in Kinds |-> IF k \in Held(a) THEN Scored(a, k, localRun) ELSE None]
     IN /\ staged' = [staged EXCEPT ![a] = verdicts]
        /\ confidence' = [confidence EXCEPT ![a] =
                            [k \in Rows |-> IF k \in Held(a) THEN verdicts[k].total ELSE @[k]]]
        /\ promoted' = IF Promotes(a, verdicts) THEN promoted \cup {a} ELSE promoted
  /\ UNCHANGED <<analysis, verified, known, grade, tuning, changes>>

\* set_source_grade: an analyst's judgement of a feed.
Regrade(s, g) ==
  /\ Intervene
  /\ grade' = [grade EXCEPT ![s] = g]
  /\ UNCHANGED <<analysis, verified, confidence, staged, known, promoted, tuning, gatings>>

\* Configuration and feeds are read when the process starts.
Retune(t) ==
  /\ Intervene
  /\ tuning' = t
  /\ UNCHANGED <<analysis, verified, confidence, staged, known, promoted, grade, gatings>>

\* A group by the name the sketch uses enters the database.
NameArrives(a) ==
  /\ Intervene
  /\ known' = known \cup {a}
  /\ UNCHANGED <<analysis, verified, confidence, staged, promoted, grade, tuning, gatings>>

Next == \/ \E a \in Articles : \/ Analyse(a) \/ ClearProse(a) \/ VerifyAgain(a) \/ NameArrives(a)
                               \/ \E localRun \in BOOLEAN : Gate(a, localRun)
        \/ \E s \in Sources, g \in Grades : Regrade(s, g)
        \/ \E t \in Tunings : Retune(t)

Spec == Init /\ [][Next]_vars

-----------------------------------------------------------------------------
\* Every variable holds what its columns may hold; scores stay within 0..1000.
TypeOK == /\ analysis \in [Articles -> Analysis \cup {None}]
          /\ verified \subseteq Articles
          /\ confidence \in [Articles -> [Rows -> Measured]]
          /\ staged \in [Articles -> [Kinds -> Verdict \cup {None}]]
          /\ known \subseteq Articles /\ promoted \subseteq Articles
          /\ grade \in [Sources -> SourceGrades]
          /\ tuning \in Tunings
          /\ gatings \in 0..MaxGatings /\ changes \in 0..MaxChanges

\* A finding gated before and after has the same composite, unless the judge
\* has been asked again in between.
ScoredAlike(k) == \A a \in Articles :
  /\ staged[a][k] # None /\ staged'[a][k] # None
  /\ staged'[a][k].critic = staged[a][k].critic
  => staged'[a][k].raw = staged[a][k].raw

\* Gating an analysis again gives its indicators the score they had: whatever
\* was regraded, retuned or corroborated in between, the composite depends on
\* the analysis alone (tables.py:800-803, gate.py:15-17).
RegatedIndicatorsAlike == [][ScoredAlike("ioc")]_vars

\* However a kind is measured, and whatever of it is missing, its score spans the
\* scale of what was measured: never below all of it, never above, and at the
\* greatest only if nothing measured, and nothing missing, falls short of that
\* (composite.py:86-97, 211-215: no category is capped or lifted, and what was
\* measured on fewer signals does not score like what was measured on all).
BetweenItsMeasurements ==
  \A a \in verified : \A k \in Held(a), localRun \in BOOLEAN :
    LET c        == Components(a, k)
        raw      == Scored(a, k, localRun).raw
        value(n) == IF c[n] = Missing THEN Neutral ELSE c[n]
        signals  == DOMAIN Weight \ NotApplicable[k]
    IN  /\ \E n \in signals : value(n) <= raw
        /\ (\E n \in signals : raw < value(n)) \/ (\A n \in signals : raw = value(n))

\* Whatever a run on a local model would pass, a run on the others would have
\* passed too, under every tuning (thresholds.py:15-19, 84-98).
LocalIsStricter ==
  \A a \in verified : \A k \in Held(a) :
    Scored(a, k, TRUE).decision = "auto" => Scored(a, k, FALSE).decision = "auto"

\* A group never receives an indicator the gate would not trust on its own,
\* however well the sketch beside it scored: its own score clears its own
\* floors, its feed can be judged and its owner is not known to rent it out
\* (gate.py:429-432).
OnlyTrustedPromoted ==
  [][\A a \in promoted' \ promoted :
       /\ staged'[a]["ioc"].raw >= tuning.floor["ioc"] /\ staged'[a]["ioc"].raw >= tuning.overall
       /\ grade[Source[a]] # "F"
       /\ ~tuning.rented]_vars

-----------------------------------------------------------------------------
(* What comments say, and the code does not do. *)

\* "Idempotent.  A second pass over the same article replaces its rows"
\* (gate.py:15), so that recalibration is cheap: the same holds of techniques.
RegatedTechniquesAlike == [][ScoredAlike("ttp")]_vars

\* "Three write-ups of one vendor's research republished by three outlets are one
\* source's claim repeated" (grading.py:103-107): what is graded confirmed is
\* held by an article of another feed and of another origin.
SyndicationIsNotConfirmation ==
  \A a \in Articles, k \in Rows :
    staged[a][k] # None /\ staged[a][k].info = "confirmed"
      => \E b \in Articles : Source[b] # Source[a] /\ Origin[b] # Origin[a] /\ k \in Held(b)
===============================================================================
