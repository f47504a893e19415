------------------------------ MODULE TlpRouter ------------------------------
(***************************************************************************)
(* The router of the article analysis (ai/router/router.py, ai/tlp.py,     *)
(* ai/budget.py): which provider may serve a task, or why none may.  It    *)
(* keeps no state of its own -- every input is handed to it -- so it is a  *)
(* module of operators, instantiated by the modules that ask it.           *)
(***************************************************************************)
EXTENDS Integers, Sequences

CONSTANT Registry   \* the providers in order of preference

Tiers == {"triage", "analysis", "judge"}

ProviderSpec == [local : BOOLEAN, tiers : SUBSET Tiers, price : Nat]

ASSUME RegistryAssumption == Registry \in Seq(ProviderSpec)

Providers == DOMAIN Registry

-----------------------------------------------------------------------------
(* The Traffic Light Protocol.  An unrecognised or missing marking is      *)
(* "unmarked": it is read as AMBER+STRICT, never as permission.            *)

TlpLevels == {"clear", "green", "amber", "amber_strict", "red"}

RawTlp == TlpLevels \cup {"unmarked"}

TLP_ORDER == [clear |-> 0, green |-> 1, amber |-> 2, amber_strict |-> 3, red |-> 4]

coerce_tlp(raw) == IF raw \in TlpLevels THEN raw ELSE "amber_strict"

cloud_allowed(tlp, share, ceiling) ==
  /\ share
  /\ TLP_ORDER[coerce_tlp(tlp)] <= TLP_ORDER[coerce_tlp(ceiling)]

-----------------------------------------------------------------------------
(* What the router is asked, and what it answers.  An override is the      *)
(* analyst's consent to cross the TLP boundary; acknowledging the source's *)
(* own ban is a second, separate consent.                                  *)

Budgets == {"open", "degraded", "exhausted"}

Consents == {"none", "override", "acknowledged"}

Question == [tier : Tiers, tlp : RawTlp, share : BOOLEAN, ceiling : TlpLevels,
             large : BOOLEAN, budget : Budgets, consent : Consents,
             registered : SUBSET Providers]

Refusals == {"too_large", "source_ban", "blocked_tlp", "no_provider", "budget_exhausted"}

Answer == [refusal : Refusals \cup {"none"}, provider : Providers \cup {0}, audit : BOOLEAN]

\* BudgetGuard.verdict: the month is looked at first, then the day, then the
\* fraction (four fifths) of the day past which only the cheap tier continues.
verdict(day, month, dailyCap, monthlyCap) ==
  IF month >= monthlyCap \/ day >= dailyCap THEN "exhausted"
  ELSE IF 5 * day >= 4 * dailyCap THEN "degraded"
  ELSE "open"

CloudAllowed(q) == cloud_allowed(q.tlp, q.share, q.ceiling)

\* The override lifts the boundary, and the source's ban only if it says so.
SourceBanned(q) == ~CloudAllowed(q) /\ q.consent = "override" /\ ~q.share

MayUseCloud(q) == CloudAllowed(q) \/ q.consent # "none"

\* (mutant) a strained budget is taken for leave to use the cheap cloud
CandidatesWhenDegraded(q) ==
  {p \in q.registered : /\ q.tier \in Registry[p].tiers
                        /\ Registry[p].local \/ MayUseCloud(q) \/ q.budget = "degraded"}

Candidates(q) == {p \in q.registered : /\ q.tier \in Registry[p].tiers
                                       /\ Registry[p].local \/ MayUseCloud(q)}

\* candidates[0]: the registry's order is the order of preference.
Preferred(q) == CHOOSE p \in Candidates(q) : \A r \in Candidates(q) : p <= r

Refuse(reason) == [refusal |-> reason, provider |-> 0, audit |-> FALSE]

\* (mutant) every overridden cloud call asks for a row, crossing or not
ClearAuditingAll(q) ==
  [refusal |-> "none", provider |-> Preferred(q),
   audit |-> q.consent # "none" /\ ~Registry[Preferred(q)].local]

\* An override is recorded only where the boundary really was in the way.
Clear(q) == [refusal  |-> "none",
             provider |-> Preferred(q),
             audit    |-> /\ q.consent # "none"
                          /\ ~CloudAllowed(q)
                          /\ ~Registry[Preferred(q)].local]

\* Router.choose: size, then privacy to the end, and only then money.
choose(q) ==
  IF q.large                   THEN Refuse("too_large")
  ELSE IF SourceBanned(q)      THEN Refuse("source_ban")
  ELSE IF Candidates(q) = {}   THEN Refuse(IF MayUseCloud(q) THEN "no_provider" ELSE "blocked_tlp")
  ELSE IF q.budget = "exhausted" THEN Refuse("budget_exhausted")
  ELSE IF q.tier # "triage" /\ q.budget = "degraded" THEN Refuse("budget_exhausted")
  ELSE Clear(q)

\* The answer sends the article to a third party although its marking, or its
\* source, does not allow it.
Crosses(q, a) == /\ a.refusal = "none"
                 /\ ~Registry[a.provider].local
                 /\ ~CloudAllowed(q)
=============================================================================
