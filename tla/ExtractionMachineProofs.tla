----------------------- MODULE ExtractionMachineProofs -----------------------
(* The router's privacy gate holds for every registry, every history of      *)
(* retries and every budget; and the extraction machine, which asks it,      *)
(* keeps its promises for every registry, every set of articles, every       *)
(* ceiling and every number of retries.                                      *)
EXTENDS ExtractionMachineInvariant, TlpRouterTask, WellFoundedInduction, TLAPS

-----------------------------------------------------------------------------
(* What every user of the router may rely on, whatever the registry.        *)

\* A nonempty set of naturals has a least member: candidates[0] exists.
LEMMA Least ==
  ASSUME NEW S \in SUBSET Nat, S # {}
  PROVE  \E i \in S : \A j \in S : i <= j
<1> DEFINE R == {ss \in Nat \X Nat : ss[1] < ss[2]}
<1>1. IsWellFoundedOn(R, Nat)
  BY NatLessThanWellFounded DEF OpToRel
<1>2. PICK i \in S : \A j \in S : ~ (<<j, i>> \in R)
  <2> HIDE DEF R
  <2> QED BY <1>1, WFMin
<1>3. \A j \in S : i <= j
  <2> TAKE j \in S
  <2>1. <<j, i>> \in Nat \X Nat /\ <<j, i>>[1] = j /\ <<j, i>>[2] = i
    OBVIOUS
  <2>2. ~(<<j, i>>[1] < <<j, i>>[2])
    BY <1>2, <2>1, Zenon
  <2> QED BY <2>1, <2>2
<1> QED BY <1>3

\* The preferred provider is one of the candidates: registered, serving the
\* tier, and local unless the cloud is allowed (router.py:98-100, 145).
LEMMA PreferredIsCandidate ==
  ASSUME NEW q \in Question, Candidates(q) # {}
  PROVE  Preferred(q) \in Candidates(q)
<1>1. Candidates(q) \in SUBSET Nat
  BY RegistryAssumption DEF Candidates, Question, Providers
<1>2. \E p \in Candidates(q) : \A r \in Candidates(q) : p <= r
  BY <1>1, Least
<1> QED BY <1>2 DEF Preferred

\* The router always answers, with a provider of the registry or a refusal.
LEMMA ChooseType ==
  ASSUME NEW q \in Question
  PROVE  choose(q) \in Answer
<1>1. CASE Candidates(q) = {}
  BY <1>1 DEF choose, Answer, Refuse, Refusals
<1>2. CASE Candidates(q) # {}
  <2>1. Preferred(q) \in Providers
    BY <1>2, PreferredIsCandidate DEF Candidates, Question
  <2>2. Clear(q) \in Answer
    BY <2>1 DEF Clear, Answer
  <2> QED BY <1>2, <2>2 DEF choose, Answer, Refuse, Refusals
<1> QED BY <1>1, <1>2

\* A choice, as opposed to a refusal, is Clear(q), and only over candidates.
LEMMA ChoiceIsClear ==
  ASSUME NEW q \in Question, choose(q).refusal = "none"
  PROVE  /\ choose(q) = Clear(q) 
         /\ Preferred(q) \in Candidates(q)
         /\ ~SourceBanned(q)
         /\ q.budget # "exhausted"
         /\ q.budget = "degraded" => q.tier = "triage"
<1>1. Candidates(q) # {} /\ ~SourceBanned(q) /\ q.budget # "exhausted"
      /\ (q.budget = "degraded" => q.tier = "triage") /\ choose(q) = Clear(q)
  BY DEF choose, Refuse
<1> QED BY <1>1, PreferredIsCandidate

\* A choice names a provider, and asks for an audit row exactly when it crosses
\* the boundary (router.py:145-154).
LEMMA AuditIsCrossing ==
  ASSUME NEW q \in Question, choose(q).refusal = "none"
  PROVE  /\ choose(q).provider \in Providers
         /\ choose(q).audit <=> Crosses(q, choose(q))
<1>1. choose(q) = Clear(q)
  BY ChoiceIsClear
<1>2. Preferred(q) \in Candidates(q)
  BY ChoiceIsClear
<1>3. Crosses(q, Clear(q)) => q.consent # "none"
  BY <1>2 DEF Crosses, Clear, Candidates, MayUseCloud
<1> QED
  BY <1>1, <1>2, <1>3 DEF Crosses, Clear, Candidates, Question

-----------------------------------------------------------------------------
(* The invariant of a task. *)

\* While barred, what a person decides still rules the third party out; what
\* the deployment changes on its own -- spend, registry, size -- is not in it.
Shut(asked) == ~MayUseCloud(asked) \/ SourceBanned(asked)

TaskInv == /\ TaskTypeOK
           /\ reply = choose(question)
           /\ barred => Shut(question)

\* A privacy refusal is only ever given while the third party is ruled out.
LEMMA PrivacyMeansShut ==
  ASSUME NEW asked \in Question, choose(asked).refusal \in Privacy
  PROVE  Shut(asked)
  BY DEF choose, Refuse, Clear, Privacy, Shut

\* While it is ruled out, no answer sends anything to a third party.
LEMMA ShutMeansLocal ==
  ASSUME NEW asked \in Question, Shut(asked), choose(asked).refusal = "none"
  PROVE  Registry[choose(asked).provider].local
<1>1. /\ choose(asked) = Clear(asked)
      /\ Preferred(asked) \in Candidates(asked)
      /\ ~MayUseCloud(asked)
  BY ChoiceIsClear DEF Shut
<1> QED BY <1>1 DEF Clear, Candidates

\* The candidates and the privacy questions do not look at the budget.
LEMMA BudgetBlind ==
  ASSUME NEW a \in Question, NEW b \in Question, [a EXCEPT !.budget = b.budget] = b
  PROVE  /\ Candidates(a) = Candidates(b)
         /\ MayUseCloud(a) <=> MayUseCloud(b)
         /\ SourceBanned(a) <=> SourceBanned(b)
         /\ a.large = b.large
<1>1. /\ a.tier = b.tier /\ a.tlp = b.tlp /\ a.share = b.share /\ a.ceiling = b.ceiling
      /\ a.consent = b.consent /\ a.registered = b.registered /\ a.large = b.large
  BY DEF Question
<1> QED BY <1>1 DEF Candidates, MayUseCloud, SourceBanned, CloudAllowed

LEMMA MembershipIsBoolean ==
  ASSUME NEW x, NEW S
  PROVE  (x \in S) \in BOOLEAN
  BY SMT

LEMMA TaskInitInv == TaskInit => TaskInv
<1> SUFFICES ASSUME TaskInit PROVE TaskInv
  OBVIOUS
<1>1. question \in Question
  BY DEF TaskInit, Question, Budgets, Consents
<1>2. reply = choose(question) /\ reply \in Answer
  BY <1>1, ChooseType DEF TaskInit
<1>3. barred = (choose(question).refusal \in Privacy)
  BY DEF TaskInit
<1>4. barred \in BOOLEAN
  BY <1>3, MembershipIsBoolean
<1>5. barred => Shut(question)
  BY <1>1, <1>3, PrivacyMeansShut
<1> QED BY <1>1, <1>2, <1>4, <1>5 DEF TaskInv, TaskTypeOK

\* Either the step is a retry that leaves a person's decisions alone, or the
\* answer alone decides what is barred.
LEMMA TaskNextInv == TaskInv /\ [Retry]_task => TaskInv'
<1> SUFFICES ASSUME TaskInv, [Retry]_task PROVE TaskInv'
  OBVIOUS
<1>1. CASE UNCHANGED task
  BY <1>1 DEF TaskInv, TaskTypeOK, task
<1>2. ASSUME NEW next \in Question, RetryWith(next),
             Shut(question) => Shut(next)
      PROVE  TaskInv'
  <2>1. choose(next) \in Answer
    BY ChooseType
  <2>2. question' \in Question /\ reply' \in Answer /\ reply' = choose(question')
    BY <1>2, <2>1 DEF RetryWith
  <2>3. barred' \in BOOLEAN
    BY <1>2 DEF RetryWith, TaskInv, TaskTypeOK
  <2>4. barred' => Shut(question')
    BY <1>2, PrivacyMeansShut DEF RetryWith, TaskInv
  <2> QED BY <2>2, <2>3, <2>4 DEF TaskInv, TaskTypeOK
<1>3. ASSUME NEW next \in Question, DecideAndRetryWith(next)
      PROVE  TaskInv'
  <2>1. choose(next) \in Answer
    BY ChooseType
  <2>2. question' \in Question /\ reply' \in Answer /\ reply' = choose(question')
    BY <1>3, <2>1 DEF DecideAndRetryWith
  <2>3. barred' = (choose(next).refusal \in Privacy) /\ question' = next
    BY <1>3 DEF DecideAndRetryWith
  <2>4. barred' \in BOOLEAN
    BY <2>3, MembershipIsBoolean
  <2>5. choose(next).refusal \in Privacy => Shut(next)
    BY PrivacyMeansShut
  <2>6. Shut(next) => Shut(question')
    BY <2>3
  <2>7. barred' => Shut(question')
    BY <2>3, <2>5, <2>6, Zenon
  <2> QED BY <2>2, <2>4, <2>7 DEF TaskInv, TaskTypeOK
<1>4. question \in Question
  BY DEF TaskInv, TaskTypeOK
<1>5. ASSUME NEW b \in Budgets, SpendMoves(b) PROVE TaskInv'
  <2> DEFINE next == [question EXCEPT !.budget = b]
  <2>1. next \in Question
    BY <1>4 DEF Question
  <2>2. Shut(question) => Shut(next)
    BY <1>4 DEF Shut, MayUseCloud, SourceBanned, CloudAllowed, Question
  <2>3. RetryWith(next)
    BY <1>5 DEF SpendMoves
  <2> HIDE DEF next
  <2> QED BY <1>2, <2>1, <2>2, <2>3
<1>6. ASSUME NEW ps \in SUBSET Providers, Register(ps) PROVE TaskInv'
  <2> DEFINE next == [question EXCEPT !.registered = ps]
  <2>1. next \in Question
    BY <1>4 DEF Question
  <2>2. Shut(question) => Shut(next)
    BY <1>4 DEF Shut, MayUseCloud, SourceBanned, CloudAllowed, Question
  <2>3. RetryWith(next)
    BY <1>6 DEF Register
  <2> HIDE DEF next
  <2> QED BY <1>2, <2>1, <2>2, <2>3
<1>7. ASSUME NEW l \in BOOLEAN, Resize(l) PROVE TaskInv'
  <2> DEFINE next == [question EXCEPT !.large = l]
  <2>1. next \in Question
    BY <1>4 DEF Question
  <2>2. Shut(question) => Shut(next)
    BY <1>4 DEF Shut, MayUseCloud, SourceBanned, CloudAllowed, Question
  <2>3. RetryWith(next)
    BY <1>7 DEF Resize
  <2> HIDE DEF next
  <2> QED BY <1>2, <2>1, <2>2, <2>3
<1>8. ASSUME NEW t \in RawTlp, Remark(t) PROVE TaskInv'
  BY <1>3, <1>4, <1>8 DEF Remark, Question
<1>9. ASSUME NEW f \in BOOLEAN, SetShareFlag(f) PROVE TaskInv'
  BY <1>3, <1>4, <1>9 DEF SetShareFlag, Question
<1>10. ASSUME NEW c \in TlpLevels, SetCeiling(c) PROVE TaskInv'
  BY <1>3, <1>4, <1>10 DEF SetCeiling, Question
<1>11. ASSUME NEW c \in Consents, Consent(c) PROVE TaskInv'
  BY <1>3, <1>4, <1>11 DEF Consent, Question
<1> QED BY <1>1, <1>5, <1>6, <1>7, <1>8, <1>9, <1>10, <1>11 DEF Retry

LEMMA TaskInvariance == TaskSpec => []TaskInv
  BY TaskInitInv, TaskNextInv, PTL DEF TaskSpec

\* The router's answers stay answers, whatever the registry.
THEOREM TaskTypeCorrect == TaskSpec => []TaskTypeOK
<1>1. TaskInv => TaskTypeOK
  BY DEF TaskInv
<1> QED BY <1>1, TaskInvariance, PTL

\* Nothing crosses the boundary without the consents it takes, and an audit
\* row is asked for exactly when something does (router.py:76-96, 145-154).
THEOREM Consented == TaskSpec => []NothingLeavesUnconsented
<1>1. ASSUME TaskInv PROVE NothingLeavesUnconsented
  <2>1. question \in Question /\ reply = choose(question)
    BY <1>1 DEF TaskInv, TaskTypeOK
  <2>2. CASE reply.refusal # "none"
    BY <2>1, <2>2 DEF NothingLeavesUnconsented, Crosses, choose, Refuse, Clear
  <2>3. CASE reply.refusal = "none"
    <3>1. /\ reply = Clear(question) /\ Preferred(question) \in Candidates(question) /\ ~SourceBanned(question)
      BY <2>1, <2>3, ChoiceIsClear
    <3>2. Crosses(question, reply) => question.consent # "none"
      BY <3>1 DEF Crosses, Clear, Candidates, MayUseCloud
    <3>3. reply.audit <=> Crosses(question, reply)
      BY <3>1, <3>2 DEF Crosses, Clear
    <3>4. Crosses(question, reply) /\ question.consent = "override" => question.share
      BY <3>1, <2>1 DEF Crosses, SourceBanned, Question
    <3> QED BY <2>1, <3>2, <3>3, <3>4 DEF NothingLeavesUnconsented, Question, Consents
  <2> QED BY <2>2, <2>3
<1> QED BY <1>1, TaskInvariance, PTL

\* Retrying does not release what privacy refused (router.py:102-107).
THEOREM OnlyAPersonReleases == TaskSpec => []ReleasedOnlyByAPerson
<1>1. TaskInv => ReleasedOnlyByAPerson
  BY ShutMeansLocal DEF TaskInv, TaskTypeOK, ReleasedOnlyByAPerson, SentToThirdParty
<1> QED BY <1>1, TaskInvariance, PTL

\* The privacy answer does not depend on money (router.py:69-75).
THEOREM PrivacyBeforeMoney == TaskSpec => PrivacyAnswerFirst
<1>1. ASSUME NEW a \in Question, NEW b \in Question, [b EXCEPT !.budget = a.budget] = a,
             choose(a).refusal \in Privacy \/ choose(b).refusal \in Privacy
      PROVE  choose(a) = choose(b)
  <2>1. /\ Candidates(a) = Candidates(b)
        /\ MayUseCloud(a) <=> MayUseCloud(b)
        /\ SourceBanned(a) <=> SourceBanned(b)
        /\ a.large = b.large
    BY <1>1, BudgetBlind
  <2> QED BY <1>1, <2>1 DEF choose, Refuse, Clear, Privacy
<1>2. ASSUME TaskInv, TaskInv', [question' EXCEPT !.budget = question.budget] = question
      PROVE  /\ reply.refusal \in Privacy => reply' = reply
             /\ reply'.refusal \in Privacy => reply' = reply
  <2>1. question \in Question /\ question' \in Question /\ reply = choose(question) /\ reply' = choose(question')
    BY <1>2 DEF TaskInv, TaskTypeOK
  <2> QED BY <1>1, <1>2, <2>1
<1>3. TaskInv /\ TaskInv' => ([question' EXCEPT !.budget = question.budget] = question
      => /\ reply.refusal \in Privacy => reply' = reply
         /\ reply'.refusal \in Privacy => reply' = reply)
  BY <1>2
<1> QED BY <1>3, TaskInvariance, PTL DEF PrivacyAnswerFirst

-----------------------------------------------------------------------------
(* What each operator does to a store, field by field. *)

LEMMA ReopenedFields ==
  ASSUME NEW st \in Store, NEW s \in States
  PROVE  /\ Reopened(st, s) \in Store
         /\ Reopened(st, s).rows = [st.rows EXCEPT ![s] = "pending"]
         /\ Reopened(st, s).usable = st.usable \ {s}
         /\ Reopened(st, s).stale = st.stale \ {s}
         /\ Reopened(st, s).findings = st.findings \ {s}
         /\ Reopened(st, s).columns = st.columns \ {s}
         /\ Reopened(st, s).audits = st.audits
         /\ Reopened(st, s).day = st.day
         /\ Reopened(st, s).month = st.month
  BY DEF Reopened, Store, Statuses

LEMMA WithOutputFields ==
  ASSUME NEW st \in Store, NEW s \in States, NEW status \in Finished, NEW checked \in SUBSET States
  PROVE  /\ WithOutput(st, s, status, checked) \in Store
         /\ WithOutput(st, s, status, checked).rows = [st.rows EXCEPT ![s] = status]
         /\ WithOutput(st, s, status, checked).usable = st.usable \cup {s}
         /\ st.findings \subseteq WithOutput(st, s, status, checked).findings
         /\ s \in Extracting => s \in WithOutput(st, s, status, checked).findings
         /\ st.columns \subseteq WithOutput(st, s, status, checked).columns
         /\ s \in Projecting => s \in WithOutput(st, s, status, checked).columns
         /\ WithOutput(st, s, status, checked).audits = st.audits
         /\ WithOutput(st, s, status, checked).day = st.day
         /\ WithOutput(st, s, status, checked).month = st.month
  BY DEF WithOutput, Store, Statuses, Closings, Finished, Readers

LEMMA WithOutputStale ==
  ASSUME NEW st \in Store, NEW s \in States, NEW status \in Finished, NEW checked \in SUBSET States
  PROVE  WithOutput(st, s, status, checked).stale
           = st.stale \cup {t \in Readers(s) : st.rows[t] \in Finished}
  BY DEF WithOutput, Store

LEMMA ClosedFields ==
  ASSUME NEW st \in Store, NEW s \in States, NEW status \in Closings
  PROVE  /\ Closed(st, s, status) \in Store
         /\ Closed(st, s, status).rows = [st.rows EXCEPT ![s] = status]
         /\ Closed(st, s, status).usable = st.usable
         /\ Closed(st, s, status).stale = st.stale
         /\ Closed(st, s, status).findings = st.findings
         /\ Closed(st, s, status).columns = st.columns
         /\ Closed(st, s, status).audits = st.audits
         /\ Closed(st, s, status).day = st.day
         /\ Closed(st, s, status).month = st.month
  BY DEF Closed, Store, Statuses

\* Of a call's price the proofs need only that it is at most MaxPrice.
LEMMA LoggedFields ==
  ASSUME NEW st \in Store, answer.provider \in Providers
  PROVE  /\ Logged(st) \in Store
         /\ Logged(st).rows = st.rows
         /\ Logged(st).usable = st.usable
         /\ Logged(st).stale = st.stale
         /\ Logged(st).findings = st.findings
         /\ Logged(st).columns = st.columns
         /\ Logged(st).audits = st.audits
         /\ Logged(st).day <= st.day + MaxPrice
         /\ Logged(st).month <= st.month + MaxPrice
<1> DEFINE price == Registry[answer.provider].price
<1>1. Registry[answer.provider] \in ProviderSpec
  BY RegistryAssumption DEF Providers
<1>2. price \in Nat /\ price <= MaxPrice
  BY <1>1, MachineAssumption DEF ProviderSpec
<1>3. MaxPrice \in Nat
  BY MachineAssumption
<1> DEFINE day == st.day + price
           month == st.month + price
<1>4. Logged(st) = [st EXCEPT !.day = day, !.month = month]
  BY DEF Logged
<1>5. st.day \in Nat /\ st.month \in Nat
  BY DEF Store
<1>6. /\ day \in Nat /\ day <= st.day + MaxPrice
      /\ month \in Nat /\ month <= st.month + MaxPrice
  BY <1>2, <1>3, <1>5
<1> HIDE DEF day, month
<1> QED BY <1>4, <1>6 DEF Store

LEMMA WithAuditFields ==
  ASSUME NEW st \in Store, NEW a \in Answer, cur \in States
  PROVE  /\ WithAudit(st, a) \in Store
         /\ WithAudit(st, a).rows = st.rows
         /\ WithAudit(st, a).usable = st.usable
         /\ WithAudit(st, a).stale = st.stale
         /\ WithAudit(st, a).findings = st.findings
         /\ WithAudit(st, a).columns = st.columns
         /\ st.audits \subseteq WithAudit(st, a).audits
         /\ a.audit => cur \in WithAudit(st, a).audits
         /\ WithAudit(st, a).day = st.day
         /\ WithAudit(st, a).month = st.month
  BY DEF WithAudit, Store

LEMMA ClearedFields ==
  ASSUME NEW st \in Store
  PROVE  /\ Cleared(st) \in Store
         /\ Cleared(st).rows = [s \in States |-> IF s >= Narrative THEN "none" ELSE st.rows[s]]
         /\ Cleared(st).usable = {s \in st.usable : s < Narrative}
         /\ Cleared(st).stale = {s \in st.stale : s < Narrative}
         /\ Cleared(st).findings = st.findings
         /\ Cleared(st).columns = {s \in st.columns : s < Narrative}
         /\ Cleared(st).day = st.day
         /\ Cleared(st).month = st.month
  BY DEF Cleared, Store, Statuses

-----------------------------------------------------------------------------
(* What each operator keeps of a store's invariant. *)

\* A prompt's priors all come before it in STATE_ORDER.
LEMMA RequiresEarlier ==
  ASSUME NEW s \in States
  PROVE  Requires[s] \subseteq 1..(s - 1)
  BY DEF Requires, States, Triage, Classify, ExtractIoc, MapTtp, Diamond, Narrative, Sketch, Verify

\* Clean and Together look at five fields only.
LEMMA SameOutputs ==
  ASSUME NEW a \in Store, NEW b \in Store,
         b.rows = a.rows, b.usable = a.usable, b.stale = a.stale,
         b.findings = a.findings, a.columns \subseteq b.columns
  PROVE  /\ Clean(a) => Clean(b)
         /\ Together(a) => Together(b)
  BY DEF Clean, Together, Reusable

\* An unfinished row is reopened: nothing finished stands after it.
LEMMA ReopenedKeeps ==
  ASSUME NEW st \in Store, NEW s \in States, Before(st, s), ~Reusable(st, s)
  PROVE  /\ Clean(st) => Clean(Reopened(st, s))
         /\ Together(st) => Together(Reopened(st, s))
<1> DEFINE new == Reopened(st, s)
<1>1. /\ new \in Store
      /\ new.rows = [st.rows EXCEPT ![s] = "pending"]
      /\ new.usable = st.usable \ {s} /\ new.stale = st.stale \ {s}
      /\ new.findings = st.findings \ {s} /\ new.columns = st.columns \ {s}
  BY ReopenedFields
<1>2. st.rows \in [States -> Statuses]
  BY DEF Store
<1> HIDE DEF new
<1>3. ASSUME Clean(st) PROVE Clean(new)
  <2>1. st.rows[s] \notin Finished
    BY <1>3 DEF Clean, Reusable
  <2>2. \A u \in States : \A t \in 1..(u - 1) : new.rows[u] # "none" => new.rows[t] = "ok"
    BY <1>1, <1>2, <1>3, <2>1 DEF Clean, Before, States, Finished
  <2>3. \A u \in States : new.rows[u] \in Finished => u \in new.usable
    BY <1>1, <1>2, <1>3 DEF Clean, Finished
  <2> QED BY <1>1, <1>3, <2>2, <2>3 DEF Clean
<1>4. ASSUME Together(st) PROVE Together(new)
  BY <1>1, <1>2, <1>4 DEF Together, Reusable, Finished
<1> QED BY <1>3, <1>4 DEF new

\* A row in flight closes with its output: no reader of it has finished.
LEMMA WithOutputKeeps ==
  ASSUME NEW st \in Store, NEW s \in States, NEW status \in Finished, NEW checked \in SUBSET States,
         st.rows[s] = "pending"
  PROVE  /\ Clean(st) => Clean(WithOutput(st, s, status, checked))
         /\ Together(st) => Together(WithOutput(st, s, status, checked))
<1> DEFINE new == WithOutput(st, s, status, checked)
<1>1. /\ new \in Store
      /\ new.rows = [st.rows EXCEPT ![s] = status]
      /\ new.usable = st.usable \cup {s}
      /\ new.stale = st.stale \cup {t \in Readers(s) : st.rows[t] \in Finished}
      /\ st.findings \subseteq new.findings /\ (s \in Extracting => s \in new.findings)
      /\ st.columns \subseteq new.columns /\ (s \in Projecting => s \in new.columns)
  BY WithOutputFields, WithOutputStale
<1>2. st.rows \in [States -> Statuses]
  BY DEF Store
<1> HIDE DEF new
<1>3. ASSUME Clean(st) PROVE Clean(new)
  <2>1. \A u \in States : u > s => st.rows[u] = "none"
    BY <1>3 DEF Clean, States
  <2>2. \A u \in States : \A t \in 1..(u - 1) : new.rows[u] # "none" => new.rows[t] = "ok"
    BY <1>1, <1>2, <1>3, <2>1 DEF Clean, States
  <2>3. \A u \in States : new.rows[u] \in Finished => u \in new.usable
    BY <1>1, <1>2, <1>3 DEF Clean
  <2>4. \A t \in Readers(s) : t \in States /\ t > s
    BY RequiresEarlier DEF Readers, States
  <2>5. new.stale = {}
    BY <1>1, <1>3, <2>1, <2>4 DEF Clean, Finished
  <2> QED BY <2>2, <2>3, <2>5 DEF Clean
<1>4. ASSUME Together(st) PROVE Together(new)
  BY <1>1, <1>2, <1>4 DEF Together, Reusable
<1> QED BY <1>3, <1>4 DEF new

\* A row in flight closes without an output.
LEMMA ClosedKeeps ==
  ASSUME NEW st \in Store, NEW s \in States, NEW status \in Closings \ Finished,
         st.rows[s] = "pending"
  PROVE  /\ Clean(st) => Clean(Closed(st, s, status))
         /\ Together(st) => Together(Closed(st, s, status))
<1> DEFINE new == Closed(st, s, status)
<1>1. /\ new \in Store
      /\ new.rows = [st.rows EXCEPT ![s] = status]
      /\ new.usable = st.usable /\ new.stale = st.stale
      /\ new.findings = st.findings /\ new.columns = st.columns
  BY ClosedFields
<1>2. st.rows \in [States -> Statuses]
  BY DEF Store
<1> HIDE DEF new
<1>3. ASSUME Clean(st) PROVE Clean(new)
  <2>1. \A u \in States : \A t \in 1..(u - 1) : new.rows[u] # "none" => new.rows[t] = "ok"
    BY <1>1, <1>2, <1>3 DEF Clean, States
  <2> QED BY <1>1, <1>2, <1>3, <2>1 DEF Clean
<1>4. ASSUME Together(st) PROVE Together(new)
  BY <1>1, <1>2, <1>4 DEF Together, Reusable
<1> QED BY <1>3, <1>4 DEF new

\* The restyling takes the prose rows away and leaves a shorter run.
LEMMA ClearedKeeps ==
  ASSUME NEW st \in Store
  PROVE  /\ Clean(st) => Clean(Cleared(st))
         /\ Together(st) => Together(Cleared(st))
<1> DEFINE new == Cleared(st)
<1>1. /\ new \in Store
      /\ new.rows = [u \in States |-> IF u >= Narrative THEN "none" ELSE st.rows[u]]
      /\ new.usable = {u \in st.usable : u < Narrative}
      /\ new.stale = {u \in st.stale : u < Narrative}
      /\ new.findings = st.findings
      /\ new.columns = {u \in st.columns : u < Narrative}
  BY ClearedFields
<1> HIDE DEF new
<1>2. ASSUME Clean(st) PROVE Clean(new)
  BY <1>1, <1>2 DEF Clean, States, Narrative, Finished
<1>3. ASSUME Together(st) PROVE Together(new)
  BY <1>1, <1>3 DEF Together, Reusable, States, Narrative
<1> QED BY <1>2, <1>3 DEF new

-----------------------------------------------------------------------------
(* The invariant is inductive: the initial state, and then every action. *)

LEMMA StoreUnchanged ==
  ASSUME UNCHANGED <<beside, upgraded>>
  PROVE  /\ StoreInv(db) /\ db' = db => StoreInv(db)'
         /\ StoreInv(tx) /\ tx' = tx => StoreInv(tx)'
  BY DEF StoreInv, Clean, Together, Reusable, Within

\* An action that only touches the session, and keeps its outputs and spend.
LEMMA StoreKept ==
  ASSUME UNCHANGED <<beside, upgraded>>, StoreInv(tx), tx' \in Store,
         Clean(tx) => Clean(tx'), Together(tx) => Together(tx'), Within(tx')
  PROVE  StoreInv(tx)'
  BY DEF StoreInv, Clean, Together, Reusable, Within

LEMMA InitInv == Init => IInv
<1> SUFFICES ASSUME Init PROVE IInv
  OBVIOUS
<1>1. Empty \in Store /\ db = Empty /\ tx = Empty
  BY DEF Init, Empty, Store, Statuses
<1>2. TypeOK
  <2>1. NoAnswer \in Answer /\ NoTrail \in Trail
    BY DEF NoAnswer, Answer, NoTrail, Trail
  <2>2. 1 \in 1..(Retries + 3)
    BY MachineAssumption
  <2>3. job \in Jobs /\ pc \in PcValues /\ cur \in States /\ rung = 1
    BY DEF Init, PcValues, States
  <2>4. unreachable \in BOOLEAN /\ upgraded \in BOOLEAN /\ beside = 0 /\ answer = NoAnswer /\ trail = NoTrail
    BY DEF Init
  <2> QED BY <1>1, <2>1, <2>2, <2>3, <2>4 DEF TypeOK
<1>3. Clean(Empty) /\ Together(Empty) /\ Within(Empty)
  BY MachineAssumption DEF Init, Empty, Clean, Together, Within, Reusable, Finished, States
<1>4. OneOpenRow
  BY <1>1 DEF Init, OneOpenRow, Before, Between, InState, Empty
<1>5. CallCleared /\ TrailInv
  BY DEF Init, CallCleared, TrailInv, NoTrail, Between
<1> QED BY <1>1, <1>2, <1>3, <1>4, <1>5 DEF IInv, StoreInv

\* An action outside a state that leaves both stores alone.
LEMMA StartPassInv == IInv /\ StartPass => IInv'
<1> SUFFICES ASSUME IInv, StartPass PROVE IInv'
  OBVIOUS
<1>1. StoreInv(db)' /\ StoreInv(tx)'
  BY StoreUnchanged DEF IInv, StartPass, ghosts
<1>2. TypeOK'
  BY DEF IInv, TypeOK, StartPass, PcValues, ghosts
<1>3. OneOpenRow'
  BY DEF IInv, OneOpenRow, StartPass, Before, Between, InState, Reusable
<1>4. CallCleared' /\ TrailInv'
  BY DEF IInv, CallCleared, TrailInv, StartPass, Between, ghosts
<1> QED BY <1>1, <1>2, <1>3, <1>4 DEF IInv

LEMMA ReuseInv == IInv /\ Reuse => IInv'
<1> SUFFICES ASSUME IInv, Reuse PROVE IInv'
  OBVIOUS
<1> USE DEF IInv
<1>1. /\ tx' \in Store
      /\ tx'.rows = tx.rows /\ tx'.usable = tx.usable /\ tx'.stale = tx.stale
      /\ tx'.findings = tx.findings /\ tx.columns \subseteq tx'.columns
      /\ tx'.day = tx.day /\ tx'.month = tx.month
  BY DEF Reuse, TypeOK, Store
<1>2. pc = "scan" /\ pc' \in {"scan", "ended"} /\ UNCHANGED <<job, db, rung, unreachable, answer, trail, beside, upgraded>>
  BY DEF Reuse, ghosts
<1>3. cur' \in States /\ (pc' = "scan" => cur' = cur + 1 /\ tx.rows[cur] = "ok")
  BY DEF Reuse, TypeOK, States, Verify, Reusable, Finished
<1>4. TypeOK'
  BY <1>1, <1>2, <1>3 DEF TypeOK, PcValues
<1>5. StoreInv(db)' /\ StoreInv(tx)'
  <2>1. Clean(tx) => Clean(tx')
    BY <1>1, SameOutputs DEF TypeOK
  <2>2. Together(tx) => Together(tx')
    BY <1>1, SameOutputs DEF TypeOK
  <2>3. Within(tx')
    BY <1>1 DEF StoreInv, Within
  <2> QED BY <1>1, <1>2, <2>1, <2>2, <2>3, StoreUnchanged, StoreKept
<1>6. OneOpenRow'
  <2>1. pc' = "scan" => Before(tx, cur + 1)
    BY <1>2, <1>3 DEF OneOpenRow, Before, Reuse, Reusable, TypeOK, States
  <2>2. pc' = "scan" => Before(tx, cur)'
    BY <1>1, <1>3, <2>1 DEF Before
  <2> QED BY <1>1, <1>2, <2>2 DEF OneOpenRow, Between, InState
<1>7. CallCleared' /\ TrailInv'
  BY <1>2 DEF CallCleared, TrailInv, Between, NoTrail
<1> QED BY <1>4, <1>5, <1>6, <1>7

LEMMA ReopenInv == IInv /\ Reopen => IInv'
<1> SUFFICES ASSUME IInv, Reopen PROVE IInv'
  OBVIOUS
<1> USE DEF IInv
<1>1. /\ pc = "scan" /\ pc' = "ladder" /\ ~Reusable(tx, cur)
      /\ UNCHANGED <<job, db, cur, rung, unreachable, answer, trail, beside, upgraded>>
  BY DEF Reopen, ghosts
<1>2. tx \in Store /\ db \in Store /\ cur \in States /\ Before(tx, cur)
  BY <1>1 DEF TypeOK, OneOpenRow
<1>3. /\ tx' = Reopened(tx, cur) /\ tx' \in Store
      /\ tx'.rows = [tx.rows EXCEPT ![cur] = "pending"]
      /\ tx'.usable = tx.usable \ {cur} /\ tx'.audits = tx.audits
      /\ tx'.day = tx.day /\ tx'.month = tx.month
  BY <1>2, ReopenedFields DEF Reopen
<1>4. TypeOK'
  BY <1>1, <1>3 DEF TypeOK, PcValues
<1>5. StoreInv(db)' /\ StoreInv(tx)'
  <2>1. (Clean(tx) => Clean(tx')) /\ (Together(tx) => Together(tx'))
    BY <1>1, <1>2, <1>3, ReopenedKeeps
  <2>2. Within(tx')
    BY <1>3 DEF StoreInv, Within
  <2> QED BY <1>1, <1>3, <2>1, <2>2, StoreUnchanged, StoreKept
<1>6. OneOpenRow'
  <2>1. tx.rows \in [States -> Statuses]
    BY <1>2 DEF Store
  <2>2. tx.rows = db.rows /\ tx.usable = db.usable
    BY <1>1 DEF OneOpenRow, Between
  <2>3. Before(tx, cur)'
    BY <1>1, <1>2, <1>3, <2>1 DEF Before, States
  <2>4. ~Reusable(db, cur)'
    BY <1>1, <2>2 DEF Reusable
  <2>5. /\ tx'.rows[cur] = "pending"
        /\ tx'.rows = [db.rows EXCEPT ![cur] = tx'.rows[cur]]
        /\ tx'.usable = db.usable \ {cur}
    BY <1>2, <1>3, <2>1, <2>2
  <2> QED BY <1>1, <2>3, <2>4, <2>5 DEF OneOpenRow, Between, InState
<1>7. CallCleared' /\ TrailInv'
  BY <1>1, <1>3 DEF CallCleared, TrailInv, Between, NoTrail
<1> QED BY <1>4, <1>5, <1>6, <1>7

\* What the router is asked is a question it can answer, and consent does not
\* move the boundary (machine.py:606-623).
LEMMA AskingIsQuestion ==
  ASSUME TypeOK
  PROVE  /\ Asking \in Question
         /\ Asking.budget = verdict(tx.day, tx.month, DailyCap, MonthlyCap)
         /\ CloudAllowed(Asking) <=> Boundary
<1>1. job \in Job
  BY MachineAssumption DEF TypeOK
<1>2. verdict(tx.day, tx.month, DailyCap, MonthlyCap) \in Budgets
  BY DEF verdict, Budgets
<1>3. RungTier(cur, rung) \in Tiers
  BY DEF RungTier, Tier, Tiers
<1>4. (cur \in job.oversized) \in BOOLEAN
  BY SMT
<1> DEFINE large == cur \in job.oversized
           budget == verdict(tx.day, tx.month, DailyCap, MonthlyCap)
           tier == RungTier(cur, rung)
<1>5. Asking = [tier |-> tier, tlp |-> job.tlp, share |-> job.share,
                ceiling |-> job.ceiling, large |-> large, budget |-> budget,
                consent |-> job.consent, registered |-> Providers]
  BY DEF Asking
<1> HIDE DEF large, budget, tier
<1>6. large \in BOOLEAN /\ budget \in Budgets /\ tier \in Tiers
  BY <1>2, <1>3, <1>4 DEF large, budget, tier
<1>7. Asking \in Question
  BY <1>1, <1>5, <1>6 DEF Question, Job
<1>8. CloudAllowed(Asking) <=> Boundary
  BY <1>5 DEF CloudAllowed, Boundary
<1> QED BY <1>5, <1>7, <1>8 DEF budget

\* A row in flight closes without an output, perhaps after an audit row.
LEMMA ClosesWithout ==
  ASSUME IInv, pc = "ladder", pc' = "closing",
         NEW st \in Store,
         st.rows = tx.rows, st.usable = tx.usable, st.stale = tx.stale,
         st.findings = tx.findings, st.columns = tx.columns,
         tx.audits \subseteq st.audits, st.day = tx.day, st.month = tx.month,
         NEW status \in Closings \ Finished,
         tx' = Closed(st, cur, status),
         trail' \in Trail, trail'.sent = trail.sent, trail'.audited >= trail.audited,
         UNCHANGED <<job, db, cur, rung, unreachable, answer, beside, upgraded>>
  PROVE  IInv'
<1> USE DEF IInv
<1>1. tx \in Store /\ db \in Store /\ cur \in States /\ trail \in Trail
  BY DEF TypeOK
<1>2. /\ tx' \in Store
      /\ tx'.rows = [tx.rows EXCEPT ![cur] = status]
      /\ tx'.usable = tx.usable /\ tx.audits \subseteq tx'.audits
      /\ tx'.day = tx.day /\ tx'.month = tx.month
  BY <1>1, ClosedFields
<1>3. tx.rows[cur] = "pending"
  BY DEF OneOpenRow, InState
<1>4. TypeOK'
  BY <1>2 DEF TypeOK, PcValues
<1>5. StoreInv(db)' /\ StoreInv(tx)'
  <2>1. (Clean(tx) => Clean(st)) /\ (Together(tx) => Together(st))
    BY <1>1, SameOutputs
  <2>2. (Clean(st) => Clean(tx')) /\ (Together(st) => Together(tx'))
    BY <1>1, <1>3, ClosedKeeps
  <2>3. Within(tx')
    BY <1>2 DEF StoreInv, Within
  <2> QED BY <1>2, <2>1, <2>2, <2>3, StoreUnchanged, StoreKept
<1>6. OneOpenRow'
  <2>1. tx.rows \in [States -> Statuses]
    BY <1>1 DEF Store
  <2>2. Before(tx, cur)'
    BY <1>1, <1>2, <2>1 DEF OneOpenRow, Before, States
  <2>3. ~Reusable(db, cur)'
    BY DEF OneOpenRow, Between, Reusable
  <2>4. /\ tx'.rows[cur] = status
        /\ tx'.rows = [db.rows EXCEPT ![cur] = tx'.rows[cur]]
        /\ tx'.usable = db.usable \ {cur}
    BY <1>1, <1>2, <2>1 DEF OneOpenRow, Between, InState
  <2> QED BY <2>2, <2>3, <2>4 DEF OneOpenRow, Between, InState, Finished
<1>7. CallCleared' /\ TrailInv'
  BY <1>1, <1>2 DEF CallCleared, TrailInv, Between, Trail
<1> QED BY <1>4, <1>5, <1>6, <1>7

\* A row in flight closes with its output.
LEMMA ClosesWith ==
  ASSUME IInv, pc \in {"calling", "rewriting"}, pc' = "closing",
         NEW st \in Store,
         st.rows = tx.rows, st.usable = tx.usable, st.stale = tx.stale,
         st.findings = tx.findings, st.columns = tx.columns,
         st.audits = tx.audits, Within(st),
         NEW status \in Finished, status = "dropped" => cur = Triage,
         NEW checked \in SUBSET States,
         tx' = WithOutput(st, cur, status, checked),
         trail' \in Trail, trail'.sent = trail.sent, trail'.audited = trail.audited,
         UNCHANGED <<job, db, cur, rung, unreachable, answer, beside, upgraded>>
  PROVE  IInv'
<1> USE DEF IInv
<1>1. tx \in Store /\ db \in Store /\ cur \in States /\ trail \in Trail
  BY DEF TypeOK
<1>2. /\ tx' \in Store
      /\ tx'.rows = [tx.rows EXCEPT ![cur] = status]
      /\ tx'.usable = tx.usable \cup {cur} /\ tx'.audits = tx.audits
      /\ tx'.day = st.day /\ tx'.month = st.month
  BY <1>1, WithOutputFields
<1>3. tx.rows[cur] = "pending"
  BY DEF OneOpenRow, InState
<1>4. TypeOK'
  BY <1>2 DEF TypeOK, PcValues
<1>5. StoreInv(db)' /\ StoreInv(tx)'
  <2>1. (Clean(tx) => Clean(st)) /\ (Together(tx) => Together(st))
    BY <1>1, SameOutputs
  <2>2. (Clean(st) => Clean(tx')) /\ (Together(st) => Together(tx'))
    BY <1>1, <1>3, WithOutputKeeps
  <2>3. Within(tx')
    BY <1>2 DEF Within
  <2> QED BY <1>2, <2>1, <2>2, <2>3, StoreUnchanged, StoreKept
<1>6. OneOpenRow'
  <2>1. tx.rows \in [States -> Statuses]
    BY <1>1 DEF Store
  <2>2. Before(tx, cur)'
    BY <1>1, <1>2, <2>1 DEF OneOpenRow, Before, States
  <2>3. ~Reusable(db, cur)'
    BY DEF OneOpenRow, Between, Reusable
  <2>4. /\ tx'.rows[cur] = status
        /\ tx'.rows = [db.rows EXCEPT ![cur] = tx'.rows[cur]]
        /\ tx'.usable = db.usable \cup {cur}
    BY <1>1, <1>2, <2>1 DEF OneOpenRow, Between, InState
  <2>5. status \in Closings
    BY DEF Finished, Closings
  <2> QED BY <2>2, <2>3, <2>4, <2>5 DEF OneOpenRow, Between, InState
<1>7. CallCleared' /\ TrailInv'
  BY <1>1, <1>2 DEF CallCleared, TrailInv, Between, Trail
<1> QED BY <1>4, <1>5, <1>6, <1>7

LEMMA RefusedInv == IInv /\ Refused => IInv'
<1> SUFFICES ASSUME IInv, Refused PROVE IInv'
  OBVIOUS
<1> DEFINE reason == choose(Asking).refusal
<1>1. Asking \in Question
  BY AskingIsQuestion DEF IInv
<1>2. reason \in Closings \ Finished
  BY <1>1, ChooseType DEF Refused, Answer, Refusals, Closings, RouterRefusals, Finished
<1>3. /\ pc = "ladder" /\ pc' = "closing" /\ tx' = Closed(tx, cur, reason)
      /\ UNCHANGED <<job, db, cur, rung, unreachable, answer, trail, beside, upgraded>>
  BY DEF Refused, OnRung, ghosts
<1>4. tx \in Store /\ trail \in Trail /\ trail.audited \in Nat
  BY DEF IInv, TypeOK, Trail
<1> HIDE DEF reason
<1> QED BY <1>2, <1>3, <1>4, ClosesWithout

LEMMA UnwiredInv == IInv /\ Unwired => IInv'
<1> SUFFICES ASSUME IInv, Unwired PROVE IInv'
  OBVIOUS
<1> DEFINE a == choose(Asking)
           st == WithAudit(tx, a)
<1>1. a \in Answer
  BY AskingIsQuestion, ChooseType DEF IInv
<1>2. tx \in Store /\ cur \in States /\ trail \in Trail
  BY DEF IInv, TypeOK
<1>3. /\ st \in Store
      /\ st.rows = tx.rows /\ st.usable = tx.usable /\ st.stale = tx.stale
      /\ st.findings = tx.findings /\ st.columns = tx.columns
      /\ tx.audits \subseteq st.audits /\ st.day = tx.day /\ st.month = tx.month
  BY <1>1, <1>2, WithAuditFields
<1>4. "error" \in Closings \ Finished
  BY DEF Closings, Finished
<1>5. /\ pc = "ladder" /\ pc' = "closing" /\ tx' = Closed(st, cur, "error")
      /\ UNCHANGED <<job, db, cur, rung, unreachable, answer, beside, upgraded>>
      /\ trail' = [trail EXCEPT !.audited = @ + AuditRow(a)]
  BY DEF Unwired, OnRung
<1>6. AuditRow(a) \in Nat
  BY DEF AuditRow
<1>7. trail' \in Trail /\ trail'.sent = trail.sent /\ trail'.audited >= trail.audited
  BY <1>2, <1>5, <1>6 DEF Trail
<1> HIDE DEF a, st
<1> QED BY <1>3, <1>4, <1>5, <1>7, ClosesWithout

LEMMA LadderUsedInv == IInv /\ LadderUsed => IInv'
<1> SUFFICES ASSUME IInv, LadderUsed PROVE IInv'
  OBVIOUS
<1> DEFINE status == IF unreachable THEN "error" ELSE "staged"
<1>1. status \in Closings \ Finished
  BY DEF Closings, Finished
<1>2. /\ pc = "ladder" /\ pc' = "closing" /\ tx' = Closed(tx, cur, status)
      /\ UNCHANGED <<job, db, cur, rung, unreachable, answer, trail, beside, upgraded>>
  BY DEF LadderUsed, ghosts
<1>3. tx \in Store /\ trail \in Trail /\ trail.audited \in Nat
  BY DEF IInv, TypeOK, Trail
<1> HIDE DEF status
<1> QED BY <1>1, <1>2, <1>3, ClosesWithout

\* The call goes out: cleared by the budget, and its audit row written if it
\* crosses the boundary.
LEMMA SendInv == IInv /\ Send => IInv'
<1> SUFFICES ASSUME IInv, Send PROVE IInv'
  OBVIOUS
<1> USE DEF IInv
<1>1. /\ Asking \in Question
      /\ Asking.budget = verdict(tx.day, tx.month, DailyCap, MonthlyCap)
      /\ CloudAllowed(Asking) <=> Boundary
  BY AskingIsQuestion
<1>2. /\ pc = "ladder" /\ pc' = "calling" /\ rung <= LadderLength(cur)
      /\ answer' = choose(Asking) /\ choose(Asking).refusal = "none"
      /\ tx' = WithAudit(tx, choose(Asking))
      /\ trail' = [trail EXCEPT !.audited = @ + AuditRow(choose(Asking)),
                                !.sent = @ + Crossing(choose(Asking))]
      /\ UNCHANGED <<job, db, cur, rung, unreachable, beside, upgraded>>
  BY DEF Send, OnRung
<1>3. /\ answer' \in Answer /\ answer'.refusal = "none" /\ answer'.provider \in Providers
      /\ answer'.audit <=> Crosses(Asking, answer')
  BY <1>1, <1>2, ChooseType, AuditIsCrossing
<1>4. Crosses(Asking, answer') <=> ~Registry[answer'.provider].local /\ ~Boundary
  BY <1>1, <1>3 DEF Crosses
<1>5. tx \in Store /\ db \in Store /\ cur \in States /\ trail \in Trail
  BY DEF TypeOK
<1>6. /\ tx' \in Store
      /\ tx'.rows = tx.rows /\ tx'.usable = tx.usable /\ tx'.stale = tx.stale
      /\ tx'.findings = tx.findings /\ tx.columns \subseteq tx'.columns
      /\ tx.audits \subseteq tx'.audits /\ (answer'.audit => cur \in tx'.audits)
      /\ tx'.day = tx.day /\ tx'.month = tx.month
  BY <1>2, <1>3, <1>5, WithAuditFields
<1>7. AuditRow(answer') = Crossing(answer') /\ Crossing(answer') \in {0, 1}
      /\ (Crossing(answer') = 1 => answer'.audit)
  BY <1>3 DEF AuditRow, Crossing
<1>8. /\ trail' \in Trail
      /\ trail'.sent = trail.sent + Crossing(answer')
      /\ trail'.audited = trail.audited + Crossing(answer')
  <2> DEFINE n == Crossing(answer')
           sent == trail.sent + n
           audited == trail.audited + n
  <2>1. trail' = [trail EXCEPT !.audited = audited, !.sent = sent] /\ n \in {0, 1}
    BY <1>2, <1>7
  <2> HIDE DEF n
  <2>2. sent \in Nat /\ audited \in Nat
    BY <1>5, <2>1 DEF Trail
  <2> HIDE DEF sent, audited
  <2>3. trail' \in Trail /\ trail'.sent = sent /\ trail'.audited = audited
    BY <1>5, <2>1, <2>2 DEF Trail
  <2> QED BY <2>3 DEF n, sent, audited
<1>9. TypeOK'
  BY <1>2, <1>3, <1>6, <1>8 DEF TypeOK, PcValues
<1>10. StoreInv(db)' /\ StoreInv(tx)'
  <2>1. (Clean(tx) => Clean(tx')) /\ (Together(tx) => Together(tx'))
    BY <1>5, <1>6, SameOutputs
  <2>2. Within(tx')
    BY <1>6 DEF StoreInv, Within
  <2> QED BY <1>2, <1>6, <2>1, <2>2, StoreUnchanged, StoreKept
<1>11. OneOpenRow'
  BY <1>2, <1>6 DEF OneOpenRow, Before, Between, InState, Reusable
<1>12. CallCleared'
  <2>1. Asking.budget # "exhausted"
    BY <1>1, <1>2 DEF choose, Refuse
  <2>2. ~(tx.month >= MonthlyCap) /\ ~(tx.day >= DailyCap)
    BY <1>1, <2>1 DEF verdict
  <2>3. /\ 0 < DailyCap /\ tx'.day < DailyCap + beside'
        /\ 0 < MonthlyCap /\ tx'.month < MonthlyCap + beside'
    <3>1. tx.day \in Nat /\ tx.month \in Nat /\ beside \in Nat
      BY <1>5 DEF IInv, TypeOK, Store
    <3> QED
      BY <1>2, <1>6, <2>2, <3>1, MachineAssumption
  <2> QED BY <1>2, <1>3, <2>3 DEF CallCleared
<1>13. TrailInv'
  <2>1. Boundary' <=> Boundary
    BY <1>2 DEF Boundary
  <2>2. trail'.sent <= trail'.audited
    BY <1>2, <1>5, <1>7, <1>8 DEF TrailInv, Trail
  <2>3. trail'.sent > 0 => cur' \in tx'.audits
    BY <1>2, <1>5, <1>6, <1>7, <1>8 DEF TrailInv, Trail
  <2>4. ~Registry[answer'.provider].local /\ ~Boundary => cur' \in tx'.audits
    BY <1>2, <1>3, <1>4, <1>6
  <2>5. trail'.audited + 0 = trail'.audited
    BY <1>8 DEF Trail
  <2> QED BY <1>2, <2>1, <2>2, <2>3, <2>4, <2>5 DEF TrailInv, Between
<1> QED BY <1>9, <1>10, <1>11, <1>12, <1>13

\* Spend that is logged for a call the budget cleared stays within a call of
\* the ceiling.
LEMMA LoggedWithin ==
  ASSUME IInv, pc = "calling"
  PROVE  /\ Logged(tx) \in Store /\ Within(Logged(tx))
         /\ Logged(tx).rows = tx.rows /\ Logged(tx).usable = tx.usable
         /\ Logged(tx).stale = tx.stale /\ Logged(tx).findings = tx.findings
         /\ Logged(tx).columns = tx.columns /\ Logged(tx).audits = tx.audits
<1>1. tx \in Store /\ answer.provider \in Providers
  BY DEF IInv, TypeOK, CallCleared
<1>2. /\ Logged(tx) \in Store
      /\ Logged(tx).rows = tx.rows /\ Logged(tx).usable = tx.usable
      /\ Logged(tx).stale = tx.stale /\ Logged(tx).findings = tx.findings
      /\ Logged(tx).columns = tx.columns /\ Logged(tx).audits = tx.audits
      /\ Logged(tx).day <= tx.day + MaxPrice /\ Logged(tx).month <= tx.month + MaxPrice
  BY <1>1, LoggedFields
<1>3. beside \in Nat /\ tx.day < DailyCap + beside /\ tx.month < MonthlyCap + beside
  BY DEF IInv, TypeOK, CallCleared
<1>4. /\ Logged(tx).day \in Nat /\ Logged(tx).month \in Nat
      /\ tx.day \in Nat /\ tx.month \in Nat
  BY <1>1, <1>2 DEF Store
<1>5. Within(Logged(tx))
  BY <1>2, <1>3, <1>4, MachineAssumption DEF Within
<1> QED BY <1>2, <1>5

\* An attempt is spent: the session may hold one more logged call.
LEMMA AttemptSpent ==
  ASSUME IInv, pc = "calling", NEW failed \in BOOLEAN, NextRung(failed),
         tx' \in Store, Within(tx'),
         tx'.rows = tx.rows, tx'.usable = tx.usable, tx'.stale = tx.stale,
         tx'.findings = tx.findings, tx'.columns = tx.columns, tx'.audits = tx.audits,
         UNCHANGED <<job, db, cur, trail, beside, upgraded>>
  PROVE  IInv'
<1> USE DEF IInv
<1>1. pc' = "ladder" /\ rung' = rung + 1 /\ answer' = NoAnswer /\ unreachable' = failed
  BY DEF NextRung
<1>2. tx \in Store /\ cur \in States /\ trail \in Trail
  BY DEF TypeOK
<1>3. rung' \in 1..(Retries + 3)
  <2>1. rung <= LadderLength(cur) /\ LadderLength(cur) <= Retries + 2
    BY MachineAssumption DEF CallCleared, LadderLength
  <2> QED BY <1>1, <2>1, MachineAssumption DEF TypeOK, LadderLength
<1>4. unreachable' \in BOOLEAN /\ NoAnswer \in Answer
  BY <1>1 DEF NoAnswer, Answer
<1>5. TypeOK'
  BY <1>1, <1>3, <1>4 DEF TypeOK, PcValues
<1>6. StoreInv(db)' /\ StoreInv(tx)'
  BY <1>2, SameOutputs, StoreUnchanged, StoreKept
<1>7. OneOpenRow'
  BY <1>1 DEF OneOpenRow, Before, Between, InState, Reusable
<1>8. CallCleared' /\ TrailInv'
  BY <1>1, <1>2 DEF CallCleared, TrailInv, Between, Trail
<1> QED BY <1>5, <1>6, <1>7, <1>8

LEMMA TransportFailsInv == IInv /\ TransportFails => IInv'
<1> SUFFICES ASSUME IInv, TransportFails PROVE IInv'
  OBVIOUS
<1>1. /\ pc = "calling" /\ NextRung(TRUE)
      /\ UNCHANGED <<job, db, tx, cur, trail, beside, upgraded>>
  BY DEF TransportFails, ghosts
<1>2. tx' \in Store /\ Within(tx')
  BY <1>1 DEF IInv, TypeOK, StoreInv, Within
<1> QED BY <1>1, <1>2, AttemptSpent

LEMMA BadAnswerInv == IInv /\ BadAnswer => IInv'
<1> SUFFICES ASSUME IInv, BadAnswer PROVE IInv'
  OBVIOUS
<1>1. /\ pc = "calling" /\ NextRung(FALSE) /\ tx' = Logged(tx)
      /\ UNCHANGED <<job, db, cur, trail, beside, upgraded>>
  BY DEF BadAnswer, ghosts
<1> QED BY <1>1, LoggedWithin, AttemptSpent

LEMMA GoodAnswerInv == IInv /\ GoodAnswer => IInv'
<1> SUFFICES ASSUME IInv, GoodAnswer PROVE IInv'
  OBVIOUS
<1>1. /\ pc = "calling" /\ pc' = "closing"
      /\ UNCHANGED <<job, db, cur, rung, unreachable, answer, trail, beside, upgraded>>
  BY DEF GoodAnswer, ghosts
<1>2. PICK status \in Finished : /\ status = "dropped" => cur = Triage
                                 /\ tx' = WithOutput(Logged(tx), cur, status, {cur})
  BY DEF GoodAnswer
<1>3. {cur} \in SUBSET States /\ trail \in Trail
  BY DEF IInv, TypeOK
<1> DEFINE st == Logged(tx)
           checked == {cur}
<1>4. /\ st \in Store /\ Within(st)
      /\ st.rows = tx.rows /\ st.usable = tx.usable
      /\ st.stale = tx.stale /\ st.findings = tx.findings
      /\ st.columns = tx.columns /\ st.audits = tx.audits
  BY <1>1, LoggedWithin
<1>5. tx' = WithOutput(st, cur, status, checked) /\ checked \in SUBSET States
  BY <1>2, <1>3
<1> HIDE DEF st, checked
<1> QED BY <1>1, <1>2, <1>3, <1>4, <1>5, ClosesWith

\* A rewrite goes to the provider the call went to, across the same boundary.
LEMMA AskForRewriteInv == IInv /\ AskForRewrite => IInv'
<1> SUFFICES ASSUME IInv, AskForRewrite PROVE IInv'
  OBVIOUS
<1> USE DEF IInv
<1>1. /\ pc = "calling" /\ pc' = "rewriting" /\ cur \in ProseStates /\ tx' = Logged(tx)
      /\ trail' = [trail EXCEPT !.sent = @ + Crossing(answer)]
      /\ UNCHANGED <<job, db, cur, rung, unreachable, answer, beside, upgraded>>
  BY DEF AskForRewrite
<1>2. /\ tx' \in Store /\ Within(tx')
      /\ tx'.rows = tx.rows /\ tx'.usable = tx.usable /\ tx'.stale = tx.stale
      /\ tx'.findings = tx.findings /\ tx'.columns = tx.columns /\ tx'.audits = tx.audits
  BY <1>1, LoggedWithin
<1>3. tx \in Store /\ trail \in Trail /\ trail.sent \in Nat /\ trail.audited \in Nat
  BY DEF TypeOK, Trail
<1>4. Crossing(answer) \in {0, 1} /\ (Crossing(answer) = 1 => Crosses(Asking, answer))
  BY DEF Crossing
<1>5. Crosses(Asking, answer) => ~Registry[answer.provider].local /\ ~Boundary
  BY AskingIsQuestion DEF Crosses
<1> DEFINE n == Crossing(answer)
           sent == trail.sent + n
<1>6. trail' = [trail EXCEPT !.sent = sent]
  BY <1>1
<1>7. sent \in Nat /\ sent <= trail.sent + 1 /\ (sent > 0 => trail.sent > 0 \/ Crosses(Asking, answer))
  BY <1>3, <1>4
<1> HIDE DEF sent
<1>8. trail' \in Trail /\ trail'.sent = sent /\ trail'.audited = trail.audited
  BY <1>3, <1>6, <1>7 DEF Trail
<1>9. TypeOK'
  BY <1>1, <1>2, <1>8 DEF TypeOK, PcValues
<1>10. StoreInv(db)' /\ StoreInv(tx)'
  BY <1>1, <1>2, <1>3, SameOutputs, StoreUnchanged, StoreKept
<1>11. OneOpenRow'
  BY <1>1, <1>2 DEF OneOpenRow, Before, Between, InState, Reusable
<1>12. CallCleared'
  BY <1>1 DEF CallCleared
<1>13. TrailInv'
  <2>1. sent > 0 => cur \in tx.audits
    BY <1>1, <1>5, <1>7 DEF TrailInv
  <2>2. sent <= trail.audited + 1
    BY <1>1, <1>3, <1>7 DEF TrailInv
  <2>3. Boundary' <=> Boundary
    BY <1>1 DEF Boundary
  <2> QED BY <1>1, <1>2, <1>8, <2>1, <2>2, <2>3 DEF TrailInv, Between
<1> QED BY <1>9, <1>10, <1>11, <1>12, <1>13

LEMMA TakeRewriteInv == IInv /\ TakeRewrite => IInv'
<1> SUFFICES ASSUME IInv, TakeRewrite PROVE IInv'
  OBVIOUS
<1>1. /\ pc = "rewriting" /\ pc' = "closing"
      /\ trail' = [trail EXCEPT !.unlogged = @ + 1]
      /\ UNCHANGED <<job, db, cur, rung, unreachable, answer, beside, upgraded>>
  BY DEF TakeRewrite
<1>2. PICK reconciled \in SUBSET {cur} : tx' = WithOutput(tx, cur, "ok", reconciled)
  BY DEF TakeRewrite
<1>3. tx \in Store /\ Within(tx) /\ trail \in Trail /\ reconciled \in SUBSET States
  BY DEF IInv, TypeOK, StoreInv
<1>4. trail' \in Trail /\ trail'.sent = trail.sent /\ trail'.audited = trail.audited
  BY <1>1, <1>3 DEF Trail
<1>5. "ok" \in Finished
  BY DEF Finished
<1> QED BY <1>1, <1>2, <1>3, <1>4, <1>5, ClosesWith

LEMMA KeepFirstTextInv == IInv /\ KeepFirstText => IInv'
<1> SUFFICES ASSUME IInv, KeepFirstText PROVE IInv'
  OBVIOUS
<1>1. /\ pc = "rewriting" /\ pc' = "closing"
      /\ UNCHANGED <<job, db, cur, rung, unreachable, answer, beside, upgraded>>
  BY DEF KeepFirstText
<1>2. PICK landed \in {0, 1} : trail' = [trail EXCEPT !.unlogged = @ + landed]
  BY DEF KeepFirstText
<1> DEFINE checked == {cur}
<1>3. tx' = WithOutput(tx, cur, "ok", checked)
  BY DEF KeepFirstText
<1>4. tx \in Store /\ Within(tx) /\ trail \in Trail /\ checked \in SUBSET States
  BY DEF IInv, TypeOK, StoreInv
<1>5. trail' \in Trail /\ trail'.sent = trail.sent /\ trail'.audited = trail.audited
  BY <1>2, <1>4 DEF Trail
<1>6. "ok" \in Finished
  BY DEF Finished
<1> HIDE DEF checked
<1> QED BY <1>1, <1>3, <1>4, <1>5, <1>6, ClosesWith

\* The commit makes the session's invariant the database's.
LEMMA CommitStateInv == IInv /\ CommitState => IInv'
<1> SUFFICES ASSUME IInv, CommitState PROVE IInv'
  OBVIOUS
<1> USE DEF IInv
<1>1. /\ pc = "closing" /\ db' = tx /\ tx' = tx /\ trail' = NoTrail
      /\ pc' \in {"scan", "ended"}
      /\ pc' = "scan" => tx.rows[cur] = "ok" /\ cur # Verify /\ cur' = cur + 1
      /\ pc' = "ended" => cur' = cur
      /\ rung' = 1 /\ unreachable' = FALSE /\ answer' = NoAnswer
      /\ UNCHANGED <<job, beside, upgraded>>
  BY DEF CommitState, StateReturns
<1>2. tx \in Store /\ cur \in States
  BY DEF TypeOK
<1>3. cur' \in States
  BY <1>1, <1>2 DEF States, Verify
<1>4. 1 \in 1..(Retries + 3) /\ NoAnswer \in Answer /\ NoTrail \in Trail
  BY MachineAssumption DEF NoAnswer, Answer, NoTrail, Trail
<1>5. pc' \in PcValues /\ rung' \in 1..(Retries + 3) /\ unreachable' \in BOOLEAN
  BY <1>1, <1>4 DEF PcValues
<1>6. TypeOK'
  BY <1>1, <1>2, <1>3, <1>4, <1>5 DEF TypeOK
<1>7. StoreInv(db)' /\ StoreInv(tx)'
  BY <1>1 DEF StoreInv, Clean, Together, Reusable, Within
<1>8. OneOpenRow'
  <2>1. pc' = "scan" => tx.rows[cur] = "ok" /\ cur \in tx.usable /\ Before(tx, cur)
    BY <1>1, <1>2 DEF OneOpenRow, Finished
  <2>2. pc' = "scan" => Before(tx, cur + 1)
    BY <1>2, <2>1 DEF Before, States
  <2>3. pc' = "scan" => Before(tx, cur)'
    BY <1>1, <2>2 DEF Before
  <2> QED BY <1>1, <2>3 DEF OneOpenRow, Between, InState
<1>9. CallCleared' /\ TrailInv'
  BY <1>1 DEF CallCleared, TrailInv, Between, NoTrail
<1> QED BY <1>6, <1>7, <1>8, <1>9

LEMMA CallerCommitsInv == IInv /\ CallerCommits => IInv'
<1> SUFFICES ASSUME IInv, CallerCommits PROVE IInv'
  OBVIOUS
<1> USE DEF IInv
<1>1. /\ pc = "ended" /\ pc' = "idle" /\ db' = tx /\ cur' = 1
      /\ UNCHANGED <<job, tx, rung, unreachable, answer, trail, beside, upgraded>>
  BY DEF CallerCommits, ghosts
<1>2. TypeOK'
  BY <1>1 DEF TypeOK, PcValues, States
<1>3. StoreInv(db)' /\ StoreInv(tx)'
  BY <1>1 DEF StoreInv, Clean, Together, Reusable, Within
<1>4. OneOpenRow'
  BY <1>1 DEF OneOpenRow, Before, Between, InState
<1>5. CallCleared' /\ TrailInv'
  BY <1>1 DEF CallCleared, TrailInv, Between, NoTrail
<1> QED BY <1>2, <1>3, <1>4, <1>5

\* A crash puts the session back on the last commit.
LEMMA CrashInv == IInv /\ Crash => IInv'
<1> SUFFICES ASSUME IInv, Crash PROVE IInv'
  OBVIOUS
<1> USE DEF IInv
<1>1. /\ pc' = "idle" /\ cur' = 1 /\ tx' = db /\ trail' = NoTrail
      /\ rung' = 1 /\ unreachable' = FALSE /\ answer' = NoAnswer
      /\ UNCHANGED <<job, db, beside, upgraded>>
  BY DEF Crash, StateReturns
<1>2. 1 \in 1..(Retries + 3) /\ NoAnswer \in Answer /\ NoTrail \in Trail /\ 1 \in States
  BY MachineAssumption DEF NoAnswer, Answer, NoTrail, Trail, States
<1>3. pc' \in PcValues /\ unreachable' \in BOOLEAN
  BY <1>1 DEF PcValues
<1>4. TypeOK'
  BY <1>1, <1>2, <1>3 DEF TypeOK
<1>5. StoreInv(db)' /\ StoreInv(tx)'
  BY <1>1 DEF StoreInv, Clean, Together, Reusable, Within
<1>6. OneOpenRow'
  BY <1>1 DEF OneOpenRow, Before, Between, InState
<1>7. CallCleared' /\ TrailInv'
  BY <1>1 DEF CallCleared, TrailInv, Between, NoTrail
<1> QED BY <1>4, <1>5, <1>6, <1>7

\* The spend moves in the database and in the session, and nothing else does.
LEMMA SpendMovesInv ==
  ASSUME IInv, NEW d1 \in Nat, NEW m1 \in Nat, NEW d2 \in Nat, NEW m2 \in Nat, NEW b \in Nat,
         db' = [db EXCEPT !.day = d1, !.month = m1],
         tx' = [tx EXCEPT !.day = d2, !.month = m2],
         beside' = b,
         d1 < DailyCap + MaxPrice + b, m1 < MonthlyCap + MaxPrice + b,
         d2 < DailyCap + MaxPrice + b, m2 < MonthlyCap + MaxPrice + b,
         pc = "idle" => d1 = d2 /\ m1 = m2,
         pc = "calling" => d2 < DailyCap + b /\ m2 < MonthlyCap + b,
         UNCHANGED <<job, pc, cur, rung, unreachable, answer, trail, upgraded>>
  PROVE  IInv'
<1> USE DEF IInv
<1>1. tx \in Store /\ db \in Store /\ tx.day \in Nat /\ tx.month \in Nat
  BY DEF TypeOK, Store
<1>2. /\ db' \in Store
      /\ db'.rows = db.rows /\ db'.usable = db.usable /\ db'.stale = db.stale
      /\ db'.findings = db.findings /\ db'.columns = db.columns /\ db'.audits = db.audits
      /\ db'.day = d1 /\ db'.month = m1
  BY <1>1 DEF Store
<1>3. /\ tx' \in Store
      /\ tx'.rows = tx.rows /\ tx'.usable = tx.usable /\ tx'.stale = tx.stale
      /\ tx'.findings = tx.findings /\ tx'.columns = tx.columns /\ tx'.audits = tx.audits
      /\ tx'.day = d2 /\ tx'.month = m2
  BY <1>1 DEF Store
<1>4. TypeOK'
  BY <1>2, <1>3 DEF TypeOK
<1>5. StoreInv(db)'
  BY <1>2 DEF StoreInv, Clean, Together, Reusable, Within
<1>6. StoreInv(tx)'
  BY <1>3 DEF StoreInv, Clean, Together, Reusable, Within
<1>7. OneOpenRow'
  BY <1>2, <1>3 DEF OneOpenRow, Before, Between, InState, Reusable
<1>8. CallCleared'
  BY <1>1, <1>3, MachineAssumption DEF CallCleared
<1>9. TrailInv'
  BY <1>3 DEF TrailInv, Boundary
<1> QED BY <1>4, <1>5, <1>6, <1>7, <1>8, <1>9

LEMMA OthersSpendInv ==
  ASSUME IInv, NEW p \in Providers, OthersSpend(Registry[p].price)
  PROVE  IInv'
<1> DEFINE price == Registry[p].price
           d1 == db.day + price
           m1 == db.month + price
           d2 == tx.day + price
           m2 == tx.month + price
           b  == IF pc = "idle" THEN beside ELSE beside + price
<1>1. /\ tx \in Store /\ db \in Store /\ beside \in Nat
      /\ db.day \in Nat /\ db.month \in Nat /\ tx.day \in Nat /\ tx.month \in Nat
  BY DEF IInv, TypeOK, Store
<1>2. price \in Nat /\ price <= MaxPrice
  <2>1. Registry[p] \in ProviderSpec
    BY RegistryAssumption DEF Providers
  <2> QED BY <2>1, MachineAssumption DEF ProviderSpec
<1>3. /\ db' = [db EXCEPT !.day = d1, !.month = m1] /\ tx' = [tx EXCEPT !.day = d2, !.month = m2]
      /\ beside' = b
      /\ UNCHANGED <<job, pc, cur, rung, unreachable, answer, trail, upgraded>>
  BY <1>1 DEF OthersSpend
<1> HIDE DEF price
<1>4. db.day < DailyCap /\ db.month < MonthlyCap
  BY <1>1, MachineAssumption DEF OthersSpend, verdict
<1>5. b \in Nat /\ d1 \in Nat /\ m1 \in Nat /\ d2 \in Nat /\ m2 \in Nat
  BY <1>1, <1>2
<1>6. pc = "idle" => d1 = d2 /\ m1 = m2
  BY DEF IInv, OneOpenRow
<1>7. d1 < DailyCap + MaxPrice + b /\ m1 < MonthlyCap + MaxPrice + b
  BY <1>1, <1>2, <1>4, MachineAssumption
<1>8. d2 < DailyCap + MaxPrice + b /\ m2 < MonthlyCap + MaxPrice + b
  <2>1. CASE pc = "idle"
    BY <2>1, <1>6, <1>7
  <2>2. CASE pc # "idle"
    BY <2>2, <1>1, <1>2, MachineAssumption DEF IInv, StoreInv, Within
  <2> QED BY <2>1, <2>2
<1>9. pc = "calling" => d2 < DailyCap + b /\ m2 < MonthlyCap + b
  BY <1>1, <1>2, MachineAssumption DEF IInv, CallCleared
<1> HIDE DEF d1, m1, d2, m2, b
<1> QED BY <1>3, <1>5, <1>6, <1>7, <1>8, <1>9, SpendMovesInv

LEMMA NewDayInv == IInv /\ NewDay => IInv'
<1> SUFFICES ASSUME IInv, NewDay PROVE IInv'
  OBVIOUS
<1> DEFINE m1 == db.month
           m2 == tx.month
           b  == beside
<1>1. /\ m1 \in Nat /\ m2 \in Nat /\ b \in Nat /\ 0 \in Nat
      /\ m1 < MonthlyCap + MaxPrice + b /\ m2 < MonthlyCap + MaxPrice + b
  BY DEF IInv, TypeOK, Store, StoreInv, Within
<1>2. 0 < DailyCap + MaxPrice + b
  BY <1>1, MachineAssumption
<1>3. db' = [db EXCEPT !.day = 0] /\ tx' = [tx EXCEPT !.day = 0]
  BY DEF NewDay
<1>4. db' = [db EXCEPT !.day = 0, !.month = m1] /\ tx' = [tx EXCEPT !.day = 0, !.month = m2]
  BY <1>3 DEF IInv, TypeOK, Store
<1>5. beside' = b /\ UNCHANGED <<job, pc, cur, rung, unreachable, answer, trail, upgraded>>
  BY DEF NewDay, ghosts
<1>6. (pc = "idle" => m1 = m2) /\ (pc = "calling" => 0 < DailyCap + b /\ m2 < MonthlyCap + b)
  BY <1>1, MachineAssumption DEF IInv, OneOpenRow, CallCleared
<1> HIDE DEF m1, m2, b
<1> QED BY <1>1, <1>2, <1>4, <1>5, <1>6, SpendMovesInv

LEMMA NewMonthInv == IInv /\ NewMonth => IInv'
<1> SUFFICES ASSUME IInv, NewMonth PROVE IInv'
  OBVIOUS
<1>1. 0 < DailyCap + MaxPrice + 0 /\ 0 < MonthlyCap + MaxPrice + 0 /\ 0 \in Nat
  BY MachineAssumption
<1>2. /\ db' = [db EXCEPT !.day = 0, !.month = 0] /\ tx' = [tx EXCEPT !.day = 0, !.month = 0]
      /\ beside' = 0
      /\ UNCHANGED <<job, pc, cur, rung, unreachable, answer, trail, upgraded>>
  BY DEF NewMonth
<1>3. pc = "calling" => 0 < DailyCap + 0 /\ 0 < MonthlyCap + 0
  BY MachineAssumption DEF IInv, CallCleared
<1> QED BY <1>1, <1>2, <1>3, SpendMovesInv

LEMMA ClearProseInv == IInv /\ ClearProse => IInv'
<1> SUFFICES ASSUME IInv, ClearProse PROVE IInv'
  OBVIOUS
<1> USE DEF IInv
<1>1. /\ pc = "idle" /\ db' = Cleared(db) /\ tx' = db'
      /\ UNCHANGED <<job, pc, cur, rung, unreachable, answer, trail, beside, upgraded>>
  BY DEF ClearProse, ghosts
<1>2. db \in Store
  BY DEF TypeOK
<1>3. Cleared(db) \in Store /\ Cleared(db).day = db.day /\ Cleared(db).month = db.month
  BY <1>2, ClearedFields
<1>4. TypeOK'
  BY <1>1, <1>3 DEF TypeOK
<1>5. StoreInv(db)' /\ StoreInv(tx)'
  <2>1. (Clean(db) => Clean(db')) /\ (Together(db) => Together(db'))
    BY <1>1, <1>2, ClearedKeeps
  <2>2. Within(db')
    BY <1>1, <1>3 DEF StoreInv, Within
  <2> QED BY <1>1, <2>1, <2>2 DEF StoreInv, Clean, Together, Reusable, Within
<1>6. OneOpenRow'
  BY <1>1 DEF OneOpenRow, Before, Between, InState
<1>7. CallCleared' /\ TrailInv'
  BY <1>1 DEF CallCleared, TrailInv, Between, NoTrail
<1> QED BY <1>4, <1>5, <1>6, <1>7

LEMMA SchemaChangeInv == IInv /\ SchemaChange => IInv'
<1> SUFFICES ASSUME IInv, SchemaChange PROVE IInv'
  OBVIOUS
<1> USE DEF IInv
<1>1. /\ pc = "idle" /\ tx' = db' /\ upgraded' = TRUE
      /\ UNCHANGED <<job, pc, cur, rung, unreachable, answer, trail, beside>>
  BY DEF SchemaChange
<1>2. PICK s \in Revised : db' = [db EXCEPT !.usable = @ \ {s}]
  BY DEF SchemaChange
<1>3. db \in Store
  BY DEF TypeOK
<1>4. /\ db' \in Store /\ db'.rows = db.rows /\ db'.usable = db.usable \ {s}
      /\ db'.findings = db.findings /\ db'.columns = db.columns
      /\ db'.day = db.day /\ db'.month = db.month
  BY <1>2, <1>3 DEF Store
<1>5. TypeOK'
  BY <1>1, <1>4 DEF TypeOK
<1>6. StoreInv(db)' /\ StoreInv(tx)'
  <2>1. Together(db') /\ Within(db')
    BY <1>4 DEF StoreInv, Together, Reusable, Within
  <2> QED BY <1>1, <2>1 DEF StoreInv, Together, Reusable, Within
<1>7. OneOpenRow'
  BY <1>1 DEF OneOpenRow, Before, Between, InState
<1>8. CallCleared' /\ TrailInv'
  BY <1>1 DEF CallCleared, TrailInv, Between, NoTrail
<1> QED BY <1>5, <1>6, <1>7, <1>8

LEMMA StutterInv == IInv /\ UNCHANGED vars => IInv'
<1> SUFFICES ASSUME IInv, UNCHANGED vars PROVE IInv'
  OBVIOUS
<1> USE DEF IInv
<1>1. UNCHANGED <<job, db, tx, pc, cur, rung, unreachable, answer, trail, beside, upgraded>>
  BY DEF vars, ghosts
<1>2. TypeOK'
  BY <1>1 DEF TypeOK
<1>3. StoreInv(db)' /\ StoreInv(tx)'
  BY <1>1, StoreUnchanged
<1>4. OneOpenRow'
  BY <1>1 DEF OneOpenRow, Before, Between, InState, Reusable
<1>5. CallCleared'
  BY <1>1 DEF CallCleared
<1>6. TrailInv'
  BY <1>1 DEF TrailInv, Boundary
<1> QED BY <1>2, <1>3, <1>4, <1>5, <1>6

LEMMA NextInv == IInv /\ [Next]_vars => IInv'
  BY StutterInv, StartPassInv, ReuseInv, ReopenInv, RefusedInv, UnwiredInv, SendInv,
     LadderUsedInv, TransportFailsInv, BadAnswerInv, GoodAnswerInv, AskForRewriteInv,
     TakeRewriteInv, KeepFirstTextInv, CommitStateInv, CallerCommitsInv, CrashInv,
     OthersSpendInv, NewDayInv, NewMonthInv, ClearProseInv, SchemaChangeInv, Zenon
  DEF Next, Machine, Environment

LEMMA Invariance == Spec => []IInv
  BY InitInv, NextInv, PTL DEF Spec

-----------------------------------------------------------------------------
(* The properties. *)

\* Every value stays of its type, through every call, commit and crash.
THEOREM TypeCorrect == Spec => []TypeOK
<1>1. IInv => TypeOK
  BY DEF IInv
<1> QED BY <1>1, Invariance, PTL

\* The committed rows are always a run of finished states with at most one
\* unfinished row after it, until a schema changes (machine.py:18-22, 358-369).
THEOREM PrefixHolds == Spec => []RowsArePrefix
<1>1. IInv => RowsArePrefix
  BY DEF IInv, StoreInv, Clean, RowsArePrefix
<1> QED BY <1>1, Invariance, PTL

\* Every prompt finds the earlier outputs it requires, whatever the rows were
\* when the pass began (prompts/base.py:556-562).
THEOREM PriorsArePresent == Spec => []PromptHasItsPriors
<1>1. ASSUME IInv PROVE PromptHasItsPriors
  <2>1. SUFFICES ASSUME pc \in InState, NEW t \in Requires[cur]
                 PROVE  t < cur /\ Reusable(tx, t)
    BY DEF PromptHasItsPriors, InState
  <2>2. cur \in States /\ t \in 1..(cur - 1)
    BY <1>1, RequiresEarlier DEF IInv, TypeOK
  <2>3. Before(tx, cur)
    BY <1>1, <2>1 DEF IInv, OneOpenRow, InState
  <2> QED BY <2>2, <2>3 DEF Before, Reusable, Finished, States
<1> QED BY <1>1, Invariance, PTL

\* No crash separates a finished row from its findings or from the article's
\* columns (machine.py:501-511).
THEOREM OutputsCommittedTogether == Spec => []CommittedTogether
<1>1. IInv => CommittedTogether
  BY DEF IInv, StoreInv, Together, CommittedTogether
<1> QED BY <1>1, Invariance, PTL

\* No finished state stands on a replaced output, until a schema changes
\* (machine.py:339-357).
THEOREM PriorsAreCurrent == Spec => []FinishedOnCurrentPriors
<1>1. IInv => FinishedOnCurrentPriors
  BY DEF IInv, StoreInv, Clean, FinishedOnCurrentPriors
<1> QED BY <1>1, Invariance, PTL

\* The logged spend is never more than one call past either ceiling
\* (machine.py:614, budget.py:75-91).
THEOREM SpendIsBounded == Spec => []LoggedSpendWithinCeiling
<1>1. IInv => LoggedSpendWithinCeiling
  BY DEF IInv, StoreInv, Within, LoggedSpendWithinCeiling
<1> QED BY <1>1, Invariance, PTL

\* Whatever crossed the boundary since the last commit has an audit row in the
\* session, one per call that is not a rewrite (machine.py:438-446).
THEOREM CrossingsAreAudited == Spec => []CrossingsAudited
<1>1. ASSUME IInv PROVE CrossingsAudited
  <2>1. trail.sent \in Nat /\ trail.audited \in Nat
    BY <1>1 DEF IInv, TypeOK, Trail
  <2> QED BY <1>1, <2>1 DEF IInv, TrailInv, CrossingsAudited
<1> QED BY <1>1, Invariance, PTL

\* No request leaves for a state whose output is committed (machine.py:341-355).
THEOREM PaidOnce == Spec => NotPaidTwice
<1>1. IInv /\ [Next]_vars => (pc # "calling" /\ pc' = "calling" => ~Reusable(db, cur))
  <2> SUFFICES ASSUME IInv, [Next]_vars, pc # "calling", pc' = "calling"
               PROVE  ~Reusable(db, cur)
    OBVIOUS
  <2>1. pc = "ladder"
    BY DEF Next, Machine, Environment, vars, Reuse, Reopen, Refused, Unwired, Send, OnRung,
           LadderUsed, TransportFails, BadAnswer, NextRung, GoodAnswer, AskForRewrite,
           TakeRewrite, KeepFirstText, CommitState, CallerCommits, StartPass, Crash,
           OthersSpend, NewDay, NewMonth, ClearProse, SchemaChange
  <2> QED BY <2>1 DEF IInv, OneOpenRow, Between
<1> QED BY <1>1, Invariance, PTL DEF Spec, NotPaidTwice

-----------------------------------------------------------------------------
(* The machine implements AnalysisRows: seen through its commits, every step *)
(* closes one row, clears the prose, outdates a row or shows nothing.        *)

\* The commit shows one row closed over finished ones, or nothing new.
LEMMA CommitClosesRow == IInv /\ CommitState => Abs!RowsNext
<1> SUFFICES ASSUME IInv, CommitState PROVE Abs!RowsNext
  OBVIOUS
<1> DEFINE status == tx.rows[cur]
<1>1. pc = "closing" /\ db' = tx
  BY DEF CommitState
<1>2. /\ ~Reusable(db, cur) /\ Before(tx, cur)
      /\ tx.rows = [db.rows EXCEPT ![cur] = status]
      /\ status \in Closings /\ (status = "dropped" => cur = Triage)
      /\ status \in Finished => tx.usable = db.usable \cup {cur}
      /\ status \notin Finished => tx.usable = db.usable \ {cur}
  BY <1>1 DEF IInv, OneOpenRow, Between
<1>3. cur \in States /\ db.rows \in [States -> Statuses]
  BY DEF IInv, TypeOK, Store
<1> HIDE DEF status
<1>4. Abs!Reached(cur)
  <2>1. \A t \in 1..(cur - 1) : db.rows[t] = "ok" /\ t \in db.usable
    BY <1>2, <1>3 DEF Before, States
  <2>2. ~Abs!Reusable(cur)
    BY <1>2 DEF Reusable, Abs!Reusable, Abs!Finished, Finished
  <2> QED BY <2>1, <2>2 DEF Abs!Reached
<1>5. Abs!CloseRow(cur, status)
  BY <1>1, <1>2, <1>4 DEF Abs!CloseRow, Abs!Finished, Finished, Abs!Triage, Triage
<1> QED BY <1>2, <1>3, <1>5
        DEF Abs!RowsNext, Abs!States, States, Abs!Closings, Closings,
            Abs!RouterRefusals, RouterRefusals

LEMMA ClearProseClears == IInv /\ ClearProse => Abs!RowsNext
<1> SUFFICES ASSUME IInv, ClearProse PROVE Abs!RowsNext
  OBVIOUS
<1>1. db.rows[Narrative] = "ok" /\ db' = Cleared(db) /\ db \in Store
  BY DEF ClearProse, IInv, TypeOK
<1>2. /\ db'.rows = [s \in States |-> IF s >= Narrative THEN "none" ELSE db.rows[s]]
      /\ db'.usable = {s \in db.usable : s < Narrative}
  BY <1>1, ClearedFields
<1>3. Abs!ClearProseRows
  BY <1>1, <1>2 DEF Abs!ClearProseRows, Abs!Narrative, Narrative, Abs!States, States
<1> QED BY <1>3 DEF Abs!RowsNext

LEMMA SchemaChangeOutdates == IInv /\ SchemaChange => Abs!RowsNext
<1> SUFFICES ASSUME IInv, SchemaChange PROVE Abs!RowsNext
  OBVIOUS
<1>1. PICK s \in Revised : Reusable(db, s) /\ db' = [db EXCEPT !.usable = @ \ {s}]
  BY DEF SchemaChange
<1>2. db \in Store /\ s \in States
  BY MachineAssumption DEF IInv, TypeOK
<1>3. db'.rows = db.rows /\ db'.usable = db.usable \ {s}
  BY <1>1, <1>2 DEF Store
<1>4. Abs!OutdateRow(s)
  BY <1>1, <1>3 DEF Abs!OutdateRow, Abs!Reusable, Reusable, Abs!Finished, Finished
<1> QED BY <1>2, <1>4 DEF Abs!RowsNext, Abs!States, States

\* Nothing else reaches the committed rows.
LEMMA OtherStepsHide ==
  ASSUME IInv, [Next]_vars, ~CommitState, ~ClearProse, ~SchemaChange
  PROVE  db'.rows = db.rows /\ db'.usable = db.usable
<1>1. db \in Store
  BY DEF IInv, TypeOK
<1>2. CASE CallerCommits
  BY <1>2 DEF CallerCommits, IInv, OneOpenRow, Between
<1>3. CASE \E p \in Providers : OthersSpend(Registry[p].price)
  BY <1>1, <1>3 DEF OthersSpend, Store
<1>4. CASE NewDay
  BY <1>1, <1>4 DEF NewDay, Store
<1>5. CASE NewMonth
  BY <1>1, <1>5 DEF NewMonth, Store
<1>6. CASE db' = db
  BY <1>6
<1>7. \/ CallerCommits \/ (\E p \in Providers : OthersSpend(Registry[p].price)) \/ NewDay \/ NewMonth \/ db' = db
  BY DEF Next, Machine, Environment, vars, Reuse, Reopen, Refused, Unwired, Send,
         LadderUsed, TransportFails, BadAnswer, GoodAnswer, AskForRewrite,
         TakeRewrite, KeepFirstText, StartPass, Crash
<1> QED BY <1>2, <1>3, <1>4, <1>5, <1>6, <1>7

\* What the machine commits is a behaviour of AnalysisRows (machine.py:4-9).
THEOREM MachineImplementsRows == Spec => ImplementsRows
<1>1. Init => Abs!RowsInit
  BY DEF Init, Empty, Abs!RowsInit, Abs!States, States
<1>2. IInv /\ [Next]_vars => [Abs!RowsNext]_<<db.rows, db.usable>>
  BY CommitClosesRow, ClearProseClears, SchemaChangeOutdates, OtherStepsHide
<1> QED BY <1>1, <1>2, Invariance, PTL DEF Spec, ImplementsRows, Abs!RowsSpec, Abs!rowVars
=============================================================================
