---------------------------- MODULE TlpRouterTask ----------------------------
(***************************************************************************)
(* A task that is put to the router again and again while the deployment   *)
(* changes around it: spend moves, an operator changes the ceiling or the  *)
(* source's flag, a provider is registered or withdrawn, an analyst gives  *)
(* or withdraws consent.  This is the retry policy the router's comments   *)
(* worry about (ai/router/router.py:102-107).                              *)
(***************************************************************************)
EXTENDS TlpRouter

VARIABLES
  question, \* as it was last put to the router
  reply,    \* what the router said
  barred    \* history: privacy refused it, and no person changed anything since

task == <<question, reply, barred>>

Privacy == {"blocked_tlp", "source_ban"}

TaskTypeOK == question \in Question /\ reply \in Answer /\ barred \in BOOLEAN

TaskInit == /\ question \in [tier : Tiers, tlp : RawTlp, share : BOOLEAN, ceiling : TlpLevels,
                             large : {FALSE}, budget : {"open"}, consent : {"none"},
                             registered : {Providers}]
            /\ reply = choose(question)
            /\ barred = (reply.refusal \in Privacy)

\* The deployment changes and the task is retried.
RetryWith(next) == /\ question' = next
                   /\ reply' = choose(next)
                   /\ barred' = (barred \/ choose(next).refusal \in Privacy)

\* A person changes what may be sent where, and the task is retried.
DecideAndRetryWith(next) == /\ question' = next
                            /\ reply' = choose(next)
                            /\ barred' = (choose(next).refusal \in Privacy)

SpendMoves(b)   == RetryWith([question EXCEPT !.budget = b])
Register(ps)    == RetryWith([question EXCEPT !.registered = ps])
Resize(l)       == RetryWith([question EXCEPT !.large = l])
Remark(t)       == DecideAndRetryWith([question EXCEPT !.tlp = t])
SetShareFlag(f) == DecideAndRetryWith([question EXCEPT !.share = f])
SetCeiling(c)   == DecideAndRetryWith([question EXCEPT !.ceiling = c])
Consent(c)      == DecideAndRetryWith([question EXCEPT !.consent = c])

Retry == \/ \E b \in Budgets : SpendMoves(b)
         \/ \E ps \in SUBSET Providers : Register(ps)
         \/ \E l \in BOOLEAN : Resize(l)
         \/ \E t \in RawTlp : Remark(t)
         \/ \E f \in BOOLEAN : SetShareFlag(f)
         \/ \E c \in TlpLevels : SetCeiling(c)
         \/ \E c \in Consents : Consent(c)

TaskSpec == TaskInit /\ [][Retry]_task

-----------------------------------------------------------------------------
SentToThirdParty == reply.refusal = "none" /\ ~Registry[reply.provider].local

\* Content above the ceiling, or from a source marked never-share, is sent to
\* a third party only under an override, and past the source's ban only when
\* that was acknowledged too; such an answer, and no other, asks for an audit
\* row (router.py:76-96, 145-154).
NothingLeavesUnconsented ==
  /\ reply.audit <=> Crosses(question, reply)
  /\ Crosses(question, reply) => \/ question.consent = "acknowledged"
                                 \/ question.consent = "override" /\ question.share

\* "Stable no matter what the budget is doing" (router.py:69-75): asking the
\* same question under another budget verdict can neither turn a privacy
\* refusal into anything else nor anything else into a privacy refusal.
PrivacyAnswerFirst ==
  [][ [question' EXCEPT !.budget = question.budget] = question
      => /\ reply.refusal \in Privacy => reply' = reply
         /\ reply'.refusal \in Privacy => reply' = reply ]_task

\* What was refused for privacy reaches a third party only after a person
\* changed the marking, the ceiling, the source's flag or the consent: however
\* often it is retried while spend moves and providers come and go
\* (router.py:102-107).
ReleasedOnlyByAPerson == barred => ~SentToThirdParty
=============================================================================
