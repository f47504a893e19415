-------------------------- MODULE ExtractionMachine --------------------------
(***************************************************************************)
(* The runner of one article through the eight states                      *)
(* (ai/state/machine.py).  Every write goes to the session first (tx) and  *)
(* reaches the database (db) only with the commit that follows each state; *)
(* a crash, or an exception the driver answers with a rollback, throws the *)
(* uncommitted part away.  Provider calls are foreign: they are sent       *)
(* before anything about them is committed, and a rollback does not unsend *)
(* them.  The history variables record exactly that difference.            *)
(***************************************************************************)
EXTENDS TlpRouter, RunStatuses

CONSTANTS
  Jobs,         \* the articles and deployments considered (a set of Job)
  Revised,      \* the states whose schema a deployment may change
  Retries,      \* RETRIES_PER_MODEL
  MaxPrice,     \* the dearest call
  DailyCap,     \* PEST_AI_DAILY_BUDGET_USD, in the unit of the prices
  MonthlyCap    \* PEST_AI_MONTHLY_BUDGET_USD

\* What does not change while an article is analysed: its marking, its
\* source's flag, the analyst's consent handed to run(), the ceiling, the
\* states whose prompt is over the size limit, and the providers wired in.
Job == [tlp : RawTlp, share : BOOLEAN, consent : Consents, ceiling : TlpLevels,
        oversized : SUBSET States, wired : SUBSET Providers]

ASSUME MachineAssumption ==
  /\ Jobs \subseteq Job
  /\ Revised \subseteq States
  /\ Retries \in Nat
  /\ MaxPrice \in Nat \ {0} /\ \A p \in Providers : Registry[p].price <= MaxPrice
  /\ DailyCap \in Nat
  /\ MonthlyCap \in Nat

VARIABLES
  job,
  db,           \* the committed rows, findings, columns and spend
  tx,           \* the same as the session sees them
  pc, cur,      \* where run() is, and in which state
  rung,         \* the position on the ladder of attempts, from 1
  unreachable,  \* the last attempt never landed
  answer,       \* what the router last said
  trail,        \* history since the last commit: see Trail
  beside,       \* history: what others spent this month while a pass was on
  upgraded      \* history: a stored output was outdated by a schema change

ghosts == <<trail, beside, upgraded>>
vars == <<job, db, tx, pc, cur, rung, unreachable, answer, ghosts>>

-----------------------------------------------------------------------------
(* The states' fixed properties. *)

Tier(s) == IF s = Triage THEN "triage" ELSE IF s = Verify THEN "judge" ELSE "analysis"

\* (mutant) the retries counted as if they included the first attempt, twice
LadderLengthOffByOne(s) == 2 + Retries + (IF s = Triage THEN 1 ELSE 0)

LadderLength(s) == 1 + Retries + (IF s = Triage THEN 1 ELSE 0)

\* The same model until the retries are used up, then one tier higher.
RungTier(s, r) == IF r <= 1 + Retries THEN Tier(s) ELSE "analysis"

ProseStates == {Narrative, Sketch}

Extracting == {ExtractIoc, MapTtp}      \* states that write findings tables
Projecting == {Classify, Narrative}     \* states that fill the article's columns

\* Prompt.requires: the earlier outputs a state's prompt carries.
Requires == [s \in States |->
  CASE s = Diamond   -> {ExtractIoc, MapTtp}
    [] s = Narrative -> {Classify, ExtractIoc, MapTtp, Diamond}
    [] s = Sketch    -> {ExtractIoc, MapTtp, Diamond}
    [] s = Verify    -> {Diamond, Narrative, Sketch}
    [] OTHER         -> {}]

Readers(s) == {t \in States : s \in Requires[t]}

-----------------------------------------------------------------------------
(* The data: the article's rows and what is written with them. *)

Store == [rows     : [States -> Statuses],
          usable   : SUBSET States,   \* stored output its schema accepts
          grounded : SUBSET States,   \* stored output whose claims were all reconciled
          stale    : SUBSET States,   \* finished from an earlier output since replaced
          findings : SUBSET States,   \* findings tables hold this row's output
          columns  : SUBSET States,   \* article columns hold this row's output
          audits   : SUBSET States,   \* states an override's audit row names
          day      : Nat,             \* spend in LlmCallLog today,
          month    : Nat]             \* and this month

Empty == [rows |-> [s \in States |-> "none"], usable |-> {}, grounded |-> {}, stale |-> {},
          findings |-> {}, columns |-> {}, audits |-> {}, day |-> 0, month |-> 0]

Reusable(st, s) == st.rows[s] \in Finished /\ s \in st.usable

\* _row_for: the row is reused, its result cleared; what the previous pass
\* wrote elsewhere no longer belongs to a stored output.
Reopened(st, s) == [st EXCEPT !.rows[s]  = "pending",
                              !.usable   = @ \ {s},
                              !.grounded = @ \ {s},
                              !.stale    = @ \ {s},
                              !.findings = @ \ {s},
                              !.columns  = @ \ {s}]

\* (mutant) the article's columns are left to the next pass
WithOutputUnprojected(st, s, status, reconciled) ==
  [st EXCEPT !.rows[s]  = status,
             !.usable   = @ \cup {s},
             !.grounded = @ \cup reconciled,
             !.findings = IF s \in Extracting THEN @ \cup {s} ELSE @]

\* raw_output_json, findings, columns and status are written together; a
\* finished reader of the old output is left as it was.  reconciled is {s}
\* when every claim of the stored output was checked against the text.
WithOutput(st, s, status, reconciled) ==
  [st EXCEPT !.rows[s]  = status,
             !.usable   = @ \cup {s},
             !.grounded = @ \cup reconciled,
             !.stale    = @ \cup {t \in Readers(s) : st.rows[t] \in Finished},
             !.findings = IF s \in Extracting THEN @ \cup {s} ELSE @,
             !.columns  = IF s \in Projecting THEN @ \cup {s} ELSE @]

Closed(st, s, status) == [st EXCEPT !.rows[s] = status]

\* record_call: one LlmCallLog row, priced from the registry.
Logged(st) == [st EXCEPT !.day   = @ + Registry[answer.provider].price,
                         !.month = @ + Registry[answer.provider].price]

-----------------------------------------------------------------------------
(* One pass: run(), with _run_state unrolled. *)

PcValues == {"idle", "scan", "ladder", "calling", "rewriting", "closing", "ended"}

NoAnswer == [refusal |-> "none", provider |-> 0, audit |-> FALSE]

\* Requests sent across the TLP boundary, audit rows written for them, and
\* answers received that no LlmCallLog row records.
Trail == [sent : Nat, audited : Nat, unlogged : Nat]

NoTrail == [sent |-> 0, audited |-> 0, unlogged |-> 0]

Init == /\ job \in Jobs
        /\ db = Empty /\ tx = Empty
        /\ pc = "idle" /\ cur = 1 /\ rung = 1 /\ unreachable = FALSE
        /\ answer = NoAnswer
        /\ trail = NoTrail /\ beside = 0 /\ upgraded = FALSE

\* The locals of _run_state go out of scope.
StateReturns == rung' = 1 /\ unreachable' = FALSE /\ answer' = NoAnswer

\* The article has a body; anything may call run() on it, whatever its rows.
StartPass == /\ pc = "idle"
             /\ pc' = "scan"
             /\ UNCHANGED <<job, db, tx, cur, rung, unreachable, answer, ghosts>>

\* A finished state is rehydrated and projected again, not paid for again; a
\* triage that said no ends the pass here.  Nothing is committed on the way.
Reuse == /\ pc = "scan"
         /\ Reusable(tx, cur)
         /\ tx' = [tx EXCEPT !.columns = IF cur \in Projecting THEN @ \cup {cur} ELSE @]
         /\ IF tx.rows[cur] = "dropped" \/ cur = Verify
            THEN pc' = "ended" /\ UNCHANGED cur
            ELSE cur' = cur + 1 /\ UNCHANGED pc
         /\ UNCHANGED <<job, db, rung, unreachable, answer, ghosts>>

\* (mutant) the reuse check is forgotten
ReopenAnyway == /\ pc = "scan"
                /\ tx' = Reopened(tx, cur)
                /\ pc' = "ladder"
                /\ UNCHANGED <<job, db, cur, rung, unreachable, answer, ghosts>>

\* _run_state begins: the row is reopened and flushed, not committed.
Reopen == /\ pc = "scan"
          /\ ~Reusable(tx, cur)
          /\ tx' = Reopened(tx, cur)
          /\ pc' = "ladder"
          /\ UNCHANGED <<job, db, cur, rung, unreachable, answer, ghosts>>

\* (mutant) the budget is read outside the session
AskingOnCommitted == [tier |-> RungTier(cur, rung), tlp |-> job.tlp, share |-> job.share,
                      ceiling |-> job.ceiling, large |-> cur \in job.oversized,
                      budget |-> verdict(db.day, db.month, DailyCap, MonthlyCap),
                      consent |-> job.consent, registered |-> Providers]

\* _choose: the budget is read in the session, uncommitted calls included.
Asking == [tier |-> RungTier(cur, rung), tlp |-> job.tlp, share |-> job.share,
           ceiling |-> job.ceiling, large |-> cur \in job.oversized,
           budget |-> verdict(tx.day, tx.month, DailyCap, MonthlyCap),
           consent |-> job.consent, registered |-> Providers]

OnRung == pc = "ladder" /\ rung <= LadderLength(cur)

\* A refusal closes the row at once, whichever rung it came on.
Refused == /\ OnRung
           /\ choose(Asking).refusal # "none"
           /\ tx' = Closed(tx, cur, choose(Asking).refusal)
           /\ pc' = "closing"
           /\ UNCHANGED <<job, db, cur, rung, unreachable, answer, ghosts>>

\* record_tlp_override: an audit row is flushed, before anything is sent.
WithAudit(st, a) == IF a.audit THEN [st EXCEPT !.audits = @ \cup {cur}] ELSE st

\* (mutant) one row per state, not per call
AuditRowOnce(a) == IF a.audit /\ rung = 1 THEN 1 ELSE 0

AuditRow(a) == IF a.audit THEN 1 ELSE 0

Crossing(a) == IF Crosses(Asking, a) THEN 1 ELSE 0

\* The router chose a provider no adapter is wired for.
Unwired == /\ OnRung
           /\ choose(Asking).refusal = "none"
           /\ choose(Asking).provider \notin job.wired
           /\ trail' = [trail EXCEPT !.audited = @ + AuditRow(choose(Asking))]
           /\ tx' = Closed(WithAudit(tx, choose(Asking)), cur, "error")
           /\ pc' = "closing"
           /\ UNCHANGED <<job, db, cur, rung, unreachable, answer, beside, upgraded>>

\* The audit row is flushed if the call crosses the boundary, the pacer
\* waits, and the request leaves.
Send == /\ OnRung
        /\ choose(Asking).refusal = "none"
        /\ choose(Asking).provider \in job.wired
        /\ answer' = choose(Asking)
        /\ tx' = WithAudit(tx, answer')
        /\ trail' = [trail EXCEPT !.audited = @ + AuditRow(answer'),
                                  !.sent = @ + Crossing(answer')]
        /\ pc' = "calling"
        /\ UNCHANGED <<job, db, cur, rung, unreachable, beside, upgraded>>

\* Every rung used: how the last one failed decides the status.
LadderUsed == /\ pc = "ladder"
              /\ rung > LadderLength(cur)
              /\ tx' = Closed(tx, cur, IF unreachable THEN "error" ELSE "staged")
              /\ pc' = "closing"
              /\ UNCHANGED <<job, db, cur, rung, unreachable, answer, ghosts>>

\* (mutant) a transport failure does not use up an attempt
NextRungFree(failedToLand) == /\ unreachable' = failedToLand
                              /\ rung' = IF failedToLand THEN rung ELSE rung + 1
                              /\ answer' = NoAnswer
                              /\ pc' = "ladder"

NextRung(failedToLand) == /\ unreachable' = failedToLand
                          /\ rung' = rung + 1
                          /\ answer' = NoAnswer
                          /\ pc' = "ladder"

\* complete() raised: an outage, backed off, next rung.
TransportFails == /\ pc = "calling"
                  /\ NextRung(TRUE)
                  /\ UNCHANGED <<job, db, tx, cur, ghosts>>

\* The schema refused what came back: logged and paid, next rung.
BadAnswer == /\ pc = "calling"
             /\ tx' = Logged(tx)
             /\ NextRung(FALSE)
             /\ UNCHANGED <<job, db, cur, ghosts>>

\* (mutant) any state may drop the article
GoodAnswerDropping == /\ pc = "calling"
                      /\ \E status \in Finished :
                           tx' = WithOutput(Logged(tx), cur, status, {cur})
                      /\ pc' = "closing"
                      /\ UNCHANGED <<job, db, cur, rung, unreachable, answer, ghosts>>

\* The answer is grounded, stored and projected, and its prose is clean.
GoodAnswer == /\ pc = "calling"
              /\ \E status \in Finished :
                   /\ status = "dropped" => cur = Triage
                   /\ tx' = WithOutput(Logged(tx), cur, status, {cur})
              /\ pc' = "closing"
              /\ UNCHANGED <<job, db, cur, rung, unreachable, answer, ghosts>>

\* The prose broke the house style: the same provider is asked once more, in
\* a request of its own that passes neither _choose nor record_call.
AskForRewrite == /\ pc = "calling"
                 /\ cur \in ProseStates
                 /\ tx' = Logged(tx)
                 /\ trail' = [trail EXCEPT !.sent = @ + Crossing(answer)]
                 /\ pc' = "rewriting"
                 /\ UNCHANGED <<job, db, cur, rung, unreachable, answer, beside, upgraded>>

\* The rewrite is better and replaces the grounded text.  It is not grounded
\* again: in the sketch it may name actors the article does not.
TakeRewrite == /\ pc = "rewriting"
               /\ \E reconciled \in SUBSET {cur} :
                    /\ reconciled = {} => cur = Sketch
                    /\ tx' = WithOutput(tx, cur, "ok", reconciled)
               /\ trail' = [trail EXCEPT !.unlogged = @ + 1]
               /\ pc' = "closing"
               /\ UNCHANGED <<job, db, cur, rung, unreachable, answer, beside, upgraded>>

\* The rewrite never landed, or landed and is no better: the first text stands.
KeepFirstText == /\ pc = "rewriting"
                 /\ tx' = WithOutput(tx, cur, "ok", {cur})
                 /\ \E landed \in {0, 1} : trail' = [trail EXCEPT !.unlogged = @ + landed]
                 /\ pc' = "closing"
                 /\ UNCHANGED <<job, db, cur, rung, unreachable, answer, beside, upgraded>>

\* session.commit() after the state; the pass goes on only over an output, and
\* not past a triage that said no.
CommitState == /\ pc = "closing"
               /\ db' = tx
               /\ trail' = NoTrail
               /\ IF tx.rows[cur] = "ok" /\ cur # Verify
                  THEN pc' = "scan" /\ cur' = cur + 1
                  ELSE pc' = "ended" /\ UNCHANGED cur
               /\ StateReturns
               /\ UNCHANGED <<job, tx, beside, upgraded>>

\* run() has returned; its caller commits what the reuse projected.
CallerCommits == /\ pc = "ended"
                 /\ db' = tx
                 /\ pc' = "idle" /\ cur' = 1
                 /\ UNCHANGED <<job, tx, rung, unreachable, answer, ghosts>>

-----------------------------------------------------------------------------
(* What happens around a pass. *)

\* The process dies, or something raises and the driver rolls the session
\* back: the rows go back to the last commit, the requests stay sent.
Crash == /\ pc # "idle"
         /\ tx' = db
         /\ trail' = NoTrail
         /\ pc' = "idle" /\ cur' = 1
         /\ StateReturns
         /\ UNCHANGED <<job, db, beside, upgraded>>

\* The call log is shared: other processes, an operator's corpus run among them,
\* pay for calls too, during a pass as well, and see of the log what is
\* committed.  What they log is taken to be committed at once; the session of
\* this pass sees it beside its own calls.
OthersSpend(price) ==
  /\ verdict(db.day, db.month, DailyCap, MonthlyCap) # "exhausted"
  /\ db' = [db EXCEPT !.day = @ + price, !.month = @ + price]
  /\ tx' = [tx EXCEPT !.day = @ + price, !.month = @ + price]
  /\ beside' = IF pc = "idle" THEN beside ELSE beside + price
  /\ UNCHANGED <<job, pc, cur, rung, unreachable, answer, trail, upgraded>>

NewDay == /\ db' = [db EXCEPT !.day = 0]
          /\ tx' = [tx EXCEPT !.day = 0]
          /\ UNCHANGED <<job, pc, cur, rung, unreachable, answer, ghosts>>

NewMonth == /\ db' = [db EXCEPT !.day = 0, !.month = 0]
            /\ tx' = [tx EXCEPT !.day = 0, !.month = 0]
            /\ beside' = 0
            /\ UNCHANGED <<job, pc, cur, rung, unreachable, answer, trail, upgraded>>

\* (mutant) the audit that reads the prose is left standing
ClearedButVerify(st) ==
  [st EXCEPT !.rows = [s \in States |-> IF s \in ProseStates THEN "none" ELSE @[s]],
             !.usable = @ \ ProseStates, !.grounded = @ \ ProseStates,
             !.stale = @ \ ProseStates, !.columns = @ \ ProseStates]

\* corpus_runner restyle: the prose states and the audit that reads them are
\* cleared together, and asked for again.
Cleared(st) == [st EXCEPT !.rows = [s \in States |-> IF s >= Narrative THEN "none" ELSE @[s]],
                          !.usable   = {s \in @ : s < Narrative},
                          !.grounded = {s \in @ : s < Narrative},
                          !.stale    = {s \in @ : s < Narrative},
                          !.columns  = {s \in @ : s < Narrative}]

ClearProse == /\ pc = "idle"
              /\ db.rows[Narrative] = "ok"
              /\ db' = Cleared(db)
              /\ tx' = db'
              /\ UNCHANGED <<job, pc, cur, rung, unreachable, answer, ghosts>>

\* A deployment changes one schema so that a stored output no longer
\* validates.  Bound: it happens once.
SchemaChange == /\ pc = "idle"
                /\ ~upgraded
                /\ \E s \in Revised : /\ Reusable(db, s)
                                      /\ db' = [db EXCEPT !.usable = @ \ {s}]
                /\ tx' = db'
                /\ upgraded' = TRUE
                /\ UNCHANGED <<job, pc, cur, rung, unreachable, answer, trail, beside>>

Machine == \/ Reuse \/ Reopen \/ Refused \/ Unwired \/ Send \/ LadderUsed
           \/ TransportFails \/ BadAnswer \/ GoodAnswer
           \/ AskForRewrite \/ TakeRewrite \/ KeepFirstText
           \/ CommitState \/ CallerCommits

Environment == \/ StartPass \/ Crash \/ NewDay \/ NewMonth
               \/ \E p \in Providers : OthersSpend(Registry[p].price)
               \/ ClearProse \/ SchemaChange

Next == Machine \/ Environment

\* The thread that is inside run() is scheduled, and every provider call
\* returns or times out.
Spec == Init /\ [][Next]_vars /\ WF_vars(Machine)

-----------------------------------------------------------------------------
TypeOK == /\ job \in Jobs
          /\ db \in Store /\ tx \in Store
          /\ pc \in PcValues /\ cur \in States
          /\ rung \in 1..(Retries + 3) /\ unreachable \in BOOLEAN
          /\ answer \in Answer
          /\ trail \in Trail /\ beside \in Nat /\ upgraded \in BOOLEAN

\* The committed rows are a run of finished states and at most one unfinished
\* row after them, through any crash, retry and manual restyling: a refusal
\* stops the run, so nothing stands on a state that did not finish
\* (machine.py:18-22, 358-369).  A schema change is what can break it.
RowsArePrefix ==
  ~upgraded => \A s \in States : \A t \in 1..(s - 1) : db.rows[s] # "none" => db.rows[t] = "ok"

\* A prompt is only ever rendered with the outputs it requires
\* (prompts/base.py:556-562 raises otherwise).
PromptHasItsPriors ==
  pc \in {"ladder", "calling", "rewriting"} => \A t \in Requires[cur] : t < cur /\ Reusable(tx, t)

\* A finished row, its findings and the article's columns are committed
\* together: no crash leaves one without the others (machine.py:501-511).
CommittedTogether ==
  \A s \in States : Reusable(db, s) => /\ s \in Extracting => s \in db.findings
                                       /\ s \in Projecting => s \in db.columns

\* No finished state stands on an earlier output that has been replaced since,
\* whatever crashed and whatever was restyled; again only a schema change can
\* break it (machine.py:339-357, corpus_runner.py:229-233).
FinishedOnCurrentPriors == ~upgraded => db.stale = {}

\* What the call log holds is never more than one call past a ceiling: the
\* budget is read before every rung, in the session that holds the calls not
\* yet committed (machine.py:614, budget.py:75-91).  What other processes spend
\* during a pass comes on top: neither sees what the other has not committed.
LoggedSpendWithinCeiling == /\ tx.day < DailyCap + MaxPrice + beside
                            /\ tx.month < MonthlyCap + MaxPrice + beside

\* Content crosses the boundary only after an audit row for the same state was
\* flushed; only a rewrite goes out on the row of the call it rewrites
\* (machine.py:438-446, 594).
CrossingsAudited == /\ trail.sent > 0 => cur \in tx.audits
                    /\ trail.sent <= trail.audited + (IF cur \in ProseStates THEN 1 ELSE 0)

\* A finished state is not paid for twice: no request leaves for a state whose
\* output is committed and usable (machine.py:341-355).
NotPaidTwice == [][pc # "calling" /\ pc' = "calling" => ~Reusable(db, cur)]_vars

\* Every pass comes to an end: the ladder is finite and no state is visited
\* twice (machine.py:339, 426-432).
PassEnds == (pc # "idle") ~> (pc = "idle")

Abs == INSTANCE AnalysisRows WITH rows <- db.rows, usable <- db.usable

\* The machine implements what AnalysisRows promises.
ImplementsRows == Abs!RowsSpec

-----------------------------------------------------------------------------
(* What comments, the README and tests say, and the code does not do. *)

\* "What the run row stores is the reconciled set, never the proposal"
\* (machine.py:660-661).
StoredIsGrounded == db.usable \subseteq db.grounded

\* "every call logged with cost and token counts" (README).
EveryCallLogged == trail.unlogged = 0

\* "a crash mid-call leaves evidence that content was about to be sent"
\* (audit.py:53-55).
CrashLeavesEvidence ==
  [][(trail.sent > 0 /\ pc # "ended" /\ pc' = "idle") => cur \in db.audits']_vars
=============================================================================
