# A verification of elementary-CTI (pestilentia)

elementary-CTI collects ransomware claims and threat-intelligence articles into
one relational database, has language models extract structured findings from the
articles, and shows both in a web application. This directory holds TLA+ models of
the parts of it whose correctness depends on the *order* in which things happen:
what is sent to whom, what is committed when, what a crash or a rollback takes
with it, what is retried and what must never be done twice.

The modules are translated from the Python code under `src/pestilentia` (and
`scripts/corpus_runner.py`); `PROJECT.json` maps every definition to its lines.

## 1. The system and its parts

| part | state it keeps | operations | talks to |
|---|---|---|---|
| article sources (`ai/sources`) | `articles`, `article_sources` | fetch feeds, full text, de-duplicate, cluster | scheduler, driver, web |
| batch driver (`ai/state/driver.py`) | none of its own; reads runs | select a batch, run the machine, gate, roll back | machine, gate |
| extraction machine (`ai/state/machine.py`) | `article_analysis_runs`, findings tables, article columns | `run`, `_run_state`, grounding, restyle | router, budget, audit, providers |
| TLP router (`ai/router`, `ai/tlp.py`) | none | `choose` | providers, budget verdict |
| budget (`ai/budget.py`) | `llm_call_log` | `verdict`, `record_call` | machine |
| override audit (`ai/audit.py`) | `ai_enrichment_audit` | `record_tlp_override` | machine |
| confidence gate (`ai/enrichment/gate.py`, `ai/confidence`) | `staged_findings` | score, decide, enrich | apply |
| enrichment (`ai/enrichment`) | `groups`, `group_alias_proposals`, `ai_enrichment_audit` | apply, revert, resolve, propose | gate, web |
| ingest and backfill (`pipeline`) | `victims`, `groups`, `cyberattacks`, `info_updates` | per source and per year | clients, scheduler |
| enrichers (`clients/mitre_attack.py`, ...) | TTPs, tools, notes, `info_updates` | incremental runs | scheduler, web refresh |
| scheduler (`pipeline/scheduler.py`) | a stop event; due dates in `info_updates` | one cycle after another | everything above |
| watchlist and notifications (`matching.py`, `notifications`) | `alerts`, two high-water marks | match, dispatch | web refresh |
| health (`pipeline/health.py`) | `source_health` | judge, record a backup | scheduler, script |
| web application (`web`) | `users`, sessions, `user_activity` | pages, API, accounts | all tables |

The hard behaviour is in these interactions:

* **One session, many commits.** A batch shares one database session. The machine
  commits after each state, the gate never commits, the driver rolls back on any
  exception and the scheduler commits at the end. Who loses what is decided by the
  order.
* **Foreign calls inside a transaction.** Requests to providers leave before
  anything about them is committed. A crash or rollback undoes the record and not
  the request.
* **Two refusals, one question.** The router answers for privacy and for money. A
  wrong order makes a privacy refusal look like one that goes away by itself.
* **Ladders.** A state is asked several times, on two tiers, and its prose may be
  asked for once more on the side.
* **Reruns.** Stored output may stop validating, prose may be cleared by hand, and
  what was built on it has to go too.
* **Starvation.** Batches are bounded, newest first for the analysis and oldest first
  for the full texts; a stretch of items that cannot be served holds the others up.
* **Two writers.** The scheduler and a refresh from the web are two processes that
  ingest, enrich and match the same tables; some are guarded by a constraint, some by
  a look beforehand, some by nothing.
* **Marks.** High-water marks, validators, etags, finished years and the time of the
  last pass all say what need not be looked at again. A mark set a step early hides
  something for ever.
* **Wrapping.** The middleware answers after the handlers it wraps, about the same cookie.
* **Undoing.** An enrichment can be taken back after others wrote to the same field.

What makes each part correct is in `PROJECT.json` under "hazards", each at its
line, with the properties that cover it.

## 2. The modules

    TlpRouter            operators: TLP, registry, verdict, choose
      TlpRouterTask      a task retried while the deployment changes
      ExtractionMachine  the machine (+ RunStatuses)
    RunStatuses          the states and the statuses a row may have
      AnalysisRows       what the rows promise: the abstract specification
      AnalysisDriver     the batch, over the machine's abstract rows
    ConfidenceGate       scores, grades, floors, and gating again
    Grounding            quotes and indicators against the body
    Enrichment           what a trusted sketch does to a group, and undoing it
    Articles             feeds, full texts, campaigns
    Collection           the scheduler's loop: backfill and ingest
    Enrichers            MITRE ATT&CK and deepdarkCTI
    Watchlist            matching, marks, alerts, notifications
    Accounts             sessions, log-in, administrators' requests
    *Proofs              theorems (ExtractionMachineInvariant: what they rest on)
    MC*                  small instances for TLC

Operators marked `(mutant)` are not the code: each is a change of one definition, as a
plausible mistake would make it, under which one property of the runs fails.

### TlpRouter, TlpRouterTask (`ai/router`, `ai/tlp.py`, `ai/budget.py`)

`choose` is `Router.choose` in its order: the size limit, the source's ban, the
privacy filter, the empty candidate set, then the budget. A registry is a sequence
(its order is the order of preference) of records with the tiers a provider serves,
whether it is local, and the price of one call. `coerce_tlp` reads anything it does
not recognise as AMBER+STRICT. `verdict` is `BudgetGuard.verdict` over integers:
four fifths of the day is the degraded fraction.

The router is stateless; `TlpRouterTask` gives it a task that is retried. The
actions are the ways the deployment changes, and they are of two kinds: those that
just happen (spend moves, a provider is registered, the prompt's size changes) and
those a person decides (marking, share flag, ceiling, consent). The history variable
`barred` remembers a privacy refusal until a person decides something.

### ExtractionMachine (`ai/state/machine.py`, `budget.py`, `audit.py`)

Two copies of the data: `db` is what is committed, `tx` what the session sees.
Every flush writes `tx`; `session.commit()` is `db' = tx`; a crash or rollback is
`tx' = db`. A `Store` holds the row of each of the eight states, and the sets of
states whose stored output validates (`usable`), was reconciled with the article
(`grounded`), stands on an output since replaced (`stale`), has its findings in
their tables, its columns on the article, an override's audit row naming it; and
the spend of the day and the month.

`pc` is where `run()` is:

| pc | code | leaves by |
|---|---|---|
| `idle` | nobody runs the article | `StartPass` |
| `scan` | the loop of `run` (339-357) | `Reuse`, `Reopen` |
| `ladder` | the head of the attempts (432-456) | `Refused`, `Unwired`, `Send`, `LadderUsed` |
| `calling` | inside `complete()` (459-511) | `TransportFails`, `BadAnswer`, `GoodAnswer`, `AskForRewrite` |
| `rewriting` | inside the second `complete()` (594) | `TakeRewrite`, `KeepFirstText` |
| `closing` | a row is closed, not committed (359) | `CommitState` |
| `ended` | `run` returned, the caller has not committed | `CallerCommits` |

Around it: `Crash` at any step, `OthersSpend` (another process on the same call log, during a
pass as well as between passes, admitted by what is committed), `NewDay`, `NewMonth`, `ClearProse`
(the manual restyle of `corpus_runner.py`) and `SchemaChange` (a deployment after
which a stored output no longer validates, as `_rehydrate` finds out).

What a provider answers is a choice: no answer, one the schema refuses, a good one,
a good one with prose the house style rejects. Prompts, texts and findings are not
represented; what matters of them are the sets above. A job fixes what does not
change during a pass, among it the set of states whose prompt is too large and the
providers wired in. What others log is taken to be committed at once, so that the session
of the pass sees it; what their own uncommitted calls would add is theirs to bound. The history
variable `beside` counts what they spent while a pass was on: between the guard's answer
and the call nothing keeps them from spending, so the bound on the logged spend is the
ceiling, one call, and that.

### AnalysisRows

The abstract specification of the rows: states are reached in order, a row is closed
with a status only when everything before it is finished, only the triage drops an
article, finished rows change only by a restyle or a schema change. `ExtractionMachine`
implements it under `rows <- db.rows, usable <- db.usable`: `ImplementsRows` is
checked by TLC and proved.

### AnalysisDriver (`ai/state/driver.py`, `pipeline/scheduler.py:150-182`)

An article is, following AnalysisRows, the length of its finished prefix and the
status of the row after it. The module is about the session shared by a batch: what
the machine's commit takes along, what a rollback throws away, what the gate leaves
uncommitted, and which articles are selected again. `Unserved` are the articles whose
triage the router gives to a provider `build_machine` never wires.

### ConfidenceGate (`ai/enrichment/gate.py`, `ai/confidence`)

`composite`, `apply_axes`, `Lifted` and `decide` are the four steps of `_record`, in
integers: scores in thousandths, factors in hundredths, rounded down where the code
keeps floating-point numbers. No property depends on a last digit: they compare scores
computed in the same way, or a score with a floor.

The state is what the gate reads and writes for one indicator and one technique that
several articles may report, and each article's narrative and sketch: the analysis left
behind, the `confidence` column of the two findings, the staged rows, the feeds' grades,
the floors the process was started with, the names the group table holds, and
`promoted`, the articles whose indicator was written to a group. `Gate(a)` is the whole
of `run_gate` over those. Around it is everything that makes gating again worth while:
the prose is restyled by hand and the judge asked again (`ClearProse`, `VerifyAgain`), an
analyst regrades a feed, the process is restarted with other floors or newer feeds
(`Retune`), a group's name arrives, another feed reports the same (`Analyse`).

`Confirmed` is `corroboration_for_ioc`: another feed holds the same. Where the research was
first published, `Origin`, is nothing the code knows; it is a constant of the instance, so that
`SyndicationIsNotConfirmation` can say what a comment promises of it.

Left out: what `apply_enrichment` writes besides the value itself, and alias proposals
(`Enrichment`); an article without a feed; a re-analysis from nothing, which is
another analysis.

### Grounding (`ai/extraction`, `_ground` of `ai/state/machine.py`)

A text is a sequence over a few letters, a dot and its defanged form, a dash, a blank, an
invisible character and an ellipsis. `Normal` is the normalisation that keeps, for each
character, the place it came from; `find_quote` cuts a quotation at its ellipses and takes
the leftmost place of each piece after the one before; `OnEdges` is the test that an
indicator is no part of a longer one; `_ground_iocs`, `_ground_ttps` (with the chase after
revoked techniques), the sketch and the diamond store what was found and drop the rest. The
body may be replaced at any time, as the full text does, and the catalogue too. The
reference the code is compared with, `WholeWords` and `Placings`, says what it is for a
quotation to stand in a text, without saying how to look for it. The regular expressions
that recognise an indicator are the constant `WellFormed`.

### Enrichment (`ai/enrichment`, `clients/ransomwhere.py`)

`stored` is the array field of each group, `audit` the table of audit rows in the order of
their ids, `proposals` the alias queue. `Enrich(a)` is the gate's pass over one article:
each name of the sketch is resolved (exactly, by approved aliases, then by ratio, and to
nobody when two groups answer), the indicators that are the group's own are appended where
they are fresh, one audit row a field, and synonyms are proposed. `Keep` is
Python's filter, the items of an array that are in a set, in their order; `WrittenBack` is what a
field holds once the first rows of a reversal have been written back. What is the group's own is
`exclusions.py`: platforms, the exact addresses and networks of the published lists, and
`_span_covering`, the bisection in the sorted spans of rented space. `Review` is the
analyst, `Revert(a)` writes the old values of the article's rows back, newest first, with a
row each. `FeedOverwrites` and `Ransomwhere` write the same fields without a row.

### Articles (`ai/sources`, `pipeline/scheduler.py:296-307`)

A feed has a version; what is stored of it are the validators of the last body that was
parsed. `draft` is the scheduler's transaction over all feeds; a feed that fails is left
out of it, a body cut short stores what it holds and its validators. `Batch` are the
oldest articles that hold a summary, up to the limit; a page gives a text, is refused, or
fails. A refused page stays in the backlog, so that as many of them as a batch holds would keep
every newer article from its text: `FullTextReached` is about the articles before which there are
fewer (`RefusedBefore`). `Sweep` is `scripts/corpus_runner.py`, over the same backlog in another process.
`Labels` is the clustering as the page computes it: a union-find over the pairs, series
excepted. The code collects the pairs in a Python set, so `Orders` are all the orders in
which they may come, and `CampaignsLinked` is stated for each of them.

### Collection (`pipeline/scheduler.py`, `backfill.py`, `ingest.py`)

`pc` is where the scheduler stands in its loop: the groups and years of the backfill, each
year committed and then marked, the attacks, the mark of the whole; or the incremental
ingest, in one transaction (`newItems`, `newGroups`) from the groups to the commit. A
refresh from the web is another process with the same ingest: it is seen by what it commits,
and, where it commits between the look and the insert of the scheduler, by the `Collision`
that aborts the scheduler's ingest. `Unkeyed` are the items no unique constraint guards:
victims without a key, and cyberattacks without a date. A group's detail that raises rolls everything back.
Signals are looked at between cycles and cut the wait short; a crash may come anywhere.

### Enrichers (`clients/mitre_attack.py`, `deepdarkcti.py`, `pipeline/source_evidence.py`)

A bundle of ATT&CK is a record of groups, techniques, software and relationships;
`parse_*` drop what is revoked or deprecated, `match_groups` finds the group a name is of,
by keys that are not too common, `Upsert` replaces a payload and archives the old one. A
bundle's groups are named by their positions, so that a filtered pass is a set of them, and
`Enriched` takes them in the bundle's order. The file of the etag and the cached bundle may name different versions. deepdarkCTI is read
file by file in one session; `Due` is the age of the last pass, `any_success` what decides
whether it is stamped. `AwareTimestamps` says which database it is: PostgreSQL gives a
time back with its zone, SQLite without.

### Watchlist (`matching.py`, `notifications`, `web/app.py`)

A refresh is a process of nine places, from the ingest through both scans and the commit
of alerts and marks to the notifications. Victims and targets get their identifiers when they are
inserted and become visible when their transaction commits, in another order perhaps. No route
writes a target's column `active`, and both scans filter on it: `SetActive` pauses and resumes. What is
under a mark when it commits, or is paused when a scan passes over it, is not looked at again by the code;
the history variable `passed` holds exactly those pairs, taken when it happens: a victim or a
target committed among what the marks, or a pass about to set them, have laid claim to
(`ClaimedVictims`, `ClaimedTargets`), and the paused targets' share of a scan. The five
queries of one fuzzy scan are one step, though what commits between two of them would be seen by the later
ones only; the query for the greatest victim and the marks read again are a step of their own. `Post` is one attempt of the webhook; after
`MAX_RETRIES` the batch is given up.

### Accounts (`web/app.py`, `web/sessions.py`)

A cookie is two ages, of the log-in and of the last renewal; `age` and `quiet` are the true
ones of the login it stems from. The middleware reads the account again on every request, and it is
wrapped around every handler, `login` and `logout` too: it reads the cookie that came in before
the handler, and after it sets the renewed one if that was due, or deletes it if it no
longer stood (`Middleware`, `Overrides`). So a logout after some quiet minutes leaves the renewed cookie, and a login
posted with an old cookie is overruled by what becomes of the old one. Both are modelled as they are;
`signed`, whom the last login or logout was to leave signed in, is what tells them from what was
asked. `Start` seeds an administrator into an empty table, or does not: the environment may name none. An administrator's request
is admitted, then checked against what is stored, then committed, each its own step, and
two are served at once. `raced` remembers that a decision was overtaken by another change,
until all are carried out and an administrator remained. The log-in back-off doubles up to
its cap; a restart forgets it.

## 3. The runs

On two workers the longest runs take up to three minutes.

| run | instance | states | asks |
|---|---|---|---|
| `MCTlpRouter` | the deployed registry of three providers | 31,692 | does anything cross the boundary without the consent it needs; does a retry release what privacy refused |
| `MCExtractionMachine` | eight states, two providers, five jobs | 586,093 | are the committed rows coherent, is anything paid twice, is spend bounded, are crossings audited; does it implement `AnalysisRows`; does a pass end |
| `MCAnalysisDriver` | three articles, batches of two, two states each, one crash | 7,098 | does a rollback ever take an analysis; does what can be served settle |
| `MCConfidenceGate` | two articles of one feed and one of another, three gatings, two interventions | 757,660 | does a score depend on the analysis alone, and span what was measured; does a sketch carry an indicator that would not pass by itself |
| `MCGrounding` | three bodies, four quotations, two catalogues | 8,424 | does a span show what was quoted; is anything refused that is there |
| `MCEnrichment` | two groups, two articles, two fields | 83,336 | is a group given only what is its own; does reverting restore; is an alias asked of the analyst once |
| `MCArticles` | two feeds, four articles, two pages refused, two a cycle, three versions of a feed | 322,514 | do validators hide anything; are campaigns what is linked; does the full text arrive |
| `MCCollection` | two years, five items, two of them under no constraint, three groups | 331,160 | is a marked year stored; does what stays listed arrive |
| `MCEnrichers` | two bundles, two groups, two rows of deepdarkCTI | 130,124 | is a technique supported by a standing relation; does a second pass change anything; is the refresh weekly |
| `MCWatchlist` | two refreshes and the scheduler, two targets, two victims | 5,865,700 | has every matching pair below the marks its alert; is what a channel is told stored |
| `MCAccounts` | two accounts, one browser, two requests at once | 1,230,988 | does a session keep its two limits; does an administrator remain |
| `RefreshedWeekly` | as `MCEnrichers`, on SQLite | | is the refresh weekly (it is not) |

**Why the bounds are enough.** The router's question is a product of small sets and is
explored whole; there is no bound. In the machine all eight states are there;
`Retries = 1` gives every ladder a retry, and the triage's ladder its change of tier;
the real number of retries only adds rungs of the kind already there. A call costs 4 against
ceilings of 5 a day and 9 a month: after one call the day is `degraded`, after two it is
`exhausted`, and the month is after three, of the pass or of others, in any order with the
rollovers; a call that overshoots leaves nothing to spare below the bound. The five jobs are one of
each kind the router tells apart (allowed, overridden marking, overridden source without
acknowledgement and with a prompt too large, unmarked, and a red one served locally). The schema change happens at most once:
that is where the two properties guarded by `upgraded` stop, by design of the code, so
a second change would show nothing. In the driver, three articles and batches of two
are the least for which an article waits; two states stand for eight since only the
length of the prefix matters; one crash, because a second meets the same states.
For the gate, three articles
are the least with a feed that repeats itself beside one that confirms it; a score can
differ from the one before it after two gatings, and the third and two interventions in
any order leave room for each to be undone. The two tunings move the indicator's floor up
and the others down, so that each side of each comparison occurs.

For grounding, the bodies put the words of a quotation inside other words and then
again as words, across a list marker, in another order, and beside an invisible character;
an indicator stands alone, defanged, and inside a longer one. In `MCEnrichment` the two groups
have names one letter apart, so that a misspelling answers to both; both articles propose
one alias; addresses lie inside a rented span, between two, and in front of a network; four
audit rows let an article be written twice and taken back after the other wrote.
In `MCArticles` three articles may wait for two pages a cycle, and two of them have pages that
are refused: the order decides, a refused page holds half a batch while the rest goes on, and both of them a whole one.
Three articles are also the least for two campaigns to meet in a third; one article is
carried by both feeds, and one is near another. In `MCCollection` a past year fails, collides or is
marked beside the current one, whose end is nobody's to promise, and the victim and the attack no constraint keys can
be inserted twice. `MCEnrichers`' second
bundle revokes a relation, adds a group under another name, and a software named after a
group; one row of deepdarkCTI is listed under an alias that arrives later. In `MCWatchlist`
two targets and two victims are the least for either to commit below one already scanned, and for two
scans to set one mark each. In `MCAccounts` the limits 5, 2, 1 keep
the order of the real ones (twelve hours, two hours, five minutes), so that either can end a
session first, a renewal can be skipped, and the absolute limit falls behind several renewals; two accounts are
the least that can remove each other. One browser is enough, since nothing about a cookie is
shared, and two sign in there in turn.

**Deadlock** is checked in every run but that of the gate, which stops when the bounds
on gatings and interventions are used up.

**Symmetry** is used where identities are only compared: the refreshes of `MCWatchlist`,
the requests and accounts of `MCAccounts`, both without liveness. Providers, articles and
groups are ordered.

### Properties, in one line each

* `NothingLeavesUnconsented`, `ReleasedOnlyByAPerson`: no retry crosses the boundary without consent, and money never releases what privacy refused.
* `CommittedTogether`: no crash separates a finished row from its findings and columns.
* `FinishedOnCurrentPriors`: no finished state stands on an output since replaced.
* `LoggedSpendWithinCeiling`: a ceiling is passed by less than one call, beyond what others logged during the pass.
* `CrossingsAudited`: whatever crosses has its audit row flushed first, the rewrite excepted.
* `NotPaidTwice`: no request for what is committed and usable.
* `ImplementsRows`: the machine implements `AnalysisRows`.
* `PassEnds`: a pass ends, whatever the providers do.
* `AnalysisStands`, `ServedSettle`: rollbacks never take an analysis away; what can be served settles.
* `RegatedIndicatorsAlike`: gating again gives an indicator the composite it had.
* `BetweenItsMeasurements`: a score is never outside what was measured, and what was measured on fewer signals does not score like what was measured on all.
* `OnlyTrustedPromoted`: no indicator reaches a group on the sketch's score: its own clears its own floors, in the pass that promotes it.
* `SpansQuote`: a stored span starts and ends where the quotation or the indicator does, as long as the body is the one that was read.
* `RefusedOnlyIfAbsent`: the greedy search refuses a quotation only when no search would find it.
* `ProposedOnce`: an alias of a group is put to a person once, whatever was decided.
* `RevertRestores`: reverting an article leaves a field as it was before the article first wrote it, unless others wrote since.
* `OnlyItsOwn`: nothing rented, nothing of a platform reaches a group, and nothing where there is nothing to check against.
* `NothingHidden`: a feed that answers "not modified" hides nothing.
* `CampaignsLinked`: campaigns are the connected components of the links, in whatever order pairs are compared.
* `FullTextReached`: once failures stop, an article that has a page gets its text, however many newer ones arrive, as long as the refused ones before it are fewer than a batch.
* `YearsStored`: a past year that is marked is stored.
* `PublishedArrive`: once failures stop, what stays listed is stored.
* `TechniquesSupported`: a group's technique was said of it by a relation that stood.
* `NoChurn`: enriching twice from one bundle is enriching once, history included, and no archived payload was replaced by the same.
* `RefreshedWeekly`: what deepdarkCTI goes on listing arrives, also for groups and aliases that came later.
* `ScannedPairsAlerted`: below both marks every matching pair has its alert, unless it was committed under a mark or passed over while its target was paused.
* `ToldIsStored`: no channel is told of an alert that is not in the database.
* `SessionWindow`: whichever cookie a browser is left with stands within both limits of the login it stems from, and within them, less what a renewal skips, it stands.
* `AdminRemains`: an active administrator remains, unless two decisions overlapped.

The type invariants carry the constraints of the tables: one row per indicator and
technique (`Grounding`), one article per address (`Articles`), one row per keyed item and
its group with it (`Collection`), at most one copy of an alert per concurrent refresh
(`Watchlist`), at most two of a location, which nothing makes unique (`Enrichers`), arrays
without duplicates (`Enrichment`).

### Where the code and its documentation disagree

One disagreement is a run that TLC must find violated: `RefreshedWeekly` on SQLite. The
freshness check of `deepdarkcti.py:387-389` compares the stored time of the last pass with
an aware one; SQLite gives the stored one back naive, and the comparison raises, on the
second pass and on every one after. `docs/FAQ.md:143-144` says the enrichments refresh
weekly, and `docs/FAQ.md:265` offers SQLite; `scheduler.py:115-116` shows the coercion that
is missing. `ransomwhere.py:166-169` has the same comparison.

The others are stated as formulas in the modules, where a run of them fails, or were found
by reading.

| formula | says | what happens |
|---|---|---|
| `ExtractionMachine!StoredIsGrounded` | `machine.py:660` "the reconciled set, never the proposal" | the rewrite is stored ungrounded |
| `ExtractionMachine!EveryCallLogged` | `README.md:59` "every call logged" | the rewrite's call is not |
| `ExtractionMachine!CrashLeavesEvidence` | `audit.py:53` "a crash mid-call leaves evidence" | the row was only flushed |
| `AnalysisDriver!EveryArticleSettles` | `driver.py:13` "a condition that ends" | a provider that is never wired does not end |
| `AnalysisDriver!EveryAnalysedIsGated` | `driver.py:257` "can be redone for free on the next pass" | there is no next pass for an analysed article |
| `AnalysisDriver!NeighboursKeepTheirScores` | `driver.py:227` "must not cost the rest of the batch" | a rollback takes the neighbour's scores |
| `ConfidenceGate!RegatedTechniquesAlike` | `gate.py:15` "Idempotent" | the total replaces the self-report and is read back as one |
| `ConfidenceGate!SyndicationIsNotConfirmation` | `grading.py:103-107` "three write-ups of one vendor's research republished by three outlets are one source's claim" (`tests/ai/test_grading.py:241` too, of one feed) | distinct feeds are counted (`grading.py:292-302`): a second outlet's republication confirms |
| `Watchlist!MarkMeansScanned` | `matching.py:16-18` "already scanned by every target" | the marks are the greatest identifiers at the end; a victim or a target committed late, below them, was never scanned |
| `Accounts!AsSignedIn` | `tests/test_auth_web.py:177-187` a logout's "cookie was invalidated client-side" (asserted right after a login) | if the cookie is due for renewal, the middleware sets the renewed one after the handler deleted it (`app.py:174-175`, `194-195`) |
| `Accounts!LoginIsNew` | `app.py:463` "a brand-new token on every login" | if the login came with a cookie due for renewal, the renewed old one is set over it; with one that no longer stands, both are deleted (`app.py:194-197`) |
| `Accounts!LastAdminProtected` | `docs/FAQ.md:283-284` the last administrator is protected | two overlapping requests each remove one of the last two |

The gate can be run by hand over everything that is analysed (`corpus_runner.py:400`), which
is how `EveryAnalysedIsGated` is repaired in practice, and how `RegatedTechniquesAlike`
bites: every such run scores a technique on the total of the run before.

By reading only:

* A rewrite crosses the boundary a second time on one audit row (`audit.py:51` asks for one
  per crossing). A `pending` row is never committed, so no crash leaves one (`machine.py:159`
  says it does). `composite.py:35-36` still says that the weights do not renormalise, which
  the docstring of `Components` (99-101) takes back.
* `docs/FAQ.md:414` says a failing source retries on the next cycle; `backfill.py:111` marks
  the whole backfill done after a year failed, and nothing asks for that year again.
* `mitre_attack.py:7-8` says newly ingested groups are matched; `_filter_modified_since` drops
  the objects that did not change since the last pass, so a group that arrives later waits
  for MITRE to edit it.
* `tables.py:607-609` says a span indexes into the article's body; the full text replaces the
  body and leaves the spans. `SpansQuote` is stated for the body that was read.
* `clustering.py` says two documents of different series are never joined; a third joins them.
* `rss.py:83-84` says a malformed body cannot poison the cache; one that is cut short but holds
  entries is stored with its validators. `NothingHidden` excepts it (`cut`).
* A second reversal of one audit row writes the old value again, over whatever came since.
* Two groups of ATT&CK that match one group archive each other's payload in every pass;
  `NoChurn` excepts it.

## 4. Fairness, and why the code justifies it

* `ExtractionMachine`: `WF(Machine)`. Inside `run()` the thread is scheduled, and every
  provider call has a timeout. Nothing is assumed about what the provider answers, nor
  that anyone starts a pass.
* `AnalysisDriver`: `WF(Step)`, for the scheduler's loop, and for each article strong
  fairness of `Settle` (closing its row with an output or a settling status) and of
  `GateScores`. An outage and an exhausted budget are conditions that end: a state asked
  again in every batch is answered in the end. The action is disabled for an article
  no wired provider serves, so the assumption gives nothing away where the code has
  none to give.

* `Collection`, `Articles`, `Enrichers`: `WF(Cycle)`, for the loop that goes on. Failures,
  signals, restarts and other writers are outside `Cycle`, and what must arrive is stated
  under "from some time on no step is a failure" (`<>[][~Failure]_vars`), since a source
  that fails for ever keeps everything from arriving.
* The other modules state safety only, and no fairness.

## 5. What is proved

TLAPS proves the following for every value of the constants: any registry, any number
of retries, any prices and ceilings, any set of jobs. The only assumptions are the
types of the constants and what the tables and the published lists guarantee of them (`RegistryAssumption`, `MachineAssumption`, `DriverAssumption`,
`GroundingAssumption`, `GateAssumption`, `CollectionAssumption`, `AccountsAssumption`, `WatchlistAssumption`,
`EnrichmentAssumption`, `ArticlesAssumption`, `EnrichersAssumption`), which TLC evaluates in
the runs. Some theorems state more than the runs check again: that rows are a prefix and a prompt
has its priors, that the driver keeps its types, counts every article once and scores only
what was analysed, that a local run is judged more strictly.

* `ExtractionMachineProofs`, the router's part: `TaskTypeCorrect`, `Consented`,
  `OnlyAPersonReleases`, `PrivacyBeforeMoney`, of `TaskSpec`. They rest on lemmas about
  `choose`: a nonempty set of naturals has a least element, so the preferred provider is a
  candidate; `choose` is typed; an answer that asks for an audit row is exactly one that crosses.
* `ExtractionMachineProofs`, the machine's part: all safety properties of the run, from one
  inductive invariant, `IInv` (`ExtractionMachineInvariant`). The properties alone are not
  inductive: that the rows are a prefix needs to be known of the session's copy and of
  the committed one; that a commit keeps it needs to be known that the two differ in
  the row of the current state only (`OneOpenRow`); that the spend stays bounded needs
  to be known that a call in flight was cleared by the budget, but for what others logged since (`CallCleared`, `beside`); that a
  crossing is audited needs the audit row to be there *while* the call is in flight
  (`TrailInv`). TLC checked `IInv` on the instance of `MCExtractionMachine` before it
  was proved. `NotPaidTwice` is an action property and follows from the same invariant.
  `MachineImplementsRows`: under the invariant, `CommitState` is a `CloseRow`, `ClearProse`
  and `SchemaChange` are their abstract counterparts, and every other step, the crash
  included, is a stutter: it does not touch `db`.
* `AnalysisDriverProofs`: `AnalysisStands`; the types, that only what was analysed is scored
  (`OnlyAnalysedGated`), that a batch's books balance, and that what is settled stays so; for any articles, batch size, number of states and number of crashes. `DriverInv` adds what the
  properties need and do not say: the session differs from what is committed only in the
  gate's work, nothing left in the batch is settled, the article in hand is one of the
  batch and pending until it is gated, and it is the one taken and not yet counted. That
  the newest article of a batch exists is `GreatestMember`: a finite nonempty set of
  naturals has a greatest one, from the least size a counterexample could have.
* `FindingsProofs`, grounding: all properties of `MCGrounding`, `GroundingTypeOK`, `SpansQuote` and
  `RefusedOnlyIfAbsent`, for any letters, bodies, indicators, catalogues and answers. The invariant
  `GroundingInv` says of the tables what `reconcile` leaves in them: indicators that `scan` finds in the body they
  were read from, techniques anchored in theirs, once each, and quotations that some model gave; the
  body of the moment does not come into it, which is why a replaced body cannot break it. The rest is
  about the operators. `NormalIs`: the normal text is typed and its places go forward through the raw
  one. `SearchEnds`: the search of `find_quote` stands, after `i` pieces, behind a
  placing of them that ends no later than any other, or has failed and there is none (`Sought`).
  So the leftmost choice needs no going back (`FoundIfPlaced`), and its span is that of a placing
  (`FoundWherePlaced`). An indicator is stored once since the span kept is the first of its key
  (`ScannedOnce`); a technique once since `Seen` holds what was kept (`MappedKeeps`). The assumption
  asks that an indicator is not the empty text and that answers have the types of their schemas.
* `FindingsProofs`, the gate: all properties of `MCConfidenceGate`, for any articles, feeds,
  analyses and tunings, and any number of gatings. The invariant `GateInv` says of each
  staged indicator that its composite is that of its article's analysis under the judge's
  verdict stored with it: what makes it inductive is that an analysis keeps what the indicator is
  scored on (`AnalysisOnlyGrows`). `BetweenItsMeasurements` is arithmetic over the weights: a
  weighted mean lies between the least and the greatest of its terms, rounding down included
  (`WeightedSpans`, `CompositeSpans`). `OnlyTrustedPromoted` needs the types,
  that what is gated was analysed, and that floors lifted for a local model are never below those set. That a composite stays on
  its scale is arithmetic over the four sums of weights the kinds have.

* `PipelineProofs`, what is collected: the types, the tables' constraints among them, and `YearsStored`, for any
  items, groups and years. `FlushInv` says that what the session has flushed may still be
  inserted when it commits, whatever the other process committed in the meantime, and that
  nothing is flushed while the backfill runs; `YearInv` that the source keeps its past and that
  a year about to be marked is already committed.
* `AccountsProofs`: `TypeOK` and `SessionWindow` for any limits, and `AdminRemains` for any number of
  accounts and of requests. That a lockout never passes its cap rests on `Doubled`, the back-off as a
  recursive function: it exists and is typed by induction over the failures (`AllNaturals`), and
  what is doubled is cut at the cap before it is used. A cookie's log-in time is the true one and its last activity lags by at most what
  a renewal skips (`InWindow`); that is so of the cookie a handler sets, of the one the middleware
  puts in its place, and of none. An administrator remains because a decision is `Sound`: the row it
  was taken on is still there, and whoever it removes is not the last; only another decision
  carried out in between can break that, and that is what `raced` remembers.

* `PipelineProofs`, who is told: `TypeOK`, `ScannedPairsAlerted` and `ToldIsStored`, for any number of refreshes,
  targets and victims. `WatchInv` says of each refresh, place by place, what its reads still tell
  it when it acts on them: that the pairs it holds have an alert or will get one of it, and that what it is
  about to tell is stored. Marks come from several passes, one may set the victims' and another
  the targets', so the heart of it is about two claimants at a time (`Covered`; the marks as they stand are a
  claimant too): a match of a target the one claims with a victim the other claims has its alert, or
  will have it by one of the two, or is excepted by the history. That a pair has at most one
  copy for each refresh is `AlertsBounded`: the copies there are, and the refreshes that may still add one
  (`Adders`), are together never more than the refreshes. `MarkMeansScanned`, which the module states of
  the doc's words, is false and is no part of it.
* `EnrichmentProofs`: `TypeOK`, `OnlyItsOwn`, `ProposedOnce` and the action property `RevertRestores`, for
  any groups, articles, sketches, published ranges and number of passes. The bisection of
  `_span_covering` is shown to find the one span that may cover an address (so `covers` is
  membership in some span), under the assumption that the spans do not overlap and none ends
  before it begins, which is what `from_entries` and the source make of them. A reversal restores because of `PastKnown`: what a field
  held before an article first wrote it is the old value of the article's first row about it, as long as
  nobody else has written the field (`past`, a history variable), and that row is the last to be
  written back. That arrays come
  without duplicates rests on the constraint of `article_iocs`, which the assumption states.
* `ArticlesProofs`: `TypeOK`, `NothingHidden` and `CampaignsLinked`, for any feeds, articles, limits and
  versions. `IInv` says that validators promise (`Promised`) in the transaction as in the tables:
  a current version of a feed whose body was whole has all it lists stored or near something stored, and
  no validators name a version yet to come; so a change of a feed breaks its promise before it could
  be wrong, and a crash falls back on a promise that was kept. That one pass over the entries keeps
  it is the induction `AllAddedKeeps`; that the entries are what the feed lists, each once, is counted
  (`EntriesAreListed`). `CampaignsCorrect` is the correctness of the union-find: parents never point
  forward, so each article has one root (`FindRoots`); writing a root under an earlier one moves exactly its tree
  (`UnionJoins`); each union keeps every article linked to its root and leaves no compared link between two
  trees (`UnionLinks`, `ParentsLink`); and `_renumber` tells roots apart since the campaigns before one are
  fewer than those before a later one (`LabelsTellRoots`). Being linked is stated without paths, by sets closed
  under links, so that no induction over paths is needed.
* `EnrichersProofs`: `TypeOK`, `TechniquesSupported` and `NoChurn`, for any groups, bundles, names and rows.
  `IInv` adds that the scheduler enriches from a bundle it has, that a page it has flushed is stored once
  at most (`OnceMore`: what lets the other process add one copy, and no more), and that an archive is
  `Orderly`: no payload in it was replaced by the same, nor by nothing. A pass is a loop over the
  bundle's groups (`PassRuns`), and what it does to a group is an induction over their positions
  (`PassInduction`). `NoChurn` compares two such loops: after the first, what each match brings is there
  (`PassAbsorbs`), so the second writes no alias, technique or tool (`PassAgain`); the country of the
  second follows that of the first or is its last (`SameCountry`); and the payload of a group's only
  match is its evidence (`OnlyEvidence`), so it is not archived again (`SameEvidence`).

**Only model-checked**: the liveness properties `PassEnds`, `ServedSettle`, `FullTextReached`,
`PublishedArrive` and `RefreshedWeekly`, since the prover does no ENABLED. Every safety and
action property of the runs is proved.

## 6. What is not modelled, and why

* Texts: prompts, the rules of the house style, the regular expressions of indicators, how near
  two names or two summaries are. They are computations on strings with tests of their own;
  their outcomes are choices or constants. `_ground_classify`, which lowers a confidence, is
  left out of `Grounding`.
* Time: a day, a month, a back-off. They are actions, or ages that stop at the last limit they
  are compared with.
* SQLite's locking, and threads inside the database.
* HTTP, HTML, STIX, embeddings and migrations; `identity.py`, which only reads, for a report.
* Writes of two sessions to one group's array or one payload at the same moment: both read,
  change and write the whole, and one of the two is lost.
* What a group's detail writes (`_enrich_group_from_detail`), the columns of deepdarkCTI's tables
  and the status of its pages, the transactions of a wallet, the flag of a lone high-impact
  field, which no caller reaches.
* Health: each check is one query and a comparison. `health.py:130` leaves its verdict to the
  caller to commit, and the caller does not.
* Pages of the web application, service keys, the activity log.

## 7. Plan

What would add most next:

1. **Scheduler**: `Collection`, `Articles`, `Enrichers` and `AnalysisDriver` composed in one loop, where a
   failure of one job must not keep the next from its turn.
2. **Writers of one group**: `apply_enrichment`, a detail and Ransomwhere in two sessions, with the
   update that is lost between them.
3. **Health**, small: the backup verdict and who commits it.
