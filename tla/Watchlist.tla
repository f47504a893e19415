------------------------------ MODULE Watchlist -------------------------------
(***************************************************************************)
(* Matching the watchlist against the victims (matching.py, and            *)
(* web/app.py's _check_watchlist, called by every refresh).  A refresh     *)
(* ingests a source, matches every target against every victim by          *)
(* substring, then fuzzily, and this second scan is incremental: two       *)
(* high-water marks say what it need not look at again.  What was found is *)
(* committed, and then told to the notification channel.                   *)
(*                                                                         *)
(* Several refreshes may run at once, beside the scheduler, which ingests  *)
(* and never matches.  The database is the deployed one (PostgreSQL): a    *)
(* query sees what is committed and what its own session has flushed, ids  *)
(* come from a sequence in the order of the inserts, and transactions      *)
(* commit in any order, those of the watchlist too.                        *)
(*                                                                         *)
(* The queries of one scan are one step here, and so are those about the   *)
(* marks; what commits between two of them would be seen by the later one  *)
(* only.                                                                   *)
(***************************************************************************)
EXTENDS Naturals, FiniteSets, FiniteSetsExt

CONSTANTS
  Refreshers,   \* concurrent requests to /api/v1/refresh
  Scheduler,    \* the process that ingests on its own
  MaxTarget,    \* bound: watchlist entries ever added
  MaxVictim,    \* bound: victims ever inserted
  Exact, Fuzzy, \* the pairs (target, victim) each scan matches
  MAX_RETRIES   \* notifications/webhook_channel.py

Targets == 1..MaxTarget
VictimIds == 1..MaxVictim
Pairs == Targets \X VictimIds
Writers == Refreshers \cup {Scheduler}

ASSUME WatchlistAssumption ==
  /\ IsFiniteSet(Refreshers) /\ Scheduler \notin Refreshers
  /\ MaxTarget \in Nat /\ MaxVictim \in Nat
  /\ Exact \subseteq Pairs /\ Fuzzy \subseteq Pairs
  /\ MAX_RETRIES \in Nat \ {0}

VARIABLES
  seq,          \* the last victim id the sequence gave
  flushed,      \* per writer, victims inserted and not committed
  victims,      \* committed victims
  newest,       \* the last target id given
  adding,       \* targets inserted and not committed
  watch,        \* the watchlist
  paused,       \* those of it that are not active
  alerts,       \* committed alerts, per pair
  vmark, tmark, \* watchlist_victim_hwm and watchlist_target_hwm
  pass,         \* per refresh, where it stands and what it holds
  passed        \* history: pairs that came, or were paused, under a mark (below)

table == <<seq, flushed, victims, newest, adding, watch, paused>>
vars == <<table, alerts, vmark, tmark, pass, passed>>

-----------------------------------------------------------------------------
Idle == [pc |-> "idle", targets |-> {}, pairs |-> {}, found |-> {},
         vread |-> 0, tread |-> 0, vmax |-> 0, tmax |-> 0, attempt |-> 0]

Pass == [pc : {"idle", "ingesting", "checking", "matching", "fuzzy", "marking",
               "committing", "loading", "telling"},
         targets : SUBSET Targets,   \* the targets of the first scan
         pairs   : SUBSET Pairs,     \* existing_pairs
         found   : SUBSET Pairs,     \* alerts of this pass, then the events sent
         vread : 0..MaxVictim, tread : 0..MaxTarget,  \* the marks as read
         vmax  : 0..MaxVictim, tmax  : 0..MaxTarget,  \* and as they will be set
         attempt : 0..MAX_RETRIES]

Init == /\ seq = 0 /\ victims = {} /\ flushed = [w \in Writers |-> {}]
        /\ newest = 0 /\ adding = {} /\ watch = {} /\ paused = {}
        /\ alerts = [p \in Pairs |-> 0]
        /\ vmark = 0 /\ tmark = 0
        /\ pass = [r \in Refreshers |-> Idle]
        /\ passed = {}

-----------------------------------------------------------------------------
(* What the scans have laid claim to: all targets up to the one mark and   *)
(* all victims up to the other, or as much as a pass between its fuzzy     *)
(* scan and its commit will set the marks to.                              *)

Scanning(p) == p.pc \in {"marking", "committing"}

\* A pass that has not read the greatest victim id will read it later still.
Reaches(p, v) == Scanning(p) /\ (p.pc = "committing" => v <= p.vmax)

ClaimedTargets == {t \in Targets : t <= tmark \/ \E r \in Refreshers :
                                      Scanning(pass[r]) /\ t <= pass[r].tmax}
ClaimedVictims == {v \in VictimIds : v <= vmark \/ \E r \in Refreshers : Reaches(pass[r], v)}

-----------------------------------------------------------------------------
(* The watchlist.                                                          *)

\* Its id is given at the insert, and others add at the same time.
AddTarget == /\ newest < MaxTarget
             /\ newest' = newest + 1
             /\ adding' = adding \cup {newest'}
             /\ UNCHANGED <<seq, flushed, victims, watch, paused, alerts, vmark, tmark, pass, passed>>

CommitTarget(t) ==
  /\ t \in adding
  /\ adding' = adding \ {t}
  /\ watch' = watch \cup {t}
  /\ passed' = passed \cup (Fuzzy \cap (({t} \cap ClaimedTargets) \X (victims \cap ClaimedVictims)))
  /\ UNCHANGED <<seq, flushed, victims, newest, paused, alerts, vmark, tmark, pass>>

\* The column active: no route of the program writes it, and every scan reads
\* it.
SetActive(t) == /\ t \in watch
                /\ paused' = IF t \in paused THEN paused \ {t} ELSE paused \cup {t}
                /\ UNCHANGED <<seq, flushed, victims, newest, adding, watch, alerts, vmark, tmark, pass, passed>>

Active == watch \ paused

\* Alerts a pass has flushed hold the rows they refer to.
Holding(r) == pass[r].pc \in {"fuzzy", "marking", "committing"}
Referred(t) == \E r \in Refreshers : Holding(r) /\ \E p \in pass[r].found : p[1] = t

\* Deleting a target deletes its alerts with it, and waits for a pass that has
\* inserted one.
DeleteTarget(t) == /\ t \in watch
                   /\ ~Referred(t)
                   /\ watch' = watch \ {t} /\ paused' = paused \ {t}
                   /\ alerts' = [p \in Pairs |-> IF p[1] = t THEN 0 ELSE alerts[p]]
                   /\ passed' = {p \in passed : p[1] # t}
                   /\ UNCHANGED <<seq, flushed, victims, newest, adding, vmark, tmark, pass>>

-----------------------------------------------------------------------------
(* Ingestion, seen from here: victims inserted now and committed later.    *)

Insert(w) == /\ seq < MaxVictim
             /\ w \in Refreshers => pass[w].pc = "ingesting"
             /\ seq' = seq + 1
             /\ flushed' = [flushed EXCEPT ![w] = @ \cup {seq'}]
             /\ UNCHANGED <<victims, newest, adding, watch, paused, alerts, vmark, tmark, pass, passed>>

CommitIngest(w) ==
  /\ IF w \in Refreshers
     THEN /\ pass[w].pc = "ingesting"
          /\ pass' = [pass EXCEPT ![w].pc = "checking"]
     ELSE /\ flushed[w] # {} /\ UNCHANGED pass
  /\ victims' = victims \cup flushed[w]
  /\ passed' = passed \cup (Fuzzy \cap ((watch \cap ClaimedTargets) \X (flushed[w] \cap ClaimedVictims)))
  /\ flushed' = [flushed EXCEPT ![w] = {}]
  /\ UNCHANGED <<seq, newest, adding, watch, paused, alerts, vmark, tmark>>

\* The ingest raises: a rollback, and the refresh goes on to its next source.
RollBackIngest(w) ==
  /\ IF w \in Refreshers
     THEN /\ pass[w].pc = "ingesting"
          /\ pass' = [pass EXCEPT ![w] = Idle]
     ELSE /\ flushed[w] # {} /\ UNCHANGED pass
  /\ flushed' = [flushed EXCEPT ![w] = {}]
  /\ UNCHANGED <<seq, victims, newest, adding, watch, paused, alerts, vmark, tmark, passed>>

StartRefresh(r) == /\ pass[r].pc = "idle"
                   /\ pass' = [pass EXCEPT ![r].pc = "ingesting"]
                   /\ UNCHANGED <<table, alerts, vmark, tmark, passed>>

-----------------------------------------------------------------------------
(* One pass of _check_watchlist: r's private steps.                        *)

Step(r, next) == pass' = [pass EXCEPT ![r] = next] /\ UNCHANGED table

\* The targets, and the pairs that have an alert.
ReadPairs(r) == /\ pass[r].pc = "checking"
                /\ Step(r, IF Active = {} THEN Idle
                           ELSE [Idle EXCEPT !.pc = "matching", !.targets = Active,
                                             !.pairs = {p \in Pairs : alerts[p] > 0}])
                /\ UNCHANGED <<alerts, vmark, tmark, passed>>

\* The substring scan, over every victim.  An alert of a target deleted in the
\* meantime cannot be inserted: the pass raises, and nothing of it is kept.
MatchExactly(r) ==
  LET p == pass[r]
      hits == ((p.targets \X victims) \cap Exact) \ p.pairs
  IN  /\ p.pc = "matching"
      /\ Step(r, IF \E h \in hits : h[1] \notin watch THEN Idle
                 ELSE [p EXCEPT !.pc = "fuzzy", !.targets = {}, !.found = hits, !.pairs = @ \cup hits])
      /\ UNCHANGED <<alerts, vmark, tmark, passed>>

\* (mutant) targets added since are taken for seen
UnseenForgotten(targets) == targets \X {v \in victims : v > vmark}

\* What a fuzzy scan looks at of these targets: seen ones against the victims
\* above the mark, new ones against all.
Unseen(targets) == ({t \in targets : t <= tmark} \X {v \in victims : v > vmark})
                   \cup ({t \in targets : t > tmark} \X victims)

\* A paused target is passed over, for good where the marks will pass it too.
MatchFuzzily(r) ==
  LET p == pass[r]
      hits == (Unseen(Active) \cap Fuzzy) \ p.pairs
      over == {t \in watch \cap paused : t \in ClaimedTargets \/ t <= Max(Active)}
  IN  /\ p.pc = "fuzzy"
      /\ IF Active = {}
         THEN Step(r, [p EXCEPT !.pc = "committing", !.pairs = {}]) /\ UNCHANGED passed
         ELSE /\ Step(r, [p EXCEPT !.pc = "marking", !.found = @ \cup hits, !.pairs = {},
                                   !.tmax = Max(Active)])
              /\ passed' = passed \cup (Unseen(over) \cap Fuzzy)
      /\ UNCHANGED <<alerts, vmark, tmark>>

\* The highest victim id, by a query of its own after the scan, and the two
\* marks as _set_hwm reads them again.
ReadMark(r) == /\ pass[r].pc = "marking"
               /\ Step(r, [pass[r] EXCEPT !.pc = "committing", !.vmax = Max(victims \cup {0}),
                                          !.vread = vmark, !.tread = tmark])
               /\ UNCHANGED <<alerts, vmark, tmark, passed>>

\* (mutant) the channel is told first
TellFirst(r) ==
  LET p == pass[r]
  IN  /\ p.pc = "committing"
      /\ Step(r, IF p.found = {} THEN Idle ELSE [Idle EXCEPT !.pc = "telling", !.found = p.found])
      /\ UNCHANGED <<alerts, vmark, tmark, passed>>

\* One commit for the alerts and the marks; a mark set to the value it was
\* read with is not written.
CommitPass(r) ==
  LET p == pass[r]
  IN  /\ p.pc = "committing"
      /\ alerts' = [q \in Pairs |-> alerts[q] + (IF q \in p.found THEN 1 ELSE 0)]
      /\ vmark' = IF p.vmax = p.vread THEN vmark ELSE p.vmax
      /\ tmark' = IF p.tmax = p.tread THEN tmark ELSE p.tmax
      /\ Step(r, IF p.found = {} THEN Idle
                 ELSE [Idle EXCEPT !.pc = "loading", !.found = p.found])
      /\ UNCHANGED passed

-----------------------------------------------------------------------------
(* dispatch_alerts, after the commit.                                      *)

\* Only what still exists is told.
LoadEvents(r) ==
  LET events == {p \in pass[r].found : alerts[p] > 0}
  IN  /\ pass[r].pc = "loading"
      /\ Step(r, IF events = {} THEN Idle
                 ELSE [pass[r] EXCEPT !.pc = "telling", !.found = events])
      /\ UNCHANGED <<alerts, vmark, tmark, passed>>

\* (mutant) a retry too many
PostAgain(r, answered) ==
  LET p == pass[r]
  IN  /\ p.pc = "telling"
      /\ Step(r, IF answered \/ p.attempt = MAX_RETRIES + 1 THEN Idle
                 ELSE [p EXCEPT !.attempt = @ + 1])
      /\ UNCHANGED <<alerts, vmark, tmark, passed>>

\* A post is answered or not; unanswered -- it may have been received all the
\* same -- it is repeated, MAX_RETRIES times in all, and then only logged.
Post(r, answered) ==
  LET p == pass[r]
  IN  /\ p.pc = "telling"
      /\ Step(r, IF answered \/ p.attempt + 1 = MAX_RETRIES THEN Idle
                 ELSE [p EXCEPT !.attempt = @ + 1])
      /\ UNCHANGED <<alerts, vmark, tmark, passed>>

\* No deliverable address is configured.
Undeliverable(r) == /\ pass[r].pc = "telling" /\ pass[r].attempt = 0
                    /\ Step(r, Idle)
                    /\ UNCHANGED <<alerts, vmark, tmark, passed>>

\* The web process dies with every request in it.
Crash == /\ pass' = [r \in Refreshers |-> Idle]
         /\ flushed' = [w \in Writers |-> IF w \in Refreshers THEN {} ELSE flushed[w]]
         /\ adding' = {}
         /\ UNCHANGED <<seq, victims, newest, watch, paused, alerts, vmark, tmark, passed>>

Next == \/ AddTarget
        \/ \E t \in Targets : CommitTarget(t) \/ SetActive(t) \/ DeleteTarget(t)
        \/ \E w \in Writers : Insert(w) \/ CommitIngest(w) \/ RollBackIngest(w)
        \/ \E r \in Refreshers :
             \/ StartRefresh(r) \/ ReadPairs(r) \/ MatchExactly(r) \/ MatchFuzzily(r)
             \/ ReadMark(r) \/ CommitPass(r) \/ LoadEvents(r) \/ Undeliverable(r)
             \/ \E answered \in BOOLEAN : Post(r, answered)
        \/ Crash

Spec == Init /\ [][Next]_vars

-----------------------------------------------------------------------------
\* The types of the variables.  _check_watchlist reads the pairs that have an
\* alert before it inserts, and nothing in the database makes a pair unique:
\* concurrent refreshes may alert the same pair once each, but no refresh adds
\* to what another had committed when it looked, however many ran before.
TypeOK == /\ seq \in 0..MaxVictim /\ victims \subseteq 1..seq
          /\ flushed \in [Writers -> SUBSET (1..seq)]
          /\ newest \in 0..MaxTarget /\ adding \subseteq 1..newest
          /\ watch \subseteq (1..newest) \ adding /\ paused \subseteq watch
          /\ alerts \in [Pairs -> 0..Cardinality(Refreshers)]
          /\ vmark \in 0..MaxVictim /\ tmark \in 0..newest
          /\ pass \in [Refreshers -> Pass]
          /\ passed \subseteq Fuzzy

\* The two marks (matching.py): below both, every match has its alert -- across
\* targets added, paused and deleted, passes that fail and passes that overlap.
\* Excepted are the pairs whose victim or target was committed under a mark, or
\* one about to be set, and those of a paused target that a scan passed over:
\* what comes to the same target above the marks is not excepted.
ScannedPairsAlerted ==
  \A t \in watch, v \in victims :
    (t <= tmark /\ v <= vmark /\ <<t, v>> \in Fuzzy \ passed) => alerts[<<t, v>>] > 0

\* matching.py:16-18: the mark is the "highest victim id already scanned by
\* every target that existed at the time".
MarkMeansScanned ==
  \A t \in watch, v \in victims :
    (t <= tmark /\ v <= vmark /\ <<t, v>> \in Fuzzy) => alerts[<<t, v>>] > 0

\* dispatch_alerts runs after the commit and reads the alerts again: what is
\* being told has an alert in the database, unless its target is gone.
ToldIsStored == \A r \in Refreshers : pass[r].pc = "telling" =>
                  \A p \in pass[r].found : p[1] \in watch => alerts[p] > 0
=============================================================================
