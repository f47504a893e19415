------------------------------ MODULE Collection ------------------------------
(***************************************************************************)
(* What fills the database: the scheduler's loop (pipeline/scheduler.py),  *)
(* which backfills a source year by year (backfill.py), then ingests what  *)
(* it lists as recent (ingest.py).  One source is registered               *)
(* (clients/ransomware_live.py).  What enriches the groups stored so far   *)
(* is in Enrichers.tla.                                                    *)
(*                                                                         *)
(* A refresh from the web runs the same ingest in another process; it is   *)
(* seen here by what it commits between two steps of the scheduler.        *)
(*                                                                         *)
(* An item is what the duplicate check tells apart: a victim by its domain *)
(* and date of attack, a cyberattack by its victim and date.               *)
(***************************************************************************)
EXTENDS Naturals

CONSTANTS
  Victims, Attacks,  \* items
  Unkeyed,           \* those with a null domain or date: no constraint sees them
  YearOf,            \* the year of a victim, counted from BACKFILL_FIRST_YEAR
  LastYear,          \* the current year
  Groups, GroupOf,   \* groups, and the one a victim is claimed by
  Listed             \* groups the source lists

Items == Victims \cup Attacks
Years == 1..LastYear

ASSUME CollectionAssumption ==
  /\ Victims \cap Attacks = {} /\ Unkeyed \subseteq Items
  /\ LastYear \in Nat \ {0} /\ YearOf \in [Victims -> Years]
  /\ GroupOf \in [Victims -> Groups] /\ Listed \subseteq Groups

VARIABLES
  published, recent, \* items the source has, and those of its recent lists
  rows,              \* copies of an item in the database
  groups,            \* groups in the database
  yearDone, backDone,\* backfill_year and backfill_complete
  pc, year,          \* where the scheduler stands
  newGroups, newItems, \* what its ingest has flushed and not committed
  stop               \* a signal was received

source == <<published, recent>>
store == <<rows, groups, yearDone, backDone>>
session == <<newGroups, newItems>>
collectionVars == <<source, store, pc, year, session, stop>>

Steps == {"top", "bgroups", "year", "mark", "bmark", "groups", "victims", "attacks",
          "details", "commit", "wait", "stopped"}

\* A database that was never filled; the past years are published already.
CollectionInit == /\ published = {v \in Victims : YearOf[v] < LastYear} /\ recent = {}
        /\ rows = [i \in Items |-> 0] /\ groups = {} /\ yearDone = {} /\ backDone = FALSE
        /\ pc = "top" /\ year = 1 /\ newGroups = {} /\ newItems = {}
        /\ stop = FALSE

-----------------------------------------------------------------------------
(* The source publishes.                                                   *)

Publish(i) == /\ i \notin published
              /\ published' = published \cup {i} /\ recent' = recent \cup {i}
              /\ UNCHANGED <<store, pc, year, session, stop>>

\* The recent lists are short: an item leaves them.
Slide(i) == /\ i \in recent
            /\ recent' = recent \ {i}
            /\ UNCHANGED <<published, store, pc, year, session, stop>>

-----------------------------------------------------------------------------
(* Storing what was fetched: what is there already is skipped, and a       *)
(* victim brings its group along.                                          *)

GroupsOf(S) == {GroupOf[v] : v \in S \cap Victims}
\* (mutant) The check looks at what the session flushed, not at the table.
UnstoredHere(S) == {i \in S : i \notin newItems}

Unstored(S) == {i \in S : rows[i] = 0 /\ i \notin newItems}
Stored(S) == [i \in Items |-> IF i \in S THEN rows[i] + 1 ELSE rows[i]]

\* A refresh commits these items and groups (all the listed ones, or none when
\* that endpoint failed): it waits for a row the scheduler has flushed.
Inserts(its, gs) == (gs \cup GroupsOf(its)) \ groups
RefreshCommits(its, gs) ==
  /\ its \subseteq {i \in recent : rows[i] = 0}
  /\ its \cap newItems \subseteq Unkeyed
  /\ Inserts(its, gs) \cap newGroups = {}
  /\ rows' = Stored(its)
  /\ groups' = groups \cup Inserts(its, gs)

RefreshIngest == \E its \in SUBSET recent, gs \in {{}, Listed} :
  /\ its # {} \/ gs # {}
  /\ RefreshCommits(its, gs)
  /\ UNCHANGED <<source, yearDone, backDone, pc, year, session, stop>>

\* Between the check and the flush of S a refresh commits one of them, or a
\* group one of them brings: the constraint is violated, and nothing in the
\* ingest of victims catches it.
Collision(S) == \E its \in SUBSET recent, gs \in {{}, Listed} :
  /\ \/ (its \cap S) \ Unkeyed # {}
     \/ Inserts(its, gs) \cap GroupsOf(S) # {}
  /\ RefreshCommits(its, gs)
  /\ newGroups' = {} /\ newItems' = {} /\ pc' = "wait" /\ year' = 1
  /\ UNCHANGED <<source, yearDone, backDone, stop>>

-----------------------------------------------------------------------------
(* The loop, and the backfill of a source that was never filled.           *)

Top == /\ pc = "top"
       /\ pc' = IF stop THEN "stopped" ELSE IF backDone THEN "groups" ELSE "bgroups"
       /\ UNCHANGED <<source, store, year, session, stop>>

BackfillGroups == /\ pc = "bgroups"
                  /\ \/ groups' = groups \cup Listed
                     \/ UNCHANGED groups    \* SourceError
                  /\ pc' = "year" /\ year' = 1
                  /\ UNCHANGED <<source, rows, yearDone, backDone, session, stop>>

InYear == {v \in published \cap Victims : YearOf[v] = year}

SkipYear == /\ pc = "year" /\ year \in yearDone
            /\ year' = year + 1
            /\ UNCHANGED <<source, store, pc, session, stop>>

BackfillYear == /\ pc = "year" /\ year \in Years \ yearDone
                /\ rows' = Stored(Unstored(InYear))
                /\ groups' = groups \cup GroupsOf(Unstored(InYear))
                /\ pc' = "mark"
                /\ UNCHANGED <<source, yearDone, backDone, year, session, stop>>

\* (mutant) A year that failed is marked like one that was stored.
YearFailsMarked == /\ pc = "year" /\ year \in Years \ yearDone
                   /\ pc' = "mark"
                   /\ UNCHANGED <<source, store, year, session, stop>>

\* SourceError: the year is left unmarked.
YearFails == /\ pc = "year" /\ year \in Years \ yearDone
             /\ year' = year + 1
             /\ UNCHANGED <<source, store, pc, session, stop>>

MarkYear == /\ pc = "mark"
            /\ yearDone' = yearDone \cup {year}
            /\ year' = year + 1 /\ pc' = "year"
            /\ UNCHANGED <<source, rows, groups, backDone, session, stop>>

OldAttacks == Unstored(published \cap Attacks)

BackfillAttacks == /\ pc = "year" /\ year > LastYear
                   /\ rows' = Stored(OldAttacks)
                   /\ pc' = "bmark"
                   /\ UNCHANGED <<source, groups, yearDone, backDone, year, session, stop>>

AttacksFail == /\ pc = "year" /\ year > LastYear /\ OldAttacks # {}
               /\ pc' = "bmark"
               /\ UNCHANGED <<source, store, year, session, stop>>

BackfillCollides == /\ pc = "year" /\ year \notin yearDone
                    /\ Collision(IF year > LastYear THEN OldAttacks ELSE Unstored(InYear))

\* Whatever failed before.
MarkBackfill == /\ pc = "bmark"
                /\ backDone' = TRUE
                /\ pc' = "wait" /\ year' = 1
                /\ UNCHANGED <<source, rows, groups, yearDone, session, stop>>

-----------------------------------------------------------------------------
(* The incremental ingest: one transaction, an endpoint that fails is left *)
(* out, a collision on a listed group is absorbed by its savepoint.        *)

FetchGroups == /\ pc = "groups"
               /\ newGroups' \in {{}, Listed \ groups}
               /\ pc' = "victims"
               /\ UNCHANGED <<source, store, year, newItems, stop>>

NewVictims == Unstored(recent \cap Victims)
NewAttacks == Unstored(recent \cap Attacks)

FetchVictims == /\ pc = "victims"
                /\ newItems' = NewVictims
                /\ newGroups' = newGroups \cup (GroupsOf(NewVictims) \ groups)
                /\ pc' = "attacks"
                /\ UNCHANGED <<source, store, year, stop>>

FetchAttacks == /\ pc = "attacks"
                /\ newItems' = newItems \cup NewAttacks
                /\ pc' = "details"
                /\ UNCHANGED <<source, store, year, newGroups, stop>>

\* SourceError (with nothing new listed, it is no different from an answer).
EndpointFails == /\ \/ pc = "victims" /\ NewVictims # {} /\ pc' = "attacks"
                    \/ pc = "attacks" /\ NewAttacks # {} /\ pc' = "details"
                 /\ UNCHANGED <<source, store, year, session, stop>>

IngestCollides == \/ pc = "victims" /\ Collision(NewVictims)
                  \/ pc = "attacks" /\ Collision(NewAttacks)

\* The detail of every stale group is asked for; what it enriches is not
\* modelled.
Details == /\ pc = "details"
           /\ pc' = "commit"
           /\ UNCHANGED <<source, store, year, session, stop>>

\* One of them raises: the rollback takes the whole ingest with it, and the
\* commit that follows commits nothing of it.
DetailRaises == /\ pc = "details" /\ groups \cup newGroups # {}
                /\ newGroups \cup newItems # {}
                /\ pc' = "commit"
                /\ newGroups' = {} /\ newItems' = {}
                /\ UNCHANGED <<source, store, year, stop>>

\* (mutant) The commit is left to whoever opened the session, who closes it.
CommitForgotten == /\ pc = "commit"
                   /\ newGroups' = {} /\ newItems' = {}
                   /\ pc' = "wait"
                   /\ UNCHANGED <<source, store, year, stop>>

Commit == /\ pc = "commit"
          /\ rows' = Stored(newItems) /\ groups' = groups \cup newGroups
          /\ newGroups' = {} /\ newItems' = {}
          /\ pc' = "wait"
          /\ UNCHANGED <<source, yearDone, backDone, year, stop>>

-----------------------------------------------------------------------------
(* The wait between two cycles, which a signal cuts short; crashes.        *)

Wait == /\ pc = "wait"
        /\ pc' = "top"
        /\ UNCHANGED <<source, store, year, session, stop>>

Signal == /\ ~stop /\ pc # "stopped"
          /\ stop' = TRUE
          /\ UNCHANGED <<source, store, pc, year, session>>

\* The process dies with its session, or is started again after it stopped.
Restart == /\ pc \notin {"top", "wait"}
           /\ pc' = "top" /\ year' = 1 /\ stop' = FALSE
           /\ newGroups' = {} /\ newItems' = {}
           /\ UNCHANGED <<source, store>>

Cycle == \/ Top \/ BackfillGroups \/ SkipYear \/ BackfillYear \/ MarkYear \/ BackfillAttacks
         \/ MarkBackfill \/ FetchGroups \/ FetchVictims \/ FetchAttacks \/ Details \/ Commit
         \/ Wait

Failure == \/ YearFails \/ AttacksFail \/ BackfillCollides \/ EndpointFails \/ IngestCollides \/ DetailRaises
           \/ Signal \/ Restart

Others == \/ \E i \in Items : Publish(i) \/ Slide(i)
          \/ RefreshIngest

CollectionNext == Cycle \/ Failure \/ Others

\* The scheduler goes on with its loop.
CollectionSpec == CollectionInit /\ [][CollectionNext]_collectionVars /\ WF_collectionVars(Cycle)

-----------------------------------------------------------------------------
CollectionTypeOK ==
  /\ recent \subseteq published /\ published \subseteq Items
  /\ rows \in [Items -> 0..2] /\ \A i \in Items \ Unkeyed : rows[i] <= 1
  /\ groups \subseteq Groups /\ GroupsOf({i \in Items : rows[i] > 0}) \subseteq groups
  /\ yearDone \subseteq Years /\ backDone \in BOOLEAN
  /\ pc \in Steps /\ year \in 1..(LastYear + 1)
  /\ newGroups \subseteq Groups \ groups /\ newItems \subseteq Items
  /\ stop \in BOOLEAN

\* A past year is marked done only when all its victims are in the database,
\* whatever failed, collided or crashed before (backfill.py: _mark_year_done
\* after the commit, and never after a SourceError).
YearsStored == \A v \in Victims :
  YearOf[v] \in yearDone /\ YearOf[v] < LastYear => rows[v] > 0

\* If from some time on nothing fails, an item the source goes on listing as
\* recent is stored, unless a signal stops the loop (ingest_source, called every cycle by _scheduler_loop).
PublishedArrive ==
  (<>[][~Failure]_collectionVars) =>
    \A i \in Items : (i \in recent) ~> (rows[i] > 0 \/ i \notin recent \/ stop)
=============================================================================
