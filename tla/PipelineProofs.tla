---------------------------- MODULE PipelineProofs ----------------------------
(***************************************************************************)
(* What holds of what is collected, and of who is told.                    *)
(*                                                                         *)
(* Of Collection, for any items, groups and years: its types, the          *)
(* constraints of the tables among them, and that a past year that is      *)
(* marked is stored.  Of Watchlist, for any number of concurrent           *)
(* refreshes, any targets, victims and matches, and any number of retries: *)
(* the marks hide nothing a scan could see, concurrent refreshes alert a   *)
(* pair once each at most, and the channel is told of what is stored.      *)
(* Fairness plays no part in either.                                       *)
(***************************************************************************)
EXTENDS Collection, Watchlist, FiniteSetTheorems, WellFoundedInduction, TLAPS

-----------------------------------------------------------------------------
(* Collection: the invariant.                                              *)

\* What was flushed may still be inserted, and brings its groups along.
FlushInv == /\ newItems # {} => pc \in {"attacks", "details", "commit"}
            /\ newGroups # {} => pc \in {"victims", "attacks", "details", "commit"}
            /\ \A i \in newItems : rows[i] <= 1 /\ (i \notin Unkeyed => rows[i] = 0)
            /\ GroupsOf(newItems) \subseteq groups \cup newGroups

\* The source does not change its past, and a year about to be marked is
\* already committed.
YearInv == /\ \A v \in Victims : YearOf[v] < LastYear => v \in published
           /\ pc = "mark" => year \in Years
           /\ \A v \in Victims : pc = "mark" /\ YearOf[v] = year /\ year < LastYear => rows[v] > 0
           /\ YearsStored

CollectionInv == CollectionTypeOK /\ FlushInv /\ YearInv

-----------------------------------------------------------------------------
(* Inserting.                                                              *)

Insertable(S) == \A i \in S : rows[i] <= 1 /\ (i \notin Unkeyed => rows[i] = 0)

LEMMA UnstoredInsertable ==
  ASSUME CollectionTypeOK, NEW S \in SUBSET Items
  PROVE  Unstored(S) \in SUBSET Items /\ Insertable(Unstored(S))
  BY DEF CollectionTypeOK, Unstored, Insertable

\* Rows are inserted and never deleted, and no constraint is violated.
LEMMA StoredRows ==
  ASSUME CollectionTypeOK, NEW S \in SUBSET Items, Insertable(S)
  PROVE  /\ Stored(S) \in [Items -> 0..2]
         /\ \A i \in Items \ Unkeyed : Stored(S)[i] <= 1
         /\ \A i \in Items : rows[i] > 0 \/ i \in S <=> Stored(S)[i] > 0
         /\ \A i \in Items \ S : Stored(S)[i] = rows[i]
  BY DEF CollectionTypeOK, Stored, Insertable

LEMMA GroupsOfTyped == \A S : GroupsOf(S) \subseteq Groups
  BY CollectionAssumption DEF GroupsOf

\* The groups of what is stored are there if those of what is inserted are.
LEMMA StoredGroups ==
  ASSUME CollectionTypeOK, NEW S \in SUBSET Items, Insertable(S),
         NEW G, groups \subseteq G, GroupsOf(S) \subseteq G
  PROVE  GroupsOf({i \in Items : Stored(S)[i] > 0}) \subseteq G
<1>1. \A v \in Victims : Stored(S)[v] > 0 => rows[v] > 0 \/ v \in S
  BY StoredRows DEF Items
<1>2. \A v \in Victims : rows[v] > 0 => GroupOf[v] \in groups
  BY DEF CollectionTypeOK, GroupsOf, Items
<1> QED
  BY <1>1, <1>2 DEF GroupsOf

\* A step that only inserts keeps a year stored.
LEMMA YearsStay ==
  ASSUME CollectionTypeOK, YearInv, NEW S \in SUBSET Items, Insertable(S), rows' = Stored(S),
         UNCHANGED yearDone
  PROVE  YearsStored'
  BY StoredRows DEF YearInv, YearsStored, Items

LEMMA Initially == CollectionInit => CollectionInv
<1> SUFFICES ASSUME CollectionInit PROVE CollectionInv
  OBVIOUS
<1>1. \A i \in Items : rows[i] = 0
  BY DEF CollectionInit
<1>2. rows \in [Items -> 0..2] /\ year \in 1..(LastYear + 1)
  BY CollectionAssumption DEF CollectionInit
<1>3. GroupsOf({i \in Items : rows[i] > 0}) = {}
  BY <1>1 DEF GroupsOf
<1>4. CollectionTypeOK
  <2>1. recent \subseteq published /\ published \subseteq Items
    BY DEF CollectionInit, Items
  <2>2. \A i \in Items \ Unkeyed : rows[i] <= 1
    BY <1>1
  <2>3. backDone \in BOOLEAN /\ stop \in BOOLEAN
    BY DEF CollectionInit
  <2>4. pc \in Steps /\ groups = {} /\ yearDone = {} /\ newGroups = {} /\ newItems = {}
    BY DEF CollectionInit, Steps
  <2> QED
    BY <1>2, <1>3, <2>1, <2>2, <2>3, <2>4 DEF CollectionTypeOK
<1>5. FlushInv
  BY DEF CollectionInit, FlushInv, GroupsOf
<1>6. YearInv
  BY DEF CollectionInit, YearInv, YearsStored
<1> QED
  BY <1>4, <1>5, <1>6 DEF CollectionInv

-----------------------------------------------------------------------------
(* The others.                                                             *)

LEMMA PublishKeeps ==
  ASSUME CollectionInv, NEW i \in Items, Publish(i) \/ Slide(i)
  PROVE  CollectionInv'
  BY DEF CollectionInv, Publish, Slide, CollectionTypeOK, FlushInv, YearInv, YearsStored, GroupsOf, store, session

\* What a refresh commits.
LEMMA RefreshRows ==
  ASSUME CollectionInv, NEW its \in SUBSET recent, NEW gs \in {{}, Listed}, RefreshCommits(its, gs)
  PROVE  /\ rows' \in [Items -> 0..2] /\ \A i \in Items \ Unkeyed : rows'[i] <= 1
         /\ \A i \in Items : rows[i] > 0 => rows'[i] > 0
         /\ \A i \in newItems : rows'[i] <= 1 /\ (i \notin Unkeyed => rows'[i] = 0)
         /\ groups \subseteq groups' /\ groups' \subseteq Groups
         /\ GroupsOf({i \in Items : rows'[i] > 0}) \subseteq groups'
         /\ newGroups \subseteq Groups \ groups'
<1>1. its \in SUBSET Items /\ Insertable(its) /\ CollectionTypeOK
  BY DEF CollectionInv, CollectionTypeOK, RefreshCommits, Insertable
<1>2. gs \subseteq Groups /\ GroupsOf(its) \subseteq Groups
  BY CollectionAssumption, GroupsOfTyped
<1>3. rows' = Stored(its) /\ groups' = groups \cup gs \cup GroupsOf(its)
  BY DEF RefreshCommits, Inserts
<1>4. \A i \in newItems : rows'[i] <= 1 /\ (i \notin Unkeyed => rows'[i] = 0)
  <2> SUFFICES ASSUME NEW i \in newItems PROVE rows'[i] <= 1 /\ (i \notin Unkeyed => rows'[i] = 0)
    OBVIOUS
  <2>1. CASE i \in its
    BY <1>1, <1>3, <2>1 DEF RefreshCommits, Stored, CollectionTypeOK
  <2>2. CASE i \notin its
    BY <1>1, <1>3, <2>2, StoredRows DEF CollectionInv, FlushInv, CollectionTypeOK
  <2> QED
    BY <2>1, <2>2
<1>5. GroupsOf({i \in Items : rows'[i] > 0}) \subseteq groups'
  BY <1>1, <1>3, StoredGroups
<1> QED
  BY <1>1, <1>2, <1>3, <1>4, <1>5, StoredRows DEF CollectionTypeOK, RefreshCommits

LEMMA RefreshKeeps == CollectionInv /\ RefreshIngest => CollectionInv'
<1> SUFFICES ASSUME CollectionInv, RefreshIngest PROVE CollectionInv'
  OBVIOUS
<1>1. PICK its \in SUBSET recent, gs \in {{}, Listed} : RefreshCommits(its, gs)
  BY DEF RefreshIngest
<1>2. UNCHANGED <<source, yearDone, backDone, pc, year, session, stop>>
  BY DEF RefreshIngest
<1>3. CollectionTypeOK'
  BY <1>1, <1>2, RefreshRows DEF CollectionInv, CollectionTypeOK, source, session
<1>4. FlushInv'
  BY <1>1, <1>2, RefreshRows DEF CollectionInv, FlushInv, GroupsOf, session
<1>5. YearInv'
  BY <1>1, <1>2, RefreshRows DEF CollectionInv, YearInv, YearsStored, Items, source
<1> QED
  BY <1>3, <1>4, <1>5 DEF CollectionInv

LEMMA CollisionKeeps ==
  ASSUME CollectionInv, NEW S, Collision(S)
  PROVE  CollectionInv'
<1>1. PICK its \in SUBSET recent, gs \in {{}, Listed} : RefreshCommits(its, gs)
  BY DEF Collision
<1>2. /\ UNCHANGED <<source, yearDone, backDone, stop>>
      /\ newGroups' = {} /\ newItems' = {} /\ pc' = "wait" /\ year' = 1
  BY DEF Collision
<1>3. 1 \in 1..(LastYear + 1)
  BY CollectionAssumption
<1>4. CollectionTypeOK'
  BY <1>1, <1>2, <1>3, RefreshRows DEF CollectionInv, CollectionTypeOK, Steps, source
<1>5. FlushInv'
  BY <1>2 DEF FlushInv, GroupsOf
<1>6. YearInv'
  BY <1>1, <1>2, RefreshRows DEF CollectionInv, YearInv, YearsStored, Items, source
<1> QED
  BY <1>4, <1>5, <1>6 DEF CollectionInv

-----------------------------------------------------------------------------
(* The backfill.  Nothing is flushed while it runs.                        *)

LEMMA YearStepsKeep ==
  ASSUME CollectionInv, SkipYear \/ YearFails \/ MarkYear
  PROVE  CollectionInv'
<1>1. year \in Years /\ year + 1 \in 1..(LastYear + 1)
  BY CollectionAssumption DEF CollectionInv, YearInv, CollectionTypeOK, SkipYear, YearFails, MarkYear, Years
<1>2. CollectionTypeOK'
  BY <1>1 DEF CollectionInv, CollectionTypeOK, SkipYear, YearFails, MarkYear, Steps, source, store, session
<1>3. FlushInv'
  BY DEF CollectionInv, FlushInv, SkipYear, YearFails, MarkYear, store, session, GroupsOf
<1>4. YearInv'
  BY DEF CollectionInv, YearInv, YearsStored, SkipYear, YearFails, MarkYear, source, store
<1> QED
  BY <1>2, <1>3, <1>4 DEF CollectionInv

LEMMA BackfillYearKeeps ==
  ASSUME CollectionInv, BackfillYear
  PROVE  CollectionInv'
<1> DEFINE S == Unstored(InYear)
<1>1. InYear \in SUBSET Items /\ CollectionTypeOK
  BY DEF InYear, Items, CollectionInv
<1>2. S \in SUBSET Items /\ Insertable(S)
  BY <1>1, UnstoredInsertable
<1>3. newItems = {} /\ newGroups = {} /\ UNCHANGED <<source, yearDone, backDone, year, session, stop>>
      /\ rows' = Stored(S) /\ groups' = groups \cup GroupsOf(S) /\ pc' = "mark" /\ year \in Years
  BY DEF BackfillYear, CollectionInv, FlushInv
<1> HIDE DEF S
<1>4. CollectionTypeOK'
  <2>1. GroupsOf({i \in Items : rows'[i] > 0}) \subseteq groups'
    BY <1>1, <1>2, <1>3, StoredGroups
  <2> QED
    BY <1>1, <1>2, <1>3, <2>1, StoredRows, GroupsOfTyped DEF CollectionTypeOK, Steps, source, session
<1>5. FlushInv'
  BY <1>3 DEF FlushInv, session, GroupsOf
<1>6. YearInv'
  <2>1. ASSUME NEW v \in Victims, YearOf[v] = year, year < LastYear PROVE rows'[v] > 0
    <3>1. v \in InYear /\ v \in Items
      BY <2>1 DEF CollectionInv, YearInv, InYear, Items
    <3>2. rows[v] > 0 \/ v \in S
      BY <1>3, <3>1 DEF S, Unstored, CollectionInv, CollectionTypeOK
    <3> QED
      BY <1>1, <1>2, <1>3, <3>1, <3>2, StoredRows
  <2>2. YearsStored'
    BY <1>1, <1>2, <1>3, YearsStay DEF CollectionInv
  <2> QED
    BY <1>3, <2>1, <2>2 DEF CollectionInv, YearInv, source
<1> QED
  BY <1>4, <1>5, <1>6 DEF CollectionInv

LEMMA BackfillAttacksKeeps ==
  ASSUME CollectionInv, BackfillAttacks
  PROVE  CollectionInv'
<1> DEFINE S == OldAttacks
<1>1. S \in SUBSET Items /\ Insertable(S) /\ GroupsOf(S) = {} /\ CollectionTypeOK
  <2>1. published \cap Attacks \in SUBSET Items /\ CollectionTypeOK
    BY DEF CollectionInv, Items
  <2> QED
    BY <2>1, UnstoredInsertable, CollectionAssumption DEF OldAttacks, GroupsOf, Unstored
<1>2. newItems = {} /\ newGroups = {} /\ UNCHANGED <<source, groups, yearDone, backDone, year, session, stop>>
      /\ rows' = Stored(S) /\ pc' = "bmark"
  BY DEF BackfillAttacks, CollectionInv, FlushInv
<1> HIDE DEF S
<1>3. CollectionTypeOK'
  <2>1. GroupsOf({i \in Items : rows'[i] > 0}) \subseteq groups'
    BY <1>1, <1>2, StoredGroups
  <2> QED
    BY <1>1, <1>2, <2>1, StoredRows DEF CollectionTypeOK, Steps, source, session
<1>4. FlushInv'
  BY <1>2 DEF FlushInv, session, GroupsOf
<1>5. YearInv'
  BY <1>1, <1>2, YearsStay DEF CollectionInv, YearInv, source
<1> QED
  BY <1>3, <1>4, <1>5 DEF CollectionInv

-----------------------------------------------------------------------------
(* The incremental ingest.                                                 *)

LEMMA FetchGroupsKeeps ==
  ASSUME CollectionInv, FetchGroups
  PROVE  CollectionInv'
<1>1. newItems = {}
  BY DEF FetchGroups, CollectionInv, FlushInv
<1> QED
  BY <1>1, CollectionAssumption
  DEF FetchGroups, CollectionInv, CollectionTypeOK, FlushInv, YearInv, YearsStored, GroupsOf, Steps, source, store

LEMMA FetchVictimsKeeps ==
  ASSUME CollectionInv, FetchVictims
  PROVE  CollectionInv'
<1>1. recent \cap Victims \in SUBSET Items /\ CollectionTypeOK
  BY DEF CollectionInv, Items
<1>2. NewVictims \in SUBSET Items /\ Insertable(NewVictims)
  BY <1>1, UnstoredInsertable DEF NewVictims
<1>3. CollectionTypeOK'
  BY <1>1, <1>2, GroupsOfTyped DEF FetchVictims, CollectionTypeOK, Steps, source, store
<1>4. FlushInv'
  BY <1>2 DEF FetchVictims, FlushInv, Insertable, store, GroupsOf
<1>5. YearInv'
  BY DEF FetchVictims, CollectionInv, YearInv, YearsStored, source, store
<1> QED
  BY <1>3, <1>4, <1>5 DEF CollectionInv

LEMMA FetchAttacksKeeps ==
  ASSUME CollectionInv, FetchAttacks
  PROVE  CollectionInv'
<1>1. recent \cap Attacks \in SUBSET Items /\ CollectionTypeOK
  BY DEF CollectionInv, Items
<1>2. NewAttacks \in SUBSET Items /\ Insertable(NewAttacks)
  BY <1>1, UnstoredInsertable DEF NewAttacks
<1>3. GroupsOf(newItems \cup NewAttacks) = GroupsOf(newItems)
  BY CollectionAssumption DEF GroupsOf, NewAttacks, Unstored
<1>4. CollectionTypeOK'
  BY <1>1, <1>2 DEF FetchAttacks, CollectionTypeOK, Steps, source, store
<1>5. FlushInv'
  <2>1. GroupsOf(newItems)' = GroupsOf(newItems')
    BY DEF GroupsOf
  <2> QED
    BY <1>2, <1>3, <2>1 DEF FetchAttacks, CollectionInv, FlushInv, Insertable, store
<1>6. YearInv'
  BY DEF FetchAttacks, CollectionInv, YearInv, YearsStored, source, store
<1> QED
  BY <1>4, <1>5, <1>6 DEF CollectionInv

LEMMA CommitKeeps ==
  ASSUME CollectionInv, Commit
  PROVE  CollectionInv'
<1>1. CollectionTypeOK /\ newItems \in SUBSET Items /\ Insertable(newItems)
      /\ GroupsOf(newItems) \subseteq groups \cup newGroups
  BY DEF CollectionInv, CollectionTypeOK, FlushInv, Insertable
<1>2. /\ rows' = Stored(newItems) /\ groups' = groups \cup newGroups
      /\ newGroups' = {} /\ newItems' = {} /\ pc' = "wait"
      /\ UNCHANGED <<source, yearDone, backDone, year, stop>>
  BY DEF Commit
<1>3. CollectionTypeOK'
  <2>1. GroupsOf({i \in Items : rows'[i] > 0}) \subseteq groups'
    BY <1>1, <1>2, StoredGroups
  <2> QED
    BY <1>1, <1>2, <2>1, StoredRows DEF CollectionTypeOK, Steps, source
<1>4. FlushInv'
  BY <1>2 DEF FlushInv, GroupsOf
<1>5. YearInv'
  BY <1>1, <1>2, YearsStay DEF CollectionInv, YearInv, source
<1> QED
  BY <1>3, <1>4, <1>5 DEF CollectionInv

-----------------------------------------------------------------------------
\* Steps that write nothing of an ingest, or throw away what it flushed.
LEMMA QuietStepsKeep ==
  ASSUME CollectionInv,
         \/ Top \/ BackfillGroups \/ MarkBackfill \/ AttacksFail \/ EndpointFails \/ Details
         \/ DetailRaises \/ Wait \/ Signal \/ Restart
  PROVE  CollectionInv'
<1>1. 1 \in 1..(LastYear + 1)
  BY CollectionAssumption
<1>2. CASE Top \/ AttacksFail \/ EndpointFails \/ Details \/ Wait \/ Signal
  BY <1>2 DEF CollectionInv, CollectionTypeOK, FlushInv, YearInv, YearsStored, GroupsOf, Steps, source, store,
     session, Top, AttacksFail, EndpointFails, Details, Wait, Signal
<1>3. CASE BackfillGroups
  <2>1. newItems = {} /\ newGroups = {}
    BY <1>3 DEF BackfillGroups, CollectionInv, FlushInv
  <2> QED
    BY <1>1, <1>3, <2>1, CollectionAssumption DEF CollectionInv, CollectionTypeOK, FlushInv, YearInv, YearsStored,
       GroupsOf, Steps, source, session, BackfillGroups
<1>4. CASE MarkBackfill \/ DetailRaises \/ Restart
  BY <1>1, <1>4 DEF CollectionInv, CollectionTypeOK, FlushInv, YearInv, YearsStored, GroupsOf, Steps, source,
     store, session, MarkBackfill, DetailRaises, Restart
<1> QED
  BY <1>2, <1>3, <1>4

LEMMA StepKeeps == CollectionInv /\ [CollectionNext]_collectionVars => CollectionInv'
<1> SUFFICES ASSUME CollectionInv, [CollectionNext]_collectionVars PROVE CollectionInv'
  OBVIOUS
<1>1. CASE Cycle
  BY <1>1, QuietStepsKeep, YearStepsKeep, BackfillYearKeeps, BackfillAttacksKeeps, FetchGroupsKeeps,
     FetchVictimsKeeps, FetchAttacksKeeps, CommitKeeps DEF Cycle
<1>2. CASE Failure
  BY <1>2, QuietStepsKeep, YearStepsKeep, CollisionKeeps DEF Failure, BackfillCollides, IngestCollides
<1>3. CASE Others
  BY <1>3, PublishKeeps, RefreshKeeps DEF Others
<1>4. CASE UNCHANGED collectionVars
  BY <1>4 DEF collectionVars, source, store, session, CollectionInv, CollectionTypeOK, FlushInv, YearInv,
     YearsStored, GroupsOf
<1> QED
  BY <1>1, <1>2, <1>3, <1>4 DEF CollectionNext

LEMMA AlwaysInv == CollectionSpec => []CollectionInv
  BY Initially, StepKeeps, PTL DEF CollectionSpec

\* The tables keep their constraints, whatever collides: an item with a key is
\* there once, and its group is there with it.
THEOREM CollectionTypeCorrect == CollectionSpec => []CollectionTypeOK
  BY AlwaysInv, PTL DEF CollectionInv

\* backfill.py: for any number of years, a past year is marked only when all
\* its victims are stored, whatever failed, collided or crashed.
THEOREM MarkedYearsAreStored == CollectionSpec => []YearsStored
<1>1. CollectionInv => YearsStored
  BY DEF CollectionInv, YearInv
<1> QED
  BY <1>1, AlwaysInv, PTL

-----------------------------------------------------------------------------
(* Watchlist: the invariant.                                               *)

\* What the marks lay claim to, as if a pass that found nothing were to set them.
Marks == [Idle EXCEPT !.pc = "committing", !.tmax = tmark, !.vmax = vmark]

Claimants == {pass[r] : r \in Refreshers} \cup {Marks}

\* Marks come from several passes: if one claims the target and another the
\* victim, a match that no history excepts has its alert, or will have it by one
\* of the two.
Covered(p, q) ==
  Scanning(p) => \A t \in watch, v \in victims :
    t <= p.tmax /\ Reaches(q, v) /\ <<t, v>> \in Fuzzy \ passed
      => alerts[<<t, v>>] > 0 \/ <<t, v>> \in p.found \cup q.found

Good(p) ==
  /\ p \in Pass /\ p.tmax <= newest /\ p.attempt < MAX_RETRIES
  /\ \A x \in p.pairs \cup p.found : x[1] <= newest /\ x[1] \notin adding
  /\ p.pc \in {"fuzzy", "marking", "committing"} => \A x \in p.found : x[1] \in watch
  /\ p.pc \in {"matching", "fuzzy"} =>
       /\ \A x \in p.pairs : x[1] \in watch => alerts[x] > 0 \/ x \in p.found
       /\ p.tmax = 0 /\ p.vmax = 0
  /\ p.pc = "matching" => p.found = {}
  /\ p.pc = "telling" => \A x \in p.found : x[1] \in watch => alerts[x] > 0

Tables ==
  /\ seq \in 0..MaxVictim /\ victims \in SUBSET (1..seq)
  /\ flushed \in [Writers -> SUBSET (1..seq)]
  /\ newest \in 0..MaxTarget /\ adding \in SUBSET (1..newest)
  /\ watch \in SUBSET ((1..newest) \ adding) /\ paused \in SUBSET watch
  /\ alerts \in [Pairs -> Nat]
  /\ vmark \in 0..MaxVictim /\ tmark \in 0..newest
  /\ passed \in SUBSET Fuzzy
  /\ \A x \in Pairs : alerts[x] > 0 => x[1] \in watch

WatchInv == /\ Tables
            /\ pass \in [Refreshers -> Pass]
            /\ \A r \in Refreshers : Good(pass[r])
            /\ \A p, q \in Claimants : Covered(p, q)

\* The refreshes that may still add an alert for a pair: those that hold one,
\* and those that will look and have not read that there is one.
MayAlert(p, x) == \/ p.pc \in {"fuzzy", "marking", "committing"} /\ x \in p.found
                  \/ p.pc \in {"matching", "fuzzy"} /\ x \notin p.pairs

Adders(x) == {r \in Refreshers : MayAlert(pass[r], x)}

AlertsBounded == \A x \in Pairs : alerts[x] + Cardinality(Adders(x)) <= Cardinality(Refreshers)

-----------------------------------------------------------------------------
(* Maxima.                                                                 *)

\* A nonempty set of naturals below a bound has a greatest member, and Max is it.
LEMMA MaxIsGreatest ==
  ASSUME NEW n \in Nat, NEW S \in SUBSET (0..n), S # {}
  PROVE  Max(S) \in S /\ \A y \in S : y <= Max(S)
<1> DEFINE R == {ss \in Nat \X Nat : ss[1] < ss[2]}
           T == {n - y : y \in S}
<1>1. IsWellFoundedOn(R, Nat)
  BY NatLessThanWellFounded DEF OpToRel
<1>2. T \subseteq Nat /\ T # {}
  <2>1. \A y \in S : n - y \in Nat
    OBVIOUS
  <2> QED
    BY <2>1
<1>3. PICK m \in T : \A k \in T : ~(<<k, m>> \in R)
  <2> HIDE DEF R, T
  <2> QED
    BY <1>1, <1>2, WFMin
<1>4. PICK x \in S : m = n - x
  BY <1>3
<1>5. \A y \in S : y <= x
  <2> TAKE y \in S
  <2>1. n - y \in T /\ n - y \in Nat /\ m \in Nat
    BY <1>2
  <2>2. <<n - y, m>> \in Nat \X Nat /\ <<n - y, m>>[1] = n - y /\ <<n - y, m>>[2] = m
    BY <2>1
  <2>3. ~(<<n - y, m>>[1] < <<n - y, m>>[2])
    BY <1>3, <2>1, <2>2, Zenon
  <2> QED
    BY <1>4, <2>1, <2>2, <2>3
<1>6. \A y \in S : x >= y
  BY <1>5
<1> HIDE DEF R, T
<1> QED
  BY <1>6 DEF Max

-----------------------------------------------------------------------------
(* One pass.                                                               *)

\* The targets of the watchlist are among those ever added.
LEMMA WatchedAreKnown ==
  ASSUME WatchInv
  PROVE  /\ \A t \in watch : t \in Nat /\ t \in 1..MaxTarget /\ t <= newest /\ t \notin adding
         /\ newest \in Nat /\ watch \in SUBSET (0..newest) /\ watch \in SUBSET Targets
         /\ Active \in SUBSET watch
         /\ vmark \in 0..MaxVictim /\ tmark \in 0..MaxTarget
  BY WatchlistAssumption DEF WatchInv, Tables, Targets, Active

\* A refresh that is over, or has not begun.
LEMMA IdleIsGood == WatchInv => Good(Idle)
<1>1. Idle \in Pass
  BY WatchlistAssumption DEF Idle, Pass
<1> QED
  BY <1>1, WatchlistAssumption DEF Good, Idle, WatchInv, Tables

LEMMA MarksFields ==
  Marks.pc = "committing" /\ Marks.tmax = tmark /\ Marks.vmax = vmark /\ Marks.found = {}
  BY DEF Marks, Idle

\* Below the marks every match that is not excepted has its alert.
LEMMA MarksCover ==
  ASSUME WatchInv, NEW t \in watch, NEW v \in victims, t <= tmark, v <= vmark, <<t, v>> \in Fuzzy \ passed
  PROVE  alerts[<<t, v>>] > 0
<1>1. Covered(Marks, Marks) /\ Scanning(Marks) /\ Reaches(Marks, v)
  BY MarksFields DEF WatchInv, Claimants, Scanning, Reaches
<1> QED
  BY <1>1, MarksFields DEF Covered

\* A step that leaves claims as they are: what is covered stays so, and whoever
\* comes or goes claims nothing.
LEMMA ClaimsStay ==
  ASSUME WatchInv, UNCHANGED <<vmark, tmark>>,
         \A r \in Refreshers : pass'[r] = pass[r] \/ ~Scanning(pass'[r]),
         \A p, q \in Claimants : Covered(p, q) => Covered(p, q)'
  PROVE  \A p, q \in Claimants' : Covered(p, q)'
<1>1. \A p \in Claimants' : p \in Claimants \/ ~Scanning(p)
  BY DEF Claimants, Marks
<1> SUFFICES ASSUME NEW p \in Claimants', NEW q \in Claimants' PROVE Covered(p, q)'
  OBVIOUS
<1>2. CASE p \in Claimants /\ q \in Claimants
  BY <1>2 DEF WatchInv
<1>3. CASE ~Scanning(p) \/ ~Scanning(q)
  BY <1>3 DEF Covered, Reaches, Scanning
<1> QED
  BY <1>1, <1>2, <1>3

\* A pass looks at nothing but the tables: another pass's private step is none
\* of its business.
LEMMA PrivateStep ==
  ASSUME WatchInv, NEW r \in Refreshers, NEW next, Step(r, next), Good(next), ~Scanning(next),
         UNCHANGED <<alerts, vmark, tmark, passed>>
  PROVE  WatchInv'
<1>1. UNCHANGED <<seq, flushed, victims, newest, adding, watch, paused>> /\ pass' = [pass EXCEPT ![r] = next]
  BY DEF Step, table
<1>2. Tables'
  BY <1>1 DEF WatchInv, Tables
<1>3. \A p : Good(p) => Good(p)'
  BY <1>1 DEF Good
<1>4. next \in Pass
  BY DEF Good
<1>5. \A p, q : Covered(p, q) => Covered(p, q)'
  BY <1>1 DEF Covered, Scanning, Reaches
<1>6. \A o \in Refreshers : pass'[o] = pass[o] \/ ~Scanning(pass'[o])
  BY <1>1 DEF WatchInv
<1>7. \A p, q \in Claimants' : Covered(p, q)'
  BY <1>5, <1>6, ClaimsStay
<1> QED
  BY <1>1, <1>2, <1>3, <1>4, <1>7 DEF WatchInv

\* The idle pass claims nothing.
LEMMA IdleStep ==
  ASSUME WatchInv, NEW r \in Refreshers, Step(r, Idle), UNCHANGED <<alerts, vmark, tmark, passed>>
  PROVE  WatchInv'
<1>1. ~Scanning(Idle)
  BY DEF Scanning, Idle
<1> QED
  BY <1>1, IdleIsGood, PrivateStep

LEMMA StartKeeps ==
  ASSUME WatchInv, NEW r \in Refreshers, StartRefresh(r)
  PROVE  WatchInv'
<1> DEFINE next == [pass[r] EXCEPT !.pc = "ingesting"]
<1>1. Good(pass[r]) /\ pass[r].pc = "idle"
  BY DEF WatchInv, StartRefresh
<1>2. Good(next)
  BY <1>1 DEF Good, Pass
<1>3. pass' = [pass EXCEPT ![r] = next] /\ UNCHANGED <<table, alerts, vmark, tmark, passed>>
  BY DEF StartRefresh, WatchInv
<1>4. Step(r, next) /\ ~Scanning(next)
  BY <1>1, <1>3 DEF Step, Scanning, Good, Pass
<1> QED
  BY <1>2, <1>3, <1>4, PrivateStep

LEMMA ReadPairsKeeps ==
  ASSUME WatchInv, NEW r \in Refreshers, ReadPairs(r)
  PROVE  WatchInv'
<1> DEFINE next == [Idle EXCEPT !.pc = "matching", !.targets = Active,
                                !.pairs = {p \in Pairs : alerts[p] > 0}]
<1>1. UNCHANGED <<alerts, vmark, tmark, passed>>
  BY DEF ReadPairs
<1>2. CASE Step(r, Idle)
  BY <1>1, <1>2, IdleStep
<1>3. CASE Step(r, next)
  <2>1. Idle \in Pass
    BY IdleIsGood DEF Good
  <2>2. Active \in SUBSET Targets
    BY WatchedAreKnown
  <2>3. next \in Pass
    BY <2>1, <2>2 DEF Pass
  <2>4. \A x \in next.pairs : x \in Pairs /\ alerts[x] > 0 /\ x[1] \in watch
    BY DEF WatchInv, Tables, Idle
  <2>5. \A x \in next.pairs : x[1] <= newest /\ x[1] \notin adding
    BY <2>4 DEF WatchInv, Tables
  <2>6. next.found = {} /\ next.tmax = 0 /\ next.vmax = 0 /\ next.attempt = 0 /\ next.pc = "matching"
    BY DEF Idle
  <2> HIDE DEF next
  <2>7. Good(next)
    BY <2>3, <2>4, <2>5, <2>6, WatchlistAssumption DEF Good, WatchInv, Tables
  <2> QED
    BY <1>1, <1>3, <2>6, <2>7, PrivateStep DEF Scanning
<1> QED
  BY <1>2, <1>3 DEF ReadPairs

LEMMA MatchExactlyKeeps ==
  ASSUME WatchInv, NEW r \in Refreshers, MatchExactly(r)
  PROVE  WatchInv'
<1> DEFINE p == pass[r]
           hits == ((p.targets \X victims) \cap Exact) \ p.pairs
           next == [p EXCEPT !.pc = "fuzzy", !.targets = {}, !.found = hits, !.pairs = @ \cup hits]
<1>1. UNCHANGED <<alerts, vmark, tmark, passed>> /\ p.pc = "matching" /\ Good(p)
  BY DEF MatchExactly, WatchInv
<1>2. CASE Step(r, Idle)
  BY <1>1, <1>2, IdleStep
<1>3. CASE Step(r, next) /\ \A h \in hits : h[1] \in watch
  <2>1. hits \in SUBSET Pairs
    BY WatchlistAssumption
  <2>2. next \in Pass
    BY <1>1, <2>1 DEF Good, Pass
  <2>3. /\ next.pc = "fuzzy" /\ next.found = hits /\ next.pairs = p.pairs \cup hits
        /\ next.tmax = p.tmax /\ next.vmax = p.vmax /\ next.attempt = p.attempt
    BY <1>1 DEF Good, Pass
  <2>4. \A h \in hits : h[1] <= newest /\ h[1] \notin adding
    BY <1>3, WatchedAreKnown
  <2> HIDE DEF next, hits
  <2>5. \A x \in next.pairs \cup next.found : x[1] <= newest /\ x[1] \notin adding
    BY <1>1, <2>3, <2>4 DEF Good
  <2>6. \A x \in next.pairs : x[1] \in watch => alerts[x] > 0 \/ x \in next.found
    BY <1>1, <2>3 DEF Good
  <2>7. Good(next)
    BY <1>1, <1>3, <2>2, <2>3, <2>5, <2>6 DEF Good
  <2> QED
    BY <1>1, <1>3, <2>3, <2>7, PrivateStep DEF Scanning
<1> QED
  BY <1>2, <1>3 DEF MatchExactly

\* The fuzzy scan: whatever the pass, or another, claims of the watchlist is a
\* match found, one known, or one excepted.
LEMMA ScanCovers ==
  ASSUME WatchInv, NEW p, Good(p), p.pc = "fuzzy", NEW hits, hits = (Unseen(Active) \cap Fuzzy) \ p.pairs,
         NEW t \in watch, NEW v \in victims, <<t, v>> \in Fuzzy \ passed,
         t \notin Active => <<t, v>> \notin Unseen({t})
  PROVE  alerts[<<t, v>>] > 0 \/ <<t, v>> \in p.found \cup hits
<1>1. CASE t <= tmark /\ v <= vmark
  BY <1>1, MarksCover
<1>2. CASE ~(t <= tmark /\ v <= vmark)
  <2>1. t \in Nat /\ tmark \in Nat /\ v \in Nat /\ vmark \in Nat
    BY WatchedAreKnown, WatchlistAssumption DEF WatchInv, Tables
  <2>2. <<t, v>> \in Unseen({t})
    BY <1>2, <2>1 DEF Unseen
  <2>3. t \in Active /\ <<t, v>> \in Unseen(Active)
    BY <1>2, <2>1, <2>2 DEF Unseen
  <2> QED
    BY <2>3 DEF Good
<1> QED
  BY <1>1, <1>2

LEMMA MatchFuzzilyKeeps ==
  ASSUME WatchInv, NEW r \in Refreshers, MatchFuzzily(r)
  PROVE  WatchInv'
<1> DEFINE p == pass[r]
           hits == (Unseen(Active) \cap Fuzzy) \ p.pairs
           over == {t \in watch \cap paused : t \in ClaimedTargets \/ t <= Max(Active)}
           none == [p EXCEPT !.pc = "committing", !.pairs = {}]
           next == [p EXCEPT !.pc = "marking", !.found = @ \cup hits, !.pairs = {}, !.tmax = Max(Active)]
<1>1. UNCHANGED <<alerts, vmark, tmark>> /\ p.pc = "fuzzy" /\ Good(p) /\ p \in Pass
  BY DEF MatchFuzzily, WatchInv, Good
<1>2. ASSUME NEW n, Step(r, n), Good(n), passed' \in SUBSET Fuzzy, passed \in SUBSET passed',
             \A q \in Claimants \cup {n} : Covered(n, q)' /\ Covered(q, n)'
      PROVE  WatchInv'
  <2>1. UNCHANGED <<seq, flushed, victims, newest, adding, watch, paused>> /\ pass' = [pass EXCEPT ![r] = n]
    BY <1>2 DEF Step, table
  <2>2. Tables'
    BY <1>1, <1>2, <2>1 DEF WatchInv, Tables
  <2>3. \A o : Good(o) => Good(o)'
    BY <1>1, <2>1 DEF Good
  <2>4. \A o, q : Covered(o, q) => Covered(o, q)'
    BY <1>1, <1>2, <2>1 DEF Covered, Scanning, Reaches
  <2>5. Marks' = Marks
    BY <1>1 DEF Marks
  <2>6. Claimants' \in SUBSET (Claimants \cup {n})
    BY <2>1, <2>5 DEF Claimants, WatchInv
  <2>7. \A o, q \in Claimants' : Covered(o, q)'
    BY <1>2, <2>4, <2>6 DEF WatchInv
  <2>8. n \in Pass
    BY <1>2 DEF Good
  <2> QED
    BY <1>2, <2>1, <2>2, <2>3, <2>7, <2>8 DEF WatchInv
<1>3. CASE Step(r, none) /\ UNCHANGED passed
  <2>1. none \in Pass
    BY <1>1 DEF Pass
  <2>2. /\ none.pc = "committing" /\ none.found = p.found /\ none.pairs = {}
        /\ none.tmax = 0 /\ none.vmax = 0 /\ none.attempt = p.attempt
    BY <1>1 DEF Good, Pass
  <2> HIDE DEF none
  <2>3. Good(none)
    BY <1>1, <2>1, <2>2, WatchedAreKnown DEF Good
  <2>4. /\ watch' = watch /\ victims' = victims /\ \A t \in watch : t \in Nat /\ t > 0
        /\ \A v \in victims : v \in Nat /\ v > 0
    BY <1>3, WatchedAreKnown, WatchlistAssumption DEF Step, table, WatchInv, Tables
  <2>0. PICK n : n = none
    OBVIOUS
  <2>5. \A q : Covered(n, q)' /\ Covered(q, n)'
    BY <2>0, <2>2, <2>4 DEF Covered, Reaches
  <2>6. passed' \in SUBSET Fuzzy /\ passed \in SUBSET passed'
    BY <1>3 DEF WatchInv, Tables
  <2> QED
    BY <1>2, <1>3, <2>0, <2>3, <2>5, <2>6
<1>4. CASE Step(r, next) /\ Active # {} /\ passed' = passed \cup (Unseen(over) \cap Fuzzy)
  <2>1. hits \in SUBSET Pairs /\ \A h \in hits : h[1] \in watch
    BY WatchlistAssumption DEF Unseen, Active
  <2>2. Max(Active) \in Active /\ \A t \in Active : t <= Max(Active)
    <3>1. newest \in Nat /\ Active \in SUBSET (0..newest)
      BY WatchedAreKnown
    <3> QED
      BY <1>4, <3>1, MaxIsGreatest
  <2>3. Max(Active) \in 0..MaxTarget /\ Max(Active) <= newest
    BY <2>2, WatchedAreKnown
  <2>4. next \in Pass
    BY <1>1, <2>1, <2>3 DEF Pass
  <2>5. /\ next.pc = "marking" /\ next.found = p.found \cup hits /\ next.pairs = {}
        /\ next.tmax = Max(Active) /\ next.attempt = p.attempt
    BY <1>1 DEF Pass
  <2>6. \A h \in hits : h[1] <= newest /\ h[1] \notin adding
    BY <2>1, WatchedAreKnown
  <2>7. \A q \in Claimants : Scanning(q) => \A t \in watch : t <= q.tmax => t \in ClaimedTargets
    BY WatchedAreKnown, MarksFields DEF Claimants, ClaimedTargets, Targets
  <2>8. ASSUME NEW q \in Claimants \cup {next}, Scanning(q),
               NEW t \in watch, t <= q.tmax, NEW v \in victims, <<t, v>> \in Fuzzy \ passed'
        PROVE  alerts[<<t, v>>] > 0 \/ <<t, v>> \in next.found
    <3>1. ASSUME t \notin Active PROVE <<t, v>> \notin Unseen({t})
      <4>1. t \in over
        BY <2>5, <2>7, <2>8, <3>1 DEF Active
      <4>2. <<t, v>> \notin Unseen(over)
        BY <1>4, <2>8
      <4> HIDE DEF over
      <4> QED
        BY <4>1, <4>2 DEF Unseen
    <3>2. <<t, v>> \in Fuzzy \ passed
      BY <1>4, <2>8
    <3> HIDE DEF next, over
    <3>3. alerts[<<t, v>>] > 0 \/ <<t, v>> \in p.found \cup hits
      BY <1>1, <3>1, <3>2, ScanCovers
    <3> QED
      BY <2>5, <3>3
  <2>9. watch' = watch /\ victims' = victims /\ alerts' = alerts
    BY <1>1, <1>4 DEF Step, table
  <2>10. passed' \in SUBSET Fuzzy /\ passed \in SUBSET passed'
    BY <1>4 DEF WatchInv, Tables
  <2> HIDE DEF next, hits, over
  <2>11. Good(next)
    BY <1>1, <2>1, <2>3, <2>4, <2>5, <2>6 DEF Good
  <2>0. PICK n : n = next
    OBVIOUS
  <2>12. ASSUME NEW q \in Claimants \cup {n} PROVE Covered(n, q)' /\ Covered(q, n)'
    <3>1. Scanning(n)
      BY <2>0, <2>5 DEF Scanning
    <3>2. \A o : Scanning(o) <=> Scanning(o)'
      BY DEF Scanning
    <3>3. Covered(n, q)'
      BY <2>0, <2>8, <2>9, <3>1 DEF Covered
    <3>4. Covered(q, n)'
      BY <2>0, <2>8, <2>9, <3>2 DEF Covered
    <3> QED
      BY <3>3, <3>4
  <2> QED
    BY <1>2, <1>4, <2>0, <2>10, <2>11, <2>12
<1> QED
  BY <1>3, <1>4 DEF MatchFuzzily

\* Reading the marks narrows what the pass claims.
LEMMA ReadMarkKeeps ==
  ASSUME WatchInv, NEW r \in Refreshers, ReadMark(r)
  PROVE  WatchInv'
<1> DEFINE p == pass[r]
           top == Max(victims \cup {0})
           next == [p EXCEPT !.pc = "committing", !.vmax = top, !.vread = vmark, !.tread = tmark]
<1>1. UNCHANGED <<alerts, vmark, tmark, passed>> /\ p.pc = "marking" /\ Good(p) /\ p \in Pass /\ Step(r, next)
  BY DEF ReadMark, WatchInv, Good
<1>2. top \in 0..MaxVictim /\ vmark \in 0..MaxVictim /\ tmark \in 0..MaxTarget
  <2>1. MaxVictim \in Nat /\ victims \cup {0} \in SUBSET (0..MaxVictim) /\ victims \cup {0} # {}
    BY WatchlistAssumption DEF WatchInv, Tables
  <2>2. top \in victims \cup {0}
    BY <2>1, MaxIsGreatest
  <2> QED
    BY <2>1, <2>2, WatchedAreKnown
<1> HIDE DEF top
<1>3. next \in Pass
  BY <1>1, <1>2 DEF Pass
<1>4. /\ next.pc = "committing" /\ next.found = p.found /\ next.pairs = p.pairs
      /\ next.tmax = p.tmax /\ next.attempt = p.attempt
  BY <1>1 DEF Pass
<1> HIDE DEF next
<1>5. Good(next)
  BY <1>1, <1>3, <1>4 DEF Good
<1>6. UNCHANGED <<seq, flushed, victims, newest, adding, watch, paused>> /\ pass' = [pass EXCEPT ![r] = next]
  BY <1>1 DEF Step, table
<1>7. Tables' /\ \A o : Good(o) => Good(o)'
  BY <1>1, <1>6 DEF WatchInv, Tables, Good
<1>8. \A o, q : Covered(o, q) => Covered(o, q)'
  BY <1>1, <1>6 DEF Covered, Scanning, Reaches
<1>9. Claimants' \in SUBSET (Claimants \cup {next}) /\ p \in Claimants
  BY <1>1, <1>6 DEF Claimants, Marks, WatchInv
<1>10. \A q : Covered(p, q) => Covered(next, q)
  BY <1>1, <1>4 DEF Covered, Scanning
<1>11. \A q : Covered(q, p) => Covered(q, next)
  BY <1>1, <1>4 DEF Covered, Scanning, Reaches
<1>12. \A o, q \in Claimants' : Covered(o, q)'
  BY <1>8, <1>9, <1>10, <1>11 DEF WatchInv
<1> QED
  BY <1>5, <1>6, <1>3, <1>7, <1>12 DEF WatchInv

LEMMA LoadEventsKeeps ==
  ASSUME WatchInv, NEW r \in Refreshers, LoadEvents(r)
  PROVE  WatchInv'
<1> DEFINE p == pass[r]
           events == {x \in p.found : alerts[x] > 0}
           next == [p EXCEPT !.pc = "telling", !.found = events]
<1>1. UNCHANGED <<alerts, vmark, tmark, passed>> /\ p.pc = "loading" /\ Good(p)
  BY DEF LoadEvents, WatchInv
<1>2. CASE Step(r, Idle)
  BY <1>1, <1>2, IdleStep
<1>3. CASE Step(r, next)
  <2>1. next \in Pass
    BY <1>1 DEF Good, Pass
  <2>2. /\ next.pc = "telling" /\ next.found = events /\ next.pairs = p.pairs
        /\ next.tmax = p.tmax /\ next.attempt = p.attempt
    BY <1>1 DEF Good, Pass
  <2> HIDE DEF next
  <2>3. Good(next)
    BY <1>1, <2>1, <2>2 DEF Good
  <2> QED
    BY <1>1, <1>3, <2>2, <2>3, PrivateStep DEF Scanning
<1> QED
  BY <1>2, <1>3 DEF LoadEvents

LEMMA PostKeeps ==
  ASSUME WatchInv, NEW r \in Refreshers, NEW answered \in BOOLEAN, Post(r, answered)
  PROVE  WatchInv'
<1> DEFINE p == pass[r]
           next == [p EXCEPT !.attempt = @ + 1]
<1>1. UNCHANGED <<alerts, vmark, tmark, passed>> /\ p.pc = "telling" /\ Good(p)
  BY DEF Post, WatchInv
<1>2. CASE Step(r, Idle)
  BY <1>1, <1>2, IdleStep
<1>3. CASE Step(r, next) /\ p.attempt + 1 # MAX_RETRIES
  <2>1. p.attempt + 1 \in 0..MAX_RETRIES /\ p.attempt + 1 < MAX_RETRIES
    BY <1>1, <1>3, WatchlistAssumption DEF Good, Pass
  <2>2. next \in Pass
    BY <1>1, <2>1 DEF Good, Pass
  <2>3. /\ next.pc = "telling" /\ next.found = p.found /\ next.pairs = p.pairs
        /\ next.tmax = p.tmax /\ next.attempt = p.attempt + 1
    BY <1>1 DEF Good, Pass
  <2> HIDE DEF next
  <2>4. Good(next)
    BY <1>1, <2>1, <2>2, <2>3 DEF Good
  <2> QED
    BY <1>1, <1>3, <2>3, <2>4, PrivateStep DEF Scanning
<1> QED
  BY <1>2, <1>3 DEF Post

LEMMA UndeliverableKeeps ==
  ASSUME WatchInv, NEW r \in Refreshers, Undeliverable(r)
  PROVE  WatchInv'
  BY IdleStep DEF Undeliverable

-----------------------------------------------------------------------------
(* What all passes share.                                                  *)

\* A step of the tables in which no pass and no mark takes part.
LEMMA TablesStep ==
  ASSUME WatchInv, Tables', UNCHANGED <<vmark, tmark>>, pass' \in [Refreshers -> Pass],
         \A r \in Refreshers : Good(pass[r])',
         \A r \in Refreshers : pass'[r] = pass[r] \/ ~Scanning(pass'[r]),
         \A p, q \in Claimants : Covered(p, q) => Covered(p, q)'
  PROVE  WatchInv'
  BY ClaimsStay DEF WatchInv

LEMMA AddTargetKeeps == WatchInv /\ AddTarget => WatchInv'
<1> SUFFICES ASSUME WatchInv, AddTarget PROVE WatchInv'
  OBVIOUS
<1>1. /\ newest' = newest + 1 /\ newest \in Nat /\ newest' <= MaxTarget
      /\ adding' = adding \cup {newest + 1}
      /\ UNCHANGED <<seq, flushed, victims, watch, paused, alerts, vmark, tmark, pass, passed>>
  BY WatchedAreKnown, WatchlistAssumption DEF AddTarget
<1>2. Tables'
  BY <1>1, WatchlistAssumption DEF WatchInv, Tables
<1>3. ASSUME NEW p, Good(p) PROVE Good(p)'
  <2>1. p \in Pass /\ p.tmax \in Nat /\ p.tmax <= newest /\ p.found \in SUBSET Pairs /\ p.pairs \in SUBSET Pairs
    BY <1>3 DEF Good, Pass
  <2>2. \A x \in p.pairs \cup p.found : x[1] \in Nat /\ x[1] <= newest /\ x[1] \notin adding
    BY <1>3, <2>1 DEF Good, Pairs, Targets
  <2>3. p.tmax <= newest' /\ \A x \in p.pairs \cup p.found : x[1] <= newest' /\ x[1] \notin adding'
    BY <1>1, <2>1, <2>2
  <2> QED
    BY <1>1, <1>3, <2>3 DEF Good
<1>4. \A p, q : Covered(p, q) => Covered(p, q)'
  BY <1>1 DEF Covered, Scanning, Reaches
<1> QED
  BY <1>1, <1>2, <1>3, <1>4, TablesStep DEF WatchInv

\* Whoever claims claims a set of targets and one of victims.
LEMMA ClaimsAreClaimed ==
  ASSUME WatchInv, NEW p \in Claimants
  PROVE  /\ Scanning(p) => \A t \in Targets : t <= p.tmax => t \in ClaimedTargets
         /\ \A v \in VictimIds : Reaches(p, v) => v \in ClaimedVictims
<1>1. CASE p = Marks
  BY <1>1, MarksFields DEF ClaimedTargets, ClaimedVictims, Reaches, Scanning
<1>2. ASSUME NEW r \in Refreshers, p = pass[r]
      PROVE  /\ Scanning(p) => \A t \in Targets : t <= p.tmax => t \in ClaimedTargets
             /\ \A v \in VictimIds : Reaches(p, v) => v \in ClaimedVictims
  BY <1>2 DEF ClaimedTargets, ClaimedVictims
<1> QED
  BY <1>1, <1>2 DEF Claimants

LEMMA CommitTargetKeeps ==
  ASSUME WatchInv, NEW u \in Targets, CommitTarget(u)
  PROVE  WatchInv'
<1>1. /\ u \in adding /\ adding' = adding \ {u} /\ watch' = watch \cup {u}
      /\ passed' = passed \cup (Fuzzy \cap (({u} \cap ClaimedTargets) \X (victims \cap ClaimedVictims)))
      /\ UNCHANGED <<seq, flushed, victims, newest, paused, alerts, vmark, tmark, pass>>
  BY DEF CommitTarget
<1>2. Tables'
  BY <1>1 DEF WatchInv, Tables
<1>3. ASSUME NEW p, Good(p) PROVE Good(p)'
  <2>1. \A x \in p.pairs \cup p.found : x[1] # u /\ x[1] \notin adding'
    BY <1>1, <1>3 DEF Good
  <2> QED
    BY <1>1, <1>3, <2>1 DEF Good
<1>4. ASSUME NEW p \in Claimants, NEW q \in Claimants, Covered(p, q) PROVE Covered(p, q)'
  <2> SUFFICES ASSUME Scanning(p), NEW t \in watch', NEW v \in victims, t <= p.tmax, Reaches(q, v),
                      <<t, v>> \in Fuzzy \ passed'
               PROVE  alerts[<<t, v>>] > 0 \/ <<t, v>> \in p.found \cup q.found
    BY <1>1 DEF Covered, Scanning, Reaches
  <2>1. CASE t \in watch
    BY <1>1, <1>4, <2>1 DEF Covered
  <2>2. CASE t = u
    <3>1. v \in VictimIds
      BY WatchlistAssumption DEF WatchInv, Tables, VictimIds
    <3>2. u \in ClaimedTargets /\ v \in ClaimedVictims
      BY <2>2, <3>1, ClaimsAreClaimed
    <3> QED
      BY <1>1, <2>2, <3>2
  <2> QED
    BY <1>1, <2>1, <2>2
<1> QED
  BY <1>1, <1>2, <1>3, <1>4, TablesStep DEF WatchInv

LEMMA SetActiveKeeps ==
  ASSUME WatchInv, NEW u \in Targets, SetActive(u)
  PROVE  WatchInv'
<1>1. /\ paused' \in SUBSET watch
      /\ UNCHANGED <<seq, flushed, victims, newest, adding, watch, alerts, vmark, tmark, pass, passed>>
  BY DEF SetActive, WatchInv, Tables
<1>2. Tables' /\ \A p : Good(p) => Good(p)'
  BY <1>1 DEF WatchInv, Tables, Good
<1>3. \A p, q : Covered(p, q) => Covered(p, q)'
  BY <1>1 DEF Covered, Scanning, Reaches
<1> QED
  BY <1>1, <1>2, <1>3, TablesStep DEF WatchInv

LEMMA DeleteTargetKeeps ==
  ASSUME WatchInv, NEW u \in Targets, DeleteTarget(u)
  PROVE  WatchInv'
<1>1. /\ watch' = watch \ {u} /\ paused' = paused \ {u} /\ ~Referred(u)
      /\ alerts' = [x \in Pairs |-> IF x[1] = u THEN 0 ELSE alerts[x]]
      /\ passed' = {x \in passed : x[1] # u}
      /\ UNCHANGED <<seq, flushed, victims, newest, adding, vmark, tmark, pass>>
  BY DEF DeleteTarget
<1>2. Tables'
  <2>1. alerts' \in [Pairs -> Nat]
    BY <1>1 DEF WatchInv, Tables
  <2>2. \A x \in Pairs : alerts'[x] > 0 => x[1] \in watch'
    BY <1>1 DEF WatchInv, Tables
  <2>3. passed' \in SUBSET Fuzzy /\ paused' \in SUBSET watch' /\ watch' \in SUBSET ((1..newest) \ adding)
    BY <1>1 DEF WatchInv, Tables
  <2> QED
    BY <1>1, <2>1, <2>2, <2>3 DEF WatchInv, Tables
<1>3. \A x \in Pairs : x[1] \in watch' => alerts'[x] = alerts[x]
  BY <1>1
<1>4. ASSUME NEW r \in Refreshers PROVE Good(pass[r])'
  <2> DEFINE p == pass[r]
  <2>1. Good(p) /\ p \in Pass /\ p.found \in SUBSET Pairs /\ p.pairs \in SUBSET Pairs
    BY DEF WatchInv, Good, Pass
  <2>2. p.pc \in {"fuzzy", "marking", "committing"} => \A x \in p.found : x[1] \in watch'
    BY <1>1, <2>1 DEF Good, Referred, Holding
  <2>3. /\ p.pc \in {"matching", "fuzzy"} =>
             \A x \in p.pairs : x[1] \in watch' => alerts'[x] > 0 \/ x \in p.found
        /\ p.pc = "telling" => \A x \in p.found : x[1] \in watch' => alerts'[x] > 0
    BY <1>1, <1>3, <2>1 DEF Good
  <2>4. Good(p)'
    BY <1>1, <2>1, <2>2, <2>3 DEF Good
  <2> QED
    BY <2>4
<1>5. ASSUME NEW p, NEW q, Covered(p, q) PROVE Covered(p, q)'
  <2> SUFFICES ASSUME Scanning(p), NEW t \in watch', NEW v \in victims, t <= p.tmax, Reaches(q, v),
                      <<t, v>> \in Fuzzy \ passed'
               PROVE  alerts'[<<t, v>>] > 0 \/ <<t, v>> \in p.found \cup q.found
    BY <1>1 DEF Covered, Scanning, Reaches
  <2>1. <<t, v>> \in Pairs /\ <<t, v>>[1] = t /\ t \in watch /\ <<t, v>> \notin passed
    BY <1>1, WatchlistAssumption
  <2> QED
    BY <1>3, <1>5, <2>1 DEF Covered
<1> QED
  BY <1>1, <1>2, <1>4, <1>5, TablesStep DEF WatchInv

LEMMA InsertKeeps ==
  ASSUME WatchInv, NEW w \in Writers, Insert(w)
  PROVE  WatchInv'
<1>1. /\ seq' = seq + 1 /\ seq \in Nat /\ seq < MaxVictim
      /\ flushed' = [flushed EXCEPT ![w] = @ \cup {seq + 1}]
      /\ UNCHANGED <<victims, newest, adding, watch, paused, alerts, vmark, tmark, pass, passed>>
  BY DEF Insert, WatchInv, Tables
<1>2. Tables'
  <2>1. 1..seq \subseteq 1..(seq + 1) /\ seq + 1 \in 1..(seq + 1) /\ seq + 1 \in 0..MaxVictim
    BY <1>1, WatchlistAssumption
  <2>2. flushed' \in [Writers -> SUBSET (1..(seq + 1))]
    BY <1>1, <2>1 DEF WatchInv, Tables
  <2> QED
    BY <1>1, <2>1, <2>2 DEF WatchInv, Tables
<1>3. \A p : Good(p) => Good(p)'
  BY <1>1 DEF Good
<1>4. \A p, q : Covered(p, q) => Covered(p, q)'
  BY <1>1 DEF Covered, Scanning, Reaches
<1> QED
  BY <1>1, <1>2, <1>3, <1>4, TablesStep DEF WatchInv

\* A victim committed under a claim is excepted with the targets claimed.
LEMMA CommitIngestKeeps ==
  ASSUME WatchInv, NEW w \in Writers, CommitIngest(w)
  PROVE  WatchInv'
<1>1. /\ victims' = victims \cup flushed[w]
      /\ passed' = passed \cup (Fuzzy \cap ((watch \cap ClaimedTargets) \X (flushed[w] \cap ClaimedVictims)))
      /\ flushed' = [flushed EXCEPT ![w] = {}]
      /\ UNCHANGED <<seq, newest, adding, watch, paused, alerts, vmark, tmark>>
  BY DEF CommitIngest
<1>2. flushed[w] \in SUBSET (1..seq) /\ flushed' \in [Writers -> SUBSET (1..seq)]
  <2>1. flushed \in [Writers -> SUBSET (1..seq)] /\ {} \in SUBSET (1..seq)
    BY DEF WatchInv, Tables
  <2> QED
    BY <1>1, <2>1
<1>3. Tables'
  <2>1. victims' \in SUBSET (1..seq) /\ passed' \in SUBSET Fuzzy
    BY <1>1, <1>2 DEF WatchInv, Tables
  <2> QED
    BY <1>1, <1>2, <2>1 DEF WatchInv, Tables
<1>4. ASSUME NEW p \in Claimants, NEW q \in Claimants, Covered(p, q) PROVE Covered(p, q)'
  <2> SUFFICES ASSUME Scanning(p), NEW t \in watch, NEW v \in victims', t <= p.tmax, Reaches(q, v),
                      <<t, v>> \in Fuzzy \ passed'
               PROVE  alerts[<<t, v>>] > 0 \/ <<t, v>> \in p.found \cup q.found
    BY <1>1 DEF Covered, Scanning, Reaches
  <2>1. CASE v \in victims
    BY <1>1, <1>4, <2>1 DEF Covered
  <2>2. CASE v \in flushed[w]
    <3>1. v \in VictimIds /\ t \in Targets
      BY <1>2, <2>2, WatchedAreKnown, WatchlistAssumption DEF WatchInv, Tables, VictimIds
    <3>2. t \in ClaimedTargets /\ v \in ClaimedVictims
      BY <3>1, ClaimsAreClaimed
    <3> QED
      BY <1>1, <2>2, <3>2
  <2> QED
    BY <1>1, <2>1, <2>2
<1>5. \A p : Good(p) => Good(p)'
  BY <1>1 DEF Good
<1>6. ASSUME NEW r \in Refreshers
      PROVE  Good(pass[r])' /\ (pass'[r] = pass[r] \/ ~Scanning(pass'[r]))
  <2>1. Good(pass[r]) /\ pass[r] \in Pass
    BY DEF WatchInv, Good
  <2>2. PICK p : p = pass'[r]
    OBVIOUS
  <2>3. CASE pass'[r] = pass[r]
    BY <1>5, <2>1, <2>2, <2>3
  <2>4. CASE pass'[r] = [pass[r] EXCEPT !.pc = "checking"] /\ pass[r].pc = "ingesting"
    <3>1. Good([pass[r] EXCEPT !.pc = "checking"]) /\ [pass[r] EXCEPT !.pc = "checking"].pc = "checking"
      BY <2>1, <2>4 DEF Good, Pass
    <3>2. Good(p) /\ p.pc = "checking"
      BY <2>2, <2>4, <3>1
    <3>3. Good(p)' /\ ~Scanning(p)
      BY <1>5, <3>2 DEF Scanning
    <3> QED
      BY <2>2, <3>3
  <2> QED
    BY <2>3, <2>4 DEF CommitIngest, WatchInv
<1>7. pass' \in [Refreshers -> Pass]
  <2>1. \A r \in Refreshers : pass'[r] \in Pass
    BY <1>6 DEF Good
  <2>2. pass' = pass \/ \E r \in Refreshers : pass' = [pass EXCEPT ![r].pc = "checking"]
    BY DEF CommitIngest
  <2> QED
    BY <2>1, <2>2 DEF WatchInv
<1> QED
  BY <1>1, <1>3, <1>4, <1>6, <1>7, TablesStep

LEMMA RollBackIngestKeeps ==
  ASSUME WatchInv, NEW w \in Writers, RollBackIngest(w)
  PROVE  WatchInv'
<1>1. /\ flushed' = [flushed EXCEPT ![w] = {}]
      /\ UNCHANGED <<seq, victims, newest, adding, watch, paused, alerts, vmark, tmark, passed>>
      /\ pass' = pass \/ \E r \in Refreshers : pass' = [pass EXCEPT ![r] = Idle]
  BY DEF RollBackIngest
<1>2. Tables'
  BY <1>1 DEF WatchInv, Tables
<1>3. \A p : Good(p) => Good(p)'
  BY <1>1 DEF Good
<1>4. Good(Idle) /\ Idle \in Pass /\ ~Scanning(Idle)
  BY IdleIsGood DEF Good, Scanning, Idle
<1>5. \A p, q : Covered(p, q) => Covered(p, q)'
  BY <1>1 DEF Covered, Scanning, Reaches
<1>6. \A r \in Refreshers : pass'[r] = pass[r] \/ pass'[r] = Idle
  BY <1>1 DEF WatchInv
<1>7. pass' \in [Refreshers -> Pass]
  BY <1>1, <1>4 DEF WatchInv
<1>8. \A r \in Refreshers : Good(pass[r])'
  BY <1>3, <1>4, <1>6 DEF WatchInv
<1> QED
  BY <1>1, <1>2, <1>4, <1>5, <1>6, <1>7, <1>8, TablesStep

LEMMA CrashKeeps == WatchInv /\ Crash => WatchInv'
<1> SUFFICES ASSUME WatchInv, Crash PROVE WatchInv'
  OBVIOUS
<1>1. /\ pass' = [r \in Refreshers |-> Idle]
      /\ flushed' = [w \in Writers |-> IF w \in Refreshers THEN {} ELSE flushed[w]]
      /\ adding' = {}
      /\ UNCHANGED <<seq, victims, newest, watch, paused, alerts, vmark, tmark, passed>>
  BY DEF Crash
<1>2. flushed' \in [Writers -> SUBSET (1..seq)]
  BY <1>1 DEF WatchInv, Tables
<1>3. Tables'
  BY <1>1, <1>2 DEF WatchInv, Tables
<1>4. \A p : Good(p) => Good(p)'
  BY <1>1 DEF Good
<1>5. Good(Idle) /\ Idle \in Pass /\ ~Scanning(Idle)
  BY IdleIsGood DEF Good, Scanning, Idle
<1>6. \A p, q : Covered(p, q) => Covered(p, q)'
  BY <1>1 DEF Covered, Scanning, Reaches
<1>7. pass' \in [Refreshers -> Pass] /\ \A r \in Refreshers : pass'[r] = Idle
  BY <1>1, <1>5
<1>8. \A r \in Refreshers : Good(pass[r])'
  BY <1>4, <1>5, <1>7
<1> QED
  BY <1>1, <1>3, <1>5, <1>6, <1>7, <1>8, TablesStep

\* The commit of a pass: each mark is its own or stays; what it found is alerted
\* with it, for itself and for whoever scans beside it.
LEMMA CommitPassKeeps ==
  ASSUME WatchInv, NEW r \in Refreshers, CommitPass(r)
  PROVE  WatchInv'
<1> DEFINE p == pass[r]
           next == [Idle EXCEPT !.pc = "loading", !.found = p.found]
<1>1. /\ p.pc = "committing" /\ Good(p) /\ p \in Pass
      /\ alerts' = [x \in Pairs |-> alerts[x] + (IF x \in p.found THEN 1 ELSE 0)]
      /\ tmark' \in {tmark, p.tmax} /\ vmark' \in {vmark, p.vmax}
      /\ UNCHANGED <<seq, flushed, victims, newest, adding, watch, paused, passed>>
  BY DEF CommitPass, Step, table, WatchInv, Good
<1>2. \A x \in Pairs : /\ alerts'[x] \in Nat /\ alerts[x] \in Nat /\ alerts'[x] >= alerts[x]
                       /\ x \in p.found => alerts'[x] > 0
                       /\ alerts'[x] > 0 => x[1] \in watch
  BY <1>1 DEF WatchInv, Tables, Good
<1>3. alerts' \in [Pairs -> Nat]
  BY <1>1 DEF WatchInv, Tables
<1>4. /\ p.tmax \in 0..MaxTarget /\ p.tmax <= newest /\ p.vmax \in 0..MaxVictim
      /\ p.found \in SUBSET Pairs
  BY <1>1 DEF Good, Pass
<1>5. tmark' \in 0..newest /\ vmark' \in 0..MaxVictim
  BY <1>1, <1>4, WatchlistAssumption DEF WatchInv, Tables
<1>6. Tables'
  BY <1>1, <1>2, <1>3, <1>5 DEF WatchInv, Tables
<1>7. ASSUME NEW o, Good(o) PROVE Good(o)'
  <2>1. o.pairs \in SUBSET Pairs /\ o.found \in SUBSET Pairs
    BY <1>7 DEF Good, Pass
  <2>2. /\ o.pc \in {"matching", "fuzzy"} =>
             \A x \in o.pairs : x[1] \in watch => alerts'[x] > 0 \/ x \in o.found
        /\ o.pc = "telling" => \A x \in o.found : x[1] \in watch => alerts'[x] > 0
    BY <1>2, <1>7, <2>1 DEF Good
  <2> QED
    BY <1>1, <1>7, <2>2 DEF Good
<1>8. /\ p \in Claimants /\ Marks \in Claimants /\ Scanning(p) /\ Scanning(Marks)
      /\ Marks.found = {} /\ Marks.tmax = tmark /\ Marks.vmax = vmark /\ Marks.pc = "committing"
  BY <1>1, MarksFields DEF Claimants, Scanning
\* The new marks claim a target only if the pass or the old marks do, and so a victim.
<1>9. /\ \A t : t <= Marks'.tmax => \E c \in {p, Marks} : t <= c.tmax
      /\ \A v : Reaches(Marks', v) => \E c \in {p, Marks} : Reaches(c, v)
  <2>1. Marks'.tmax = tmark' /\ Marks'.vmax = vmark' /\ Marks'.pc = "committing"
    BY DEF Marks, Idle
  <2> QED
    BY <1>1, <1>8, <2>1 DEF Reaches, Scanning
<1>10. ASSUME NEW c \in Claimants \cup {Marks'}, Scanning(c), NEW d \in Claimants \cup {Marks'},
              NEW t \in watch, NEW v \in victims, t <= c.tmax, Reaches(d, v), <<t, v>> \in Fuzzy \ passed
       PROVE  alerts'[<<t, v>>] > 0 \/ <<t, v>> \in c.found \cup d.found
  <2>1. PICK a \in Claimants : Scanning(a) /\ t <= a.tmax /\ (a = c \/ a = p \/ a = Marks)
    BY <1>8, <1>9, <1>10
  <2>2. PICK b \in Claimants : Reaches(b, v) /\ (b = d \/ b = p \/ b = Marks)
    BY <1>8, <1>9, <1>10
  <2>3. alerts[<<t, v>>] > 0 \/ <<t, v>> \in a.found \cup b.found
    BY <1>10, <2>1, <2>2 DEF WatchInv, Covered
  <2>4. alerts[<<t, v>>] > 0 \/ <<t, v>> \in p.found \/ <<t, v>> \in c.found \cup d.found
    BY <1>8, <2>1, <2>2, <2>3
  <2>5. <<t, v>> \in Pairs
    BY <1>10, WatchlistAssumption
  <2>6. alerts[<<t, v>>] > 0 \/ <<t, v>> \in p.found => alerts'[<<t, v>>] > 0
    BY <1>2, <2>5
  <2> QED
    BY <2>4, <2>6
<1>11. Good(next) /\ ~Scanning(next)
  <2>1. Good(Idle) /\ Idle \in Pass
    BY IdleIsGood DEF Good
  <2>2. next \in Pass
    BY <1>4, <2>1 DEF Pass
  <2>3. /\ next.pc = "loading" /\ next.found = p.found /\ next.pairs = {}
        /\ next.tmax = 0 /\ next.attempt = 0
    BY DEF Idle
  <2>4. 0 <= newest /\ 0 < MAX_RETRIES
    BY WatchedAreKnown, WatchlistAssumption
  <2> HIDE DEF next
  <2> QED
    BY <1>1, <2>2, <2>3, <2>4 DEF Good, Scanning
<1>12. PICK n : n = (IF p.found = {} THEN Idle ELSE next)
  OBVIOUS
<1>13. Good(n) /\ n \in Pass /\ ~Scanning(n) /\ pass' = [pass EXCEPT ![r] = n]
  <2>1. Good(Idle) /\ ~Scanning(Idle)
    BY IdleIsGood DEF Scanning, Idle
  <2>2. Good(n) /\ ~Scanning(n)
    BY <1>11, <1>12, <2>1
  <2> QED
    BY <1>12, <2>2 DEF CommitPass, Step, Good
<1> HIDE DEF next
<1>14. \A c \in Claimants' : c \in Claimants \cup {Marks'} \/ ~Scanning(c)
  BY <1>13 DEF Claimants, WatchInv
<1>15. ASSUME NEW c \in Claimants', NEW d \in Claimants' PROVE Covered(c, d)'
  <2>1. CASE c \in Claimants \cup {Marks'} /\ d \in Claimants \cup {Marks'}
    BY <1>1, <1>10, <2>1 DEF Covered, Scanning, Reaches
  <2>2. CASE ~Scanning(c) \/ ~Scanning(d)
    BY <2>2 DEF Covered, Scanning, Reaches
  <2> QED
    BY <1>14, <2>1, <2>2
<1> QED
  BY <1>6, <1>7, <1>13, <1>15 DEF WatchInv

-----------------------------------------------------------------------------
LEMMA WatchInit == Init => WatchInv
<1> SUFFICES ASSUME Init PROVE WatchInv
  OBVIOUS
<1>1. Tables
  BY WatchlistAssumption DEF Init, Tables
<1>2. Idle \in Pass /\ newest = 0
  BY WatchlistAssumption DEF Init, Idle, Pass
<1>3. Good(Idle)
  BY <1>2, WatchlistAssumption DEF Good, Idle
<1>4. \A p, q : Covered(p, q)
  BY DEF Init, Covered
<1> QED
  BY <1>1, <1>2, <1>3, <1>4 DEF Init, WatchInv

LEMMA WatchStep == WatchInv /\ [Next]_vars => WatchInv'
<1> SUFFICES ASSUME WatchInv, [Next]_vars PROVE WatchInv'
  OBVIOUS
<1>1. CASE UNCHANGED vars
  <2>1. (\A p : Good(p) => Good(p)') /\ Tables'
    BY <1>1 DEF vars, table, Good, WatchInv, Tables
  <2>2. \A p, q : Covered(p, q) => Covered(p, q)'
    BY <1>1 DEF vars, table, Covered, Scanning, Reaches
  <2> QED
    BY <1>1, <2>1, <2>2, TablesStep DEF vars, WatchInv
<1>2. CASE AddTarget \/ Crash \/ \E t \in Targets : CommitTarget(t) \/ SetActive(t) \/ DeleteTarget(t)
  BY <1>2, AddTargetKeeps, CrashKeeps, CommitTargetKeeps, SetActiveKeeps, DeleteTargetKeeps
<1>3. CASE \E w \in Writers : Insert(w) \/ CommitIngest(w) \/ RollBackIngest(w)
  BY <1>3, InsertKeeps, CommitIngestKeeps, RollBackIngestKeeps
<1>4. CASE \E r \in Refreshers :
             \/ StartRefresh(r) \/ ReadPairs(r) \/ MatchExactly(r) \/ MatchFuzzily(r)
             \/ ReadMark(r) \/ CommitPass(r) \/ LoadEvents(r) \/ Undeliverable(r)
             \/ \E answered \in BOOLEAN : Post(r, answered)
  BY <1>4, StartKeeps, ReadPairsKeeps, MatchExactlyKeeps, MatchFuzzilyKeeps, ReadMarkKeeps,
     CommitPassKeeps, LoadEventsKeeps, UndeliverableKeeps, PostKeeps
<1> QED
  BY <1>1, <1>2, <1>3, <1>4 DEF Next

LEMMA WatchInvariant == Spec => []WatchInv
  BY WatchInit, WatchStep, PTL DEF Spec

\* matching.py: below the two marks every match has its alert, whatever fails,
\* overlaps, is added or deleted, but for what was committed under a mark and for
\* what a scan passed over while its target was paused.
THEOREM MarksHideNothing == Spec => []ScannedPairsAlerted
<1>1. WatchInv => ScannedPairsAlerted
  BY MarksCover DEF ScannedPairsAlerted
<1> QED
  BY <1>1, WatchInvariant, PTL

\* web/app.py: the channel is told of alerts that are stored, however often it
\* has to be told.
THEOREM TheChannelIsToldOfWhatIsStored == Spec => []ToldIsStored
<1>1. WatchInv => ToldIsStored
  BY DEF WatchInv, Good, ToldIsStored
<1> QED
  BY <1>1, WatchInvariant, PTL

-----------------------------------------------------------------------------
(* The copies of an alert.  A refresh that may still add one did not see   *)
(* one when it looked; each that looks later sees what was committed.      *)

\* A step that alerts nothing and lets nobody add a pair who could not.
LEMMA FewerAdders ==
  ASSUME AlertsBounded, NEW x \in Pairs, alerts \in [Pairs -> Nat], alerts'[x] = alerts[x],
         \A r \in Refreshers : MayAlert(pass[r], x)' => MayAlert(pass[r], x)
  PROVE  alerts'[x] + Cardinality(Adders(x)') <= Cardinality(Refreshers)
<1>1. IsFiniteSet(Adders(x)) /\ Adders(x)' \in SUBSET Adders(x)
  <2>1. Adders(x) \in SUBSET Refreshers /\ Adders(x)' \in SUBSET Adders(x)
    BY DEF Adders
  <2> QED
    BY <2>1, WatchlistAssumption, FS_Subset
<1>2. /\ Cardinality(Adders(x)') <= Cardinality(Adders(x))
      /\ Cardinality(Adders(x)) \in Nat /\ Cardinality(Adders(x)') \in Nat
      /\ Cardinality(Refreshers) \in Nat
  BY <1>1, WatchlistAssumption, FS_Subset, FS_CardinalityType
<1>3. alerts[x] + Cardinality(Adders(x)) <= Cardinality(Refreshers) /\ alerts[x] \in Nat
  BY DEF AlertsBounded
<1> QED
  BY <1>2, <1>3

\* Of a pair that has no alert any number of refreshes may add one.
LEMMA NothingAlerted ==
  ASSUME NEW x \in Pairs, alerts'[x] = 0
  PROVE  alerts'[x] + Cardinality(Adders(x)') <= Cardinality(Refreshers)
<1>1. Adders(x)' \in SUBSET Refreshers
  BY DEF Adders
<1> QED
  BY <1>1, WatchlistAssumption, FS_Subset, FS_CardinalityType

\* What one refresh does by itself.
LEMMA OnePassKeeps ==
  ASSUME WatchInv, NEW x \in Pairs, NEW r \in Refreshers, NEW next,
         pass' = [pass EXCEPT ![r] = next], MayAlert(next, x) => MayAlert(pass[r], x),
         NEW o \in Refreshers, MayAlert(pass[o], x)'
  PROVE  MayAlert(pass[o], x)
<1>1. CASE o = r
  BY <1>1 DEF MayAlert, WatchInv
<1>2. CASE o # r
  BY <1>2 DEF MayAlert, WatchInv
<1> QED
  BY <1>1, <1>2

LEMMA CommitBounded ==
  ASSUME WatchInv, AlertsBounded, NEW r \in Refreshers, CommitPass(r), NEW x \in Pairs
  PROVE  alerts'[x] + Cardinality(Adders(x)') <= Cardinality(Refreshers)
<1> DEFINE next == IF pass[r].found = {} THEN Idle ELSE [Idle EXCEPT !.pc = "loading", !.found = pass[r].found]
<1>1. /\ pass[r].pc = "committing" /\ pass' = [pass EXCEPT ![r] = next]
      /\ alerts'[x] = alerts[x] + (IF x \in pass[r].found THEN 1 ELSE 0)
      /\ alerts \in [Pairs -> Nat]
  BY DEF CommitPass, Step, WatchInv, Tables
<1>2. next.pc \in {"idle", "loading"}
  BY DEF Idle
<1> HIDE DEF next
<1>3. ~MayAlert(next, x)
  BY <1>2 DEF MayAlert
<1>4. \A o \in Refreshers : MayAlert(pass[o], x)' => MayAlert(pass[o], x)
  BY <1>1, <1>3, OnePassKeeps
<1>5. CASE x \notin pass[r].found
  <2>1. alerts'[x] = alerts[x]
    BY <1>1, <1>5
  <2> QED
    BY <1>1, <1>4, <2>1, FewerAdders
<1>6. CASE x \in pass[r].found
  <2>1. r \in Adders(x)
    BY <1>1, <1>6 DEF Adders, MayAlert
  <2>2. pass'[r] = next
    BY <1>1 DEF WatchInv
  <2>3. ~MayAlert(pass[r], x)'
    BY <1>3, <2>2 DEF MayAlert
  <2>4. Adders(x)' \in SUBSET (Adders(x) \ {r})
    BY <1>4, <2>3 DEF Adders
  <2>5. IsFiniteSet(Adders(x)) /\ Cardinality(Adders(x)) \in Nat /\ Cardinality(Refreshers) \in Nat
    <3>1. Adders(x) \in SUBSET Refreshers
      BY DEF Adders
    <3> QED
      BY <3>1, WatchlistAssumption, FS_Subset, FS_CardinalityType
  <2>6. IsFiniteSet(Adders(x) \ {r}) /\ Cardinality(Adders(x) \ {r}) = Cardinality(Adders(x)) - 1
    BY <2>1, <2>5, FS_RemoveElement
  <2>7. Cardinality(Adders(x)') <= Cardinality(Adders(x)) - 1 /\ Cardinality(Adders(x)') \in Nat
    BY <2>4, <2>6, FS_Subset, FS_CardinalityType
  <2>8. alerts'[x] = alerts[x] + 1 /\ alerts[x] \in Nat
    BY <1>1, <1>6
  <2> QED
    BY <2>5, <2>7, <2>8 DEF AlertsBounded
<1> QED
  BY <1>5, <1>6

\* The steps of a refresh that insert nothing.
LEMMA PassBounded ==
  ASSUME WatchInv, AlertsBounded, NEW r \in Refreshers, NEW x \in Pairs,
         \/ StartRefresh(r) \/ ReadPairs(r) \/ MatchExactly(r) \/ MatchFuzzily(r)
         \/ ReadMark(r) \/ LoadEvents(r) \/ Undeliverable(r)
         \/ \E answered \in BOOLEAN : Post(r, answered)
  PROVE  alerts'[x] + Cardinality(Adders(x)') <= Cardinality(Refreshers)
<1>1. alerts' = alerts /\ alerts \in [Pairs -> Nat] /\ pass[r] \in Pass
  BY DEF StartRefresh, ReadPairs, MatchExactly, MatchFuzzily, ReadMark, LoadEvents, Undeliverable, Post,
         WatchInv, Tables
<1>2. CASE alerts[x] = 0
  BY <1>1, <1>2, NothingAlerted
<1>3. CASE alerts[x] > 0
  <2>1. ~MayAlert(Idle, x)
    BY DEF MayAlert, Idle
  <2>2. \E next : /\ pass' = [pass EXCEPT ![r] = next]
                  /\ MayAlert(next, x) => MayAlert(pass[r], x)
    <3>1. CASE pass' = [pass EXCEPT ![r] = Idle]
      BY <2>1, <3>1
    <3>2. CASE StartRefresh(r)
      <4>1. [pass[r] EXCEPT !.pc = "ingesting"].pc = "ingesting"
        BY <1>1 DEF Pass
      <4>2. pass' = [pass EXCEPT ![r] = [pass[r] EXCEPT !.pc = "ingesting"]]
        BY <3>2 DEF StartRefresh, WatchInv
      <4> QED
        BY <4>1, <4>2 DEF MayAlert
    <3>3. CASE ReadPairs(r)
      <4> DEFINE next == [Idle EXCEPT !.pc = "matching", !.targets = Active,
                                      !.pairs = {p \in Pairs : alerts[p] > 0}]
      <4>1. CASE Step(r, next)
        <5>1. next.pc = "matching" /\ x \in next.pairs
          BY <1>3 DEF Idle
        <5>2. ~MayAlert(next, x)
          BY <5>1 DEF MayAlert
        <5> QED
          BY <4>1, <5>2 DEF Step
      <4> QED
        BY <3>1, <3>3, <4>1 DEF ReadPairs, Step
    <3>4. CASE MatchExactly(r)
      <4> DEFINE hits == ((pass[r].targets \X victims) \cap Exact) \ pass[r].pairs
                 next == [pass[r] EXCEPT !.pc = "fuzzy", !.targets = {}, !.found = hits, !.pairs = @ \cup hits]
      <4>1. CASE Step(r, next)
        <5>1. /\ next.pc = "fuzzy" /\ next.found = hits /\ next.pairs = pass[r].pairs \cup hits
              /\ \A h \in hits : h \notin pass[r].pairs
          BY <1>1 DEF Pass
        <5> HIDE DEF hits
        <5>2. MayAlert(next, x) => MayAlert(pass[r], x)
          BY <3>4, <5>1 DEF MayAlert, MatchExactly
        <5> QED
          BY <4>1, <5>2 DEF Step
      <4> QED
        BY <3>1, <3>4, <4>1 DEF MatchExactly, Step
    <3>5. CASE MatchFuzzily(r)
      <4> DEFINE hits == (Unseen(Active) \cap Fuzzy) \ pass[r].pairs
                 none == [pass[r] EXCEPT !.pc = "committing", !.pairs = {}]
                 next == [pass[r] EXCEPT !.pc = "marking", !.found = @ \cup hits, !.pairs = {},
                                         !.tmax = Max(Active)]
      <4>1. CASE Step(r, none)
        <5>1. none.pc = "committing" /\ none.found = pass[r].found /\ pass[r].pc = "fuzzy"
          BY <1>1, <3>5 DEF Pass, MatchFuzzily
        <5>2. MayAlert(none, x) => MayAlert(pass[r], x)
          BY <5>1 DEF MayAlert
        <5> QED
          BY <4>1, <5>2 DEF Step
      <4>2. CASE Step(r, next)
        <5>1. /\ next.pc = "marking" /\ next.found = pass[r].found \cup hits /\ pass[r].pc = "fuzzy"
              /\ \A h \in hits : h \notin pass[r].pairs
          BY <1>1, <3>5 DEF Pass, MatchFuzzily
        <5> HIDE DEF hits
        <5>2. MayAlert(next, x) => MayAlert(pass[r], x)
          BY <5>1 DEF MayAlert
        <5> QED
          BY <4>2, <5>2 DEF Step
      <4> QED
        BY <3>5, <4>1, <4>2 DEF MatchFuzzily
    <3>6. CASE ReadMark(r)
      <4> DEFINE next == [pass[r] EXCEPT !.pc = "committing", !.vmax = Max(victims \cup {0}),
                                         !.vread = vmark, !.tread = tmark]
      <4>1. next.pc = "committing" /\ next.found = pass[r].found /\ pass[r].pc = "marking" /\ Step(r, next)
        BY <1>1, <3>6 DEF Pass, ReadMark
      <4>2. MayAlert(next, x) => MayAlert(pass[r], x)
        BY <4>1 DEF MayAlert
      <4> QED
        BY <4>1, <4>2 DEF Step
    <3>7. CASE LoadEvents(r)
      <4> DEFINE next == [pass[r] EXCEPT !.pc = "telling", !.found = {p \in pass[r].found : alerts[p] > 0}]
      <4>1. CASE Step(r, next)
        <5>1. next.pc = "telling"
          BY <1>1 DEF Pass
        <5> QED
          BY <4>1, <5>1 DEF Step, MayAlert
      <4> QED
        BY <3>1, <3>7, <4>1 DEF LoadEvents, Step
    <3>8. CASE \E answered \in BOOLEAN : Post(r, answered)
      <4> DEFINE next == [pass[r] EXCEPT !.attempt = @ + 1]
      <4>1. CASE Step(r, next) /\ pass[r].pc = "telling"
        <5>1. next.pc = "telling"
          BY <1>1, <4>1 DEF Pass
        <5> QED
          BY <4>1, <5>1 DEF Step, MayAlert
      <4> QED
        BY <3>1, <3>8, <4>1 DEF Post, Step
    <3> QED
      BY <3>1, <3>2, <3>3, <3>4, <3>5, <3>6, <3>7, <3>8 DEF Undeliverable, Step
  <2>3. \A o \in Refreshers : MayAlert(pass[o], x)' => MayAlert(pass[o], x)
    BY <2>2, OnePassKeeps
  <2> QED
    BY <1>1, <2>3, FewerAdders
<1> QED
  BY <1>1, <1>2, <1>3

\* Deleting a target takes the alerts of its pairs away.
LEMMA DeleteBounded ==
  ASSUME WatchInv, AlertsBounded, NEW t \in Targets, DeleteTarget(t), NEW x \in Pairs
  PROVE  alerts'[x] + Cardinality(Adders(x)') <= Cardinality(Refreshers)
<1>1. alerts'[x] = (IF x[1] = t THEN 0 ELSE alerts[x]) /\ pass' = pass /\ alerts \in [Pairs -> Nat]
  BY DEF DeleteTarget, WatchInv, Tables
<1>2. CASE x[1] = t
  BY <1>1, <1>2, NothingAlerted
<1>3. CASE x[1] # t
  BY <1>1, <1>3, FewerAdders DEF MayAlert
<1> QED
  BY <1>2, <1>3

\* What neither alerts nor scans: the watchlist grows or is paused, a source is
\* ingested, the process dies.
LEMMA OthersBounded ==
  ASSUME WatchInv, AlertsBounded, NEW x \in Pairs,
         \/ AddTarget \/ Crash \/ UNCHANGED vars
         \/ \E t \in Targets : CommitTarget(t) \/ SetActive(t)
         \/ \E w \in Writers : Insert(w) \/ CommitIngest(w) \/ RollBackIngest(w)
  PROVE  alerts'[x] + Cardinality(Adders(x)') <= Cardinality(Refreshers)
<1>1. alerts' = alerts /\ alerts \in [Pairs -> Nat]
  BY DEF AddTarget, CommitTarget, SetActive, Crash, vars, Insert, CommitIngest, RollBackIngest, WatchInv, Tables
<1>2. ~MayAlert(Idle, x)
  BY DEF MayAlert, Idle
<1>3. CASE pass' = pass
  BY <1>1, <1>3, FewerAdders DEF MayAlert
<1>4. CASE pass' = [r \in Refreshers |-> Idle]
  <2>1. \A r \in Refreshers : pass'[r] = Idle
    BY <1>4
  <2>2. \A r \in Refreshers : ~MayAlert(pass[r], x)'
    BY <1>2, <2>1 DEF MayAlert
  <2> QED
    BY <1>1, <2>2, FewerAdders
<1>5. ASSUME NEW w \in Refreshers, NEW next, pass' = [pass EXCEPT ![w] = next], ~MayAlert(next, x)
      PROVE  alerts'[x] + Cardinality(Adders(x)') <= Cardinality(Refreshers)
  <2>1. \A o \in Refreshers : MayAlert(pass[o], x)' => MayAlert(pass[o], x)
    BY <1>5, OnePassKeeps
  <2> QED
    BY <1>1, <2>1, FewerAdders
<1>6. ASSUME NEW w \in Refreshers, CommitIngest(w)
      PROVE  alerts'[x] + Cardinality(Adders(x)') <= Cardinality(Refreshers)
  <2> DEFINE next == [pass[w] EXCEPT !.pc = "checking"]
  <2>1. next.pc = "checking"
    BY DEF WatchInv, Pass
  <2>2. pass' = [pass EXCEPT ![w] = next]
    BY <1>6 DEF CommitIngest, WatchInv
  <2> QED
    BY <1>5, <2>1, <2>2 DEF MayAlert
<1>7. ASSUME NEW w \in Refreshers, RollBackIngest(w)
      PROVE  alerts'[x] + Cardinality(Adders(x)') <= Cardinality(Refreshers)
  BY <1>2, <1>5, <1>7 DEF RollBackIngest
<1> QED
  BY <1>3, <1>4, <1>6, <1>7 DEF AddTarget, CommitTarget, SetActive, Crash, vars, Insert, CommitIngest, RollBackIngest

LEMMA AlertsInit == Init => AlertsBounded
<1> SUFFICES ASSUME Init, NEW x \in Pairs
             PROVE  alerts[x] + Cardinality(Adders(x)) <= Cardinality(Refreshers)
  BY DEF AlertsBounded
<1>1. alerts[x] = 0 /\ Adders(x) \in SUBSET Refreshers
  BY DEF Init, Adders
<1> QED
  BY <1>1, WatchlistAssumption, FS_Subset, FS_CardinalityType

LEMMA AlertsStep == WatchInv /\ AlertsBounded /\ [Next]_vars => AlertsBounded'
<1> SUFFICES ASSUME WatchInv, AlertsBounded, [Next]_vars, NEW x \in Pairs
             PROVE  alerts'[x] + Cardinality(Adders(x)') <= Cardinality(Refreshers)
  BY DEF AlertsBounded
<1>1. CASE \/ AddTarget \/ Crash \/ UNCHANGED vars
           \/ \E t \in Targets : CommitTarget(t) \/ SetActive(t)
           \/ \E w \in Writers : Insert(w) \/ CommitIngest(w) \/ RollBackIngest(w)
  BY <1>1, OthersBounded
<1>2. CASE \E t \in Targets : DeleteTarget(t)
  BY <1>2, DeleteBounded
<1>3. ASSUME NEW r \in Refreshers,
             \/ StartRefresh(r) \/ ReadPairs(r) \/ MatchExactly(r) \/ MatchFuzzily(r)
             \/ ReadMark(r) \/ LoadEvents(r) \/ Undeliverable(r)
             \/ \E answered \in BOOLEAN : Post(r, answered)
      PROVE  alerts'[x] + Cardinality(Adders(x)') <= Cardinality(Refreshers)
  BY <1>3, PassBounded
<1>4. CASE \E r \in Refreshers : CommitPass(r)
  BY <1>4, CommitBounded
<1> QED
  BY <1>1, <1>2, <1>3, <1>4 DEF Next

\* The types of the variables, and with them the bound on the copies of an
\* alert: however many refreshes race, one each.
THEOREM TypeCorrect == Spec => []TypeOK
<1>1. ASSUME WatchInv, AlertsBounded, NEW x \in Pairs
      PROVE  alerts[x] \in 0..Cardinality(Refreshers)
  <2>1. Adders(x) \in SUBSET Refreshers
    BY DEF Adders
  <2>2. Cardinality(Adders(x)) \in Nat /\ Cardinality(Refreshers) \in Nat
    BY <2>1, WatchlistAssumption, FS_Subset, FS_CardinalityType
  <2> QED
    BY <1>1, <2>2 DEF AlertsBounded, WatchInv, Tables
<1>2. WatchInv /\ AlertsBounded => TypeOK
  <2> SUFFICES ASSUME WatchInv, AlertsBounded PROVE TypeOK
    OBVIOUS
  <2>1. alerts \in [Pairs -> 0..Cardinality(Refreshers)]
    BY <1>1 DEF WatchInv, Tables
  <2> QED
    BY <2>1 DEF WatchInv, Tables, TypeOK
<1>3. Spec => [](WatchInv /\ AlertsBounded)
  BY AlertsInit, AlertsStep, WatchInit, WatchStep, PTL DEF Spec
<1> QED
  BY <1>2, <1>3, PTL
=============================================================================
