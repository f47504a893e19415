------------------------------- MODULE Enrichers ------------------------------
(***************************************************************************)
(* The two enrichers that make a group's profile out of what others        *)
(* publish: MITRE ATT&CK's bundle (clients/mitre_attack.py) and the three  *)
(* files of deepdarkCTI (clients/deepdarkcti.py).  The scheduler runs one  *)
(* after the other when it is time (pipeline/scheduler.py); a refresh from *)
(* the web runs both in another process, and is seen here by what it       *)
(* commits between two steps of the scheduler.                             *)
(*                                                                         *)
(* A name stands for its forms in upper and lower case, and an item of     *)
(* deepdarkCTI for a row of one of its files: a page of a gang             *)
(* (a location), or a channel to it.                                       *)
(***************************************************************************)
EXTENDS Naturals, Sequences, Functions, FiniteSetsExt

CONSTANTS
  Names, Key,        \* names, and normalize_group_name
  Known, Groups,     \* groups the backfill has stored, and those there may be
  Altnames,          \* <<group, altname>> pairs an ingest may bring
  SKIP_MATCHES,      \* keys too common to match by
  SOFTWARE_TO_GROUP, \* groups by the software named after them
  Bundles,           \* the bundles MITRE publishes, one after the other
  Techniques, Countries,
  Items, FileOf, NamedBy, Pages, \* deepdarkCTI's rows: their file, the gang, and which are pages
  Week,              \* the interval of the enrichments
  None,              \* no group, no country, no payload
  AwareTimestamps    \* a time read back has its zone (PostgreSQL), or lost it (SQLite)

Files == <<"ransomware_gang", "telegram_threat_actors", "twitter_threat_actors">>
Versions == DOMAIN Bundles
Never == Week + 1

\* A group of MITRE's, and an object of any other kind.
MitreGroup == [id : STRING, names : Seq(Names), country : Countries \cup {None}, edited : Nat, live : BOOLEAN]

ASSUME EnrichersAssumption ==
  /\ Bundles \in Seq([groups : Seq(MitreGroup), techniques : SUBSET [id : Techniques, live : BOOLEAN],
                      software : SUBSET [id : STRING, live : BOOLEAN],
                      uses : SUBSET [source : STRING, target : STRING, live : BOOLEAN]])
  /\ Bundles # <<>>
  /\ Known \in Seq(Groups) /\ \A i, j \in DOMAIN Known : Known[i] = Known[j] => i = j
  /\ Groups \subseteq Names /\ DOMAIN Key = Names
  /\ Altnames \subseteq Groups \X Names
  /\ FileOf \in [Items -> Range(Files)] /\ NamedBy \in [Items -> Names]
  /\ Pages \subseteq {i \in Items : FileOf[i] = Files[1]}
  /\ None \notin Groups \cup Countries /\ None \notin MitreGroup
  /\ Week \in Nat \ {0} /\ AwareTimestamps \in BOOLEAN

VARIABLES
  bundle, listed,   \* what is published: the bundle's version, deepdarkCTI's rows
  groups,           \* the groups in the database, in the order of their ids
  profile,          \* what a group has from MITRE
  comms, locations, \* group_comms, and the copies of a row of group_locations
  last,             \* version published when MITRE's last pass ended, 0 for none
  tag, cache,       \* versions of the etag file and of the cached bundle, 0 for none
  age,              \* time since deepdarkCTI's last pass
  pc,               \* where the scheduler stands
  changed,          \* what the freshness check said
  index, added, any_success \* its pass over deepdarkCTI: names, flushed rows, a file was read

published == <<bundle, listed>>
mitre == <<profile, last, tag, cache, changed>>
session == <<index, added, any_success>>
deepdark == <<comms, locations, age, session>>
vars == <<published, groups, mitre, deepdark, pc>>

Stored == Range(groups)

Init == /\ bundle = 1 /\ listed = {} /\ groups = Known
        /\ profile = [g \in Groups |-> [aliases |-> {}, country |-> None, ttps |-> {},
                                        tools |-> {}, evidence |-> None, history |-> <<>>]]
        /\ comms = {} /\ locations = [x \in Groups \X Pages |-> 0]
        /\ last = 0 /\ tag = 0 /\ cache = 0 /\ changed = FALSE /\ age = Never
        /\ pc = "mitre" /\ index = [k \in Range(Key) |-> None] /\ added = {} /\ any_success = FALSE

-----------------------------------------------------------------------------
(* What others do: MITRE and deepdarkCTI publish, an ingest commits.       *)

Release == /\ bundle + 1 \in Versions
           /\ bundle' = bundle + 1
           /\ UNCHANGED <<listed, groups, mitre, deepdark, pc>>

Relist(i) == /\ listed' = IF i \in listed THEN listed \ {i} ELSE listed \cup {i}
             /\ UNCHANGED <<bundle, groups, mitre, deepdark, pc>>

IngestGroup(g) == /\ g \notin Stored
                  /\ groups' = Append(groups, g)
                  /\ UNCHANGED <<published, mitre, deepdark, pc>>

\* _merge_altname
MergeAltname(g, name) ==
  /\ g \in Stored /\ name \notin profile[g].aliases
  /\ profile' = [profile EXCEPT ![g].aliases = @ \cup {name}]
  /\ UNCHANGED <<published, groups, last, tag, cache, changed, deepdark, pc>>

-----------------------------------------------------------------------------
(* Reading the bundle: objects that are revoked or deprecated are left out.*)

Live(objects) == {o \in objects : o.live}

\* The groups are named by their positions.
parse_mitre_groups == [v \in Versions |-> {i \in DOMAIN Bundles[v].groups : Bundles[v].groups[i].live}]
parse_mitre_techniques == [v \in Versions |-> {t.id : t \in Live(Bundles[v].techniques)}]
parse_mitre_software == [v \in Versions |-> {s.id : s \in Live(Bundles[v].software)}]

\* (mutant) A relationship counts whatever became of it.
parse_all_relationships == [v \in Versions |-> {<<u.source, u.target>> : u \in Bundles[v].uses}]

parse_relationships == [v \in Versions |-> {<<u.source, u.target>> : u \in Live(Bundles[v].uses)}]

\* _build_relationship_maps: what a group, or a software, uses.
UsesOf(v, source, targets) == {t \in targets : <<source, t>> \in parse_relationships[v]}

\* _filter_modified_since: the groups edited since the last pass.
Modified(v) == {i \in parse_mitre_groups[v] : Bundles[v].groups[i].edited > last}

\* The group a key stands for: of several, the one ingested last.
Lookup(k) == LET by == {i \in DOMAIN groups : Key[groups[i]] = k}
             IN  IF by = {} THEN None ELSE groups[Max(by)]

\* match_groups: by its first name that a group has too.
MatchOf(mg) ==
  LET hits == {i \in DOMAIN mg.names : /\ Key[mg.names[i]] \notin SKIP_MATCHES
                                       /\ Lookup(Key[mg.names[i]]) # None}
  IN  IF hits = {} THEN None ELSE Lookup(Key[mg.names[Min(hits)]])

-----------------------------------------------------------------------------
(* Writing a group's profile.                                              *)

Payload(mg) == [mg EXCEPT !.edited = 0]

\* (mutant) What was there is archived even if nothing is new.
UpsertAlways(p, payload) ==
  [p EXCEPT !.evidence = payload, !.history = IF p.evidence = None THEN @ ELSE Append(@, p.evidence)]

\* upsert_source_evidence: what it replaces is archived, the same again is not.
Upsert(p, payload) ==
  IF p.evidence = payload THEN p
  ELSE [p EXCEPT !.evidence = payload, !.history = IF p.evidence = None THEN @ ELSE Append(@, p.evidence)]

\* _merge_aliases: nothing is dropped; its own name is no alias.
MergedAliases(g, aliases, mg) == (aliases \cup Range(mg.names)) \ {g}

\* _import_ttps_for_group: the database refuses what the group has already.
Imported(ttps, found) == ttps \cup found

\* _enrich_matched_groups, for one match.
Matched(p, g, v, mg) ==
  [Upsert(p, Payload(mg)) EXCEPT
     !.aliases = MergedAliases(g, @, mg),
     !.country = IF mg.country = None THEN @ ELSE mg.country,
     !.ttps    = Imported(@, UsesOf(v, mg.id, parse_mitre_techniques[v])),
     !.tools   = @ \cup UsesOf(v, mg.id, parse_mitre_software[v])]

EnrichedBy(profiles, v, mg) ==
  LET g == MatchOf(mg)
  IN  IF g = None THEN profiles ELSE [profiles EXCEPT ![g] = Matched(@, g, v, mg)]

\* _enrich_software_matches: never filtered.
BySoftware(profiles, v) ==
  [g \in Groups |->
     LET mine == {s \in parse_mitre_software[v] \cap DOMAIN SOFTWARE_TO_GROUP :
                    SOFTWARE_TO_GROUP[s] = g /\ g \in Stored}
     IN  [profiles[g] EXCEPT !.ttps = Imported(@, UNION {UsesOf(v, s, parse_mitre_techniques[v]) : s \in mine})]]

\* The groups at some positions of a bundle, one after the other in its order.
Enriched(profiles, v, at) ==
  LET mgs == Bundles[v].groups
      after[i \in 0..Len(mgs)] == IF i = 0 THEN profiles
                                  ELSE IF i \in at THEN EnrichedBy(after[i - 1], v, mgs[i])
                                  ELSE after[i - 1]
  IN  BySoftware(after[Len(mgs)], v)

-----------------------------------------------------------------------------
(* The incremental enrichment from MITRE ATT&CK.                           *)

\* Switched off, not due yet, or a signal has come.
SkipMitre == /\ pc = "mitre"
             /\ pc' = "deepdark"
             /\ UNCHANGED <<published, groups, mitre, deepdark>>

\* _find_unenriched_groups
Unenriched == {g \in Stored : profile[g].ttps = {}}

\* The bundle is asked for its tag, which is kept before the bundle is loaded.
CheckFreshness ==
  /\ pc = "mitre"
  /\ changed' = (tag # bundle)
  /\ tag' = IF changed' \/ Unenriched # {} THEN bundle ELSE tag
  /\ pc' = IF changed' \/ Unenriched # {} THEN "load" ELSE "deepdark"
  /\ UNCHANGED <<published, groups, profile, last, cache, deepdark>>

\* The request for the tag fails: assumed changed.
FreshnessUnknown == /\ pc = "mitre"
                    /\ changed' = TRUE
                    /\ pc' = "load"
                    /\ UNCHANGED <<published, groups, profile, last, tag, cache, deepdark>>

LoadBundle == /\ pc = "load"
              /\ cache' = IF changed \/ cache = 0 THEN bundle ELSE cache
              /\ pc' = "enrich" /\ changed' = FALSE
              /\ UNCHANGED <<published, groups, profile, last, tag, deepdark>>

DownloadFails == /\ pc = "load" /\ (changed \/ cache = 0)
                 /\ pc' = "deepdark" /\ changed' = FALSE
                 /\ UNCHANGED <<published, groups, profile, last, tag, cache, deepdark>>

\* One transaction, with the time of the pass.
Enrich == /\ pc = "enrich"
          /\ profile' = Enriched(profile, cache,
                                 IF last = 0 THEN parse_mitre_groups[cache] ELSE Modified(cache))
          /\ last' = bundle
          /\ pc' = "deepdark"
          /\ UNCHANGED <<published, groups, tag, cache, changed, deepdark>>

\* A refresh from the web forces it: the bundle is downloaded, nothing filtered.
ForcedEnrichment ==
  /\ cache' = bundle
  /\ profile' = Enriched(profile, bundle, parse_mitre_groups[bundle])
  /\ last' = bundle
  /\ UNCHANGED <<published, groups, tag, changed, deepdark, pc>>

-----------------------------------------------------------------------------
(* The enrichment from deepdarkCTI.                                        *)

\* _build_name_index: a group by its name and its aliases, the last one wins.
NameIndex ==
  [k \in Range(Key) |->
     LET by == {i \in DOMAIN groups : \E n \in {groups[i]} \cup profile[groups[i]].aliases : Key[n] = k}
     IN  IF by = {} THEN None ELSE groups[Max(by)]]

\* What the rows of a file say, by the names of an index.
RowsOf(file, names) ==
  {<<names[Key[NamedBy[i]]], i>> : i \in {j \in listed : /\ FileOf[j] = file
                                                         /\ names[Key[NamedBy[j]]] # None}}

\* A channel is unique in the database, its insert guarded by a savepoint; a
\* page is not, and was looked for when the row was read.
Added(S) ==
  /\ comms' = comms \cup {x \in S : x[2] \notin Pages}
  /\ locations' = [x \in DOMAIN locations |-> IF x \in S THEN locations[x] + 1 ELSE locations[x]]

\* (mutant) A page is not looked for.
NotJustAdded(x) == x \notin added

Unknown(x) == x \notin added /\ (x[2] \in Pages => locations[x] = 0)

\* (mutant) Once is enough.
DueOnce == age = Never

\* _enrichment_due, and the check of enrich_deepdarkcti for the same interval.
Due == age >= Week

\* To compare a time that lost its zone with one that has it raises.
Comparable == age = Never \/ AwareTimestamps

\* Nothing is done; a TypeError is logged as a failed enrichment.
NotRun == /\ pc = "deepdark" /\ ~(Due /\ Comparable)
          /\ pc' = "wait"
          /\ UNCHANGED <<published, groups, mitre, deepdark>>

Start == /\ pc = "deepdark" /\ Due /\ Comparable
         /\ index' = NameIndex
         /\ pc' = Files[1]
         /\ UNCHANGED <<published, groups, mitre, comms, locations, age, added, any_success>>

After(file) == CASE file = Files[1] -> Files[2]
                 [] file = Files[2] -> Files[3]
                 [] file = Files[3] -> "stamp"

ReadFile == /\ pc \in Range(Files)
            /\ added' = added \cup {x \in RowsOf(pc, index) : Unknown(x)}
            /\ any_success' = TRUE
            /\ pc' = After(pc)
            /\ UNCHANGED <<published, groups, mitre, comms, locations, age, index>>

\* The file cannot be fetched: the others are read all the same.  (With
\* nothing new in it, that is no different from one that can.)
FileFails == /\ pc \in Range(Files)
             /\ pc' = After(pc)
             /\ UNCHANGED <<published, groups, mitre, deepdark>>
             /\ ~any_success \/ \E x \in RowsOf(pc, index) : Unknown(x)

\* The time is set if any file was read; everything is committed together.
Stamp == /\ pc = "stamp"
         /\ Added(added)
         /\ age' = IF any_success THEN 0 ELSE age
         /\ pc' = "wait"
         /\ index' = [k \in Range(Key) |-> None] /\ added' = {} /\ any_success' = FALSE
         /\ UNCHANGED <<published, groups, mitre>>

\* A refresh from the web runs it as well, if it is time.  (A channel the
\* scheduler has flushed makes it wait.)
NewIn(read) == {x \in UNION {RowsOf(file, NameIndex) : file \in read} :
                  x[2] \in Pages => locations[x] = 0}

RefreshReads(read) ==
  /\ \A x \in NewIn(read) \cap added : x[2] \in Pages
  /\ Added(NewIn(read))

RefreshDeepdark == /\ Due /\ Comparable
                   /\ age' = 0
                   /\ UNCHANGED <<published, groups, mitre, session, pc>>
                   /\ RefreshReads(Range(Files))

\* Some of its files fail, with news in them, and the time is set.
RefreshMisses == /\ Due /\ Comparable
                 /\ age' = 0
                 /\ UNCHANGED <<published, groups, mitre, session, pc>>
                 /\ \E read \in (SUBSET Range(Files)) \ {{}} :
                      /\ ~(NewIn(Range(Files)) \ comms \subseteq NewIn(read))
                      /\ RefreshReads(read)

-----------------------------------------------------------------------------
\* The wait for the next cycle; time goes by.
Wait == /\ pc = "wait"
        /\ pc' = "mitre"
        /\ age' = IF age < Week THEN age + 1 ELSE age
        /\ UNCHANGED <<published, groups, mitre, comms, locations, session>>

\* Switched off by an administrator, or a signal has come.
SkipDeepdark == /\ pc = "deepdark" /\ Due /\ Comparable
                /\ pc' = "wait"
                /\ UNCHANGED <<published, groups, mitre, deepdark>>

\* The process dies with its session, and is started again.
Restart == /\ pc \notin {"mitre", "wait"}
           /\ pc' = "mitre" /\ changed' = FALSE
           /\ index' = [k \in Range(Key) |-> None] /\ added' = {} /\ any_success' = FALSE
           /\ UNCHANGED <<published, groups, profile, last, tag, cache, comms, locations, age>>

Cycle == \/ SkipMitre \/ CheckFreshness \/ LoadBundle \/ Enrich
         \/ NotRun \/ Start \/ ReadFile \/ Stamp \/ Wait

Failure == FreshnessUnknown \/ DownloadFails \/ FileFails \/ RefreshMisses \/ SkipDeepdark \/ Restart

Others == \/ Release \/ \E i \in Items : Relist(i)
          \/ \E g \in Groups : IngestGroup(g)
          \/ \E x \in Altnames : MergeAltname(x[1], x[2])
          \/ ForcedEnrichment \/ RefreshDeepdark

Next == Cycle \/ Failure \/ Others

\* The scheduler goes on with its loop.
Spec == Init /\ [][Next]_vars /\ WF_vars(Cycle)

-----------------------------------------------------------------------------
\* The reference: a group of the database is described by an object of a
\* bundle, or named after its software, and that object is said to use the
\* technique.
Supports(b, g, t) ==
  /\ \E o \in b.techniques : o.id = t /\ o.live
  /\ \E u \in b.uses :
       /\ u.live /\ u.target = t
       /\ \/ \E i \in DOMAIN b.groups : LET mg == b.groups[i] IN
               /\ mg.id = u.source /\ mg.live
               /\ \E n \in Range(mg.names) : Key[n] = Key[g] /\ Key[n] \notin SKIP_MATCHES
          \/ /\ \E o \in b.software : o.id = u.source /\ o.live
             /\ u.source \in DOMAIN SOFTWARE_TO_GROUP /\ SOFTWARE_TO_GROUP[u.source] = g

MatchesTo(v, g) == {i \in parse_mitre_groups[v] : MatchOf(Bundles[v].groups[i]) = g}

Arrived(i) == LET g == NameIndex[Key[NamedBy[i]]]
              IN  \/ g = None
                  \/ i \in Pages /\ locations[<<g, i>>] > 0
                  \/ <<g, i>> \in comms

-----------------------------------------------------------------------------
\* The types of the variables, and what two processes may do to a table no
\* constraint guards: of a page, at most one copy for each of them.
TypeOK ==
  /\ bundle \in Versions /\ listed \subseteq Items
  /\ groups \in Seq(Groups) /\ \A i, j \in DOMAIN groups : groups[i] = groups[j] => i = j
  /\ profile \in [Groups -> [aliases : SUBSET Names, country : Countries \cup {None},
                             ttps : SUBSET Techniques, tools : SUBSET STRING,
                             evidence : MitreGroup \cup {None}, history : Seq(MitreGroup)]]
  /\ comms \subseteq Groups \X (Items \ Pages)
  /\ locations \in [Groups \X Pages -> 0..2]
  /\ last \in 0..bundle /\ tag \in 0..bundle /\ cache \in 0..bundle
  /\ age \in 0..Never /\ changed \in BOOLEAN /\ any_success \in BOOLEAN
  /\ pc \in {"mitre", "load", "enrich", "deepdark", "stamp", "wait"} \cup Range(Files)
  /\ added \subseteq Groups \X Items /\ index \in [Range(Key) -> Groups \cup {None}]

\* A technique of a group was said of it by a bundle MITRE published: not by a
\* revoked relationship, of a revoked technique or of a group with another
\* name (parse_relationships, match_groups).
TechniquesSupported ==
  \A g \in Groups : \A t \in profile[g].ttps : \E v \in 1..bundle : Supports(Bundles[v], g, t)

\* "Unchanged payloads are skipped entirely -- no churn" (source_evidence.py):
\* to enrich again from the same bundle changes nothing, whatever passes,
\* filtered or not, and aliases came before.  Of a group that two of MITRE's
\* match, each archives the other's payload; but nothing is archived that is
\* replaced by the same.
NoChurn ==
  LET mgs   == parse_mitre_groups[bundle]
      once  == Enriched(profile, bundle, mgs)
      twice == Enriched(once, bundle, mgs)
  IN  \A g \in Groups :
        /\ \A f \in {"aliases", "country", "ttps", "tools"} : twice[g][f] = once[g][f]
        /\ Cardinality(MatchesTo(bundle, g)) <= 1 => twice[g] = once[g]
        /\ LET p == profile[g]
           IN  \A i \in DOMAIN p.history :
                 p.history[i] # IF i = Len(p.history) THEN p.evidence ELSE p.history[i + 1]

\* "MITRE, Ransomwhere, and deepdarkCTI enrichments refresh weekly"
\* (docs/FAQ.md): if from some time on nothing fails, what deepdarkCTI goes on
\* listing for a group in the database gets there, or is no longer listed --
\* even if the group was ingested, or got the alias it is listed by, later.
RefreshedWeekly ==
  (<>[][~Failure]_vars) => \A i \in Items : (i \in listed) ~> (Arrived(i) \/ i \notin listed)
=============================================================================
