------------------------------ MODULE Enrichment ------------------------------
(***************************************************************************)
(* What the gate does to the adversary database once a sketch is trusted   *)
(* (ai/enrichment): names are resolved to groups (resolver.py), trusted    *)
(* wallets and leak sites are appended to a group with an audit row for    *)
(* each field (apply.py), synonyms are put to a person as proposals, and   *)
(* an article's enrichment can be taken back (revert.py).  The feed and    *)
(* the Ransomwhere enricher write the same fields and audit nothing.       *)
(*                                                                         *)
(* Names are compared without case and outer blanks, and are written so.   *)
(* How the gate comes to trust a sketch or an indicator is the module      *)
(* ConfidenceGate.                                                         *)
(***************************************************************************)
EXTENDS Naturals, SequencesExt, FiniteSetsExt

CONSTANTS
  Groups, Articles, Names,
  GroupName,         \* two groups may have names that differ only in case
  Ratio,             \* fuzz.ratio of a name and the name of a group
  Cutoff,            \* fuzzy_threshold
  Aliases,           \* the aliases a group has
  NEGATIVE_ALIASES,
  Sketch,            \* the actors an article names, and what each is a synonym of
  Fields,            \* profile_urls and btc_addresses
  Indicators,        \* those of an article, per field
  Onions, Platforms, \* indicators that are leak sites, or on somebody's platform
  Address,           \* the address of an indicator that is one
  RentedExact, RentedNetworks, RentedSpans, \* addresses, and ranges <<first, last>>
  FeedValues,        \* what the feed sets a field to
  LoneWallet,        \* the wallet a field holds that is no array
  Families,          \* Ransomwhere's families, and the addresses of each
  SKIP_FAMILIES,     \* families too generic to match by name
  MaxAudit,          \* bound: audit rows
  MaxOthers          \* bound: writes of the feed and of Ransomwhere

Nobody == "nobody"
Unreadable == <<"not", "an", "array">>
Items == (UNION {FeedValues[f] \cup (UNION {ToSet(Indicators[a][f]) : a \in Articles}) : f \in Fields})
           \cup (UNION {ToSet(Families[f]) : f \in DOMAIN Families})

ASSUME EnrichmentAssumption ==
  /\ GroupName \in [Groups -> Names] /\ Aliases \in [Groups -> SUBSET Names]
  /\ Ratio \in [Names -> [Groups -> 0..100]] /\ Cutoff \in 0..100
  /\ Sketch \in [Articles -> SUBSET [name : Names, related_to : Names \cup {Nobody}]]
  /\ DOMAIN Indicators = Articles /\ MaxAudit \in Nat /\ MaxOthers \in Nat
  /\ DOMAIN Families \subseteq Names /\ "btc_addresses" \in Fields
  /\ IsFiniteSet(Groups) /\ IsFiniteSet(Fields) /\ IsFiniteSet(DOMAIN Families)
  \* article_iocs is unique per article, type and value; a family's addresses are a set
  /\ \A a \in Articles, f \in Fields : Indicators[a][f] \in Seq(Items) /\ IsInjective(Indicators[a][f])
  /\ \A f \in DOMAIN Families : Families[f] \in Seq(Items) /\ IsInjective(Families[f])
  \* from_entries skips a span that ends before it begins; iptoasn: one origin for a prefix
  /\ \A s \in RentedSpans : s \in Nat \X Nat /\ s[1] <= s[2]
  /\ \A s, t \in RentedSpans : s = t \/ s[2] < t[1] \/ t[2] < s[1]
  /\ Address \in [DOMAIN Address -> Nat]
  /\ Nobody \notin Articles /\ {"unwritten", "overwritten"} \cap Items = {}

VARIABLES
  stored,     \* per group and field, an array (a sequence) or Unreadable
  audit,      \* ai_enrichment_audit, in the order of its ids
  proposals,  \* group_alias_proposals
  others,     \* how often a field was written unaudited
  past        \* history: what a field held before an article first wrote it;
              \* Overwritten once somebody else has written it since

vars == <<stored, audit, proposals, others, past>>

-----------------------------------------------------------------------------
(* Python's filters, [x for x in s if x in S].                             *)

InOrder(positions) ==
  LET n == Cardinality(positions)
  IN  CHOOSE s \in [1..n -> positions] : \A i, j \in 1..n : i < j => s[i] < s[j]

Keep(s, S) == LET at == InOrder({i \in DOMAIN s : s[i] \in S})
              IN  [i \in DOMAIN at |-> s[at[i]]]

-----------------------------------------------------------------------------

Overwritten == <<"overwritten">>
Unwritten == <<"unwritten">>
Cells == Groups \X Fields

Init == /\ stored = [c \in Cells |-> <<>>]
        /\ audit = <<>> /\ proposals = {} /\ others = 0
        /\ past = [a \in Articles |-> [c \in Cells |-> Unwritten]]

-----------------------------------------------------------------------------
(* resolve(name, create=False).                                            *)

Matches(n) ==
  LET exact    == {g \in Groups : GroupName[g] = n}
      approved == {p.group : p \in {q \in proposals : q.status = "approved" /\ q.alias = n}}
      near     == {g \in Groups : Ratio[n][g] >= Cutoff}
  IN  IF exact # {} THEN exact
      ELSE IF approved # {} THEN approved
      ELSE {g \in near : \A h \in near : Ratio[n][h] <= Ratio[n][g]}

\* Two that match equally well are no match.
Resolved(n) == IF Cardinality(Matches(n)) = 1 THEN Matches(n) ELSE {}

-----------------------------------------------------------------------------
(* What is not the adversary's own (exclusions.py).                        *)

\* (mutant) The span that starts at the address is not looked at.
_span_starting_before(n) == \E s \in RentedSpans :
  s[1] < n /\ n <= s[2] /\ \A t \in RentedSpans : t[1] < n => t[1] <= s[1]

\* By bisection: the last span that does not start after the address, if it
\* reaches that far.
_span_covering(n) == \E s \in RentedSpans :
  s[1] <= n /\ n <= s[2] /\ \A t \in RentedSpans : t[1] <= n => t[1] <= s[1]

covers(n) == \/ n \in RentedExact
             \/ \E block \in RentedNetworks : n \in block[1]..block[2]
             \/ _span_covering(n)

not_the_adversarys(v) == /\ v \notin Onions
                         /\ v \in Platforms \/ (v \in DOMAIN Address /\ covers(Address[v]))

NothingToCheckAgainst == RentedExact = {} /\ RentedNetworks = {} /\ RentedSpans = {}

\* _infrastructure_from, before the gate has had its say: nothing at all if the
\* published ranges were not on disk when the process first asked.
Infrastructure(a) ==
  IF NothingToCheckAgainst THEN {}
  ELSE {v \in UNION {ToSet(Indicators[a][f]) : f \in Fields} : ~not_the_adversarys(v)}

-----------------------------------------------------------------------------
(* apply_enrichment: one audit row for a field that gains something.       *)

\* (mutant) What the field has already is appended again.
FreshOrNot(c, values) == values

Fresh(c, values) == Keep(values, ToSet(values) \ ToSet(stored[c]))

Written(values, groups) ==
  {c \in groups \X Fields : stored[c] # Unreadable /\ Fresh(c, values[c[2]]) # <<>>}

Row(a, c, action, before, after) ==
  [article |-> a, cell |-> c, action |-> action, before |-> before, after |-> after]

\* What each article is known to have found before its first write, after these
\* cells were written by who (an article, or Nobody).
PastAfter(who, cells) ==
  [a \in Articles |-> [c \in Cells |->
     IF c \notin cells THEN past[a][c]
     ELSE IF a # who THEN (IF past[a][c] = Unwritten THEN Unwritten ELSE Overwritten)
     ELSE IF past[a][c] = Unwritten THEN stored[c] ELSE past[a][c]]]

\* (mutant) Only proposals nobody has decided keep an alias from being proposed.
ProposableAgain(n, g) ==
  /\ n \notin NEGATIVE_ALIASES /\ n # GroupName[g] /\ n \notin Aliases[g]
  /\ ~\E p \in proposals : p.group = g /\ p.alias = n /\ p.status = "pending"

Proposable(n, g) ==
  /\ n \notin NEGATIVE_ALIASES /\ n # GroupName[g] /\ n \notin Aliases[g]
  /\ ~\E p \in proposals : p.group = g /\ p.alias = n

\* _synonyms: a name that resolves to nothing, of a name that does.
Synonyms(a) == {s \in Names \X Groups :
  /\ Resolved(s[1]) = {}
  /\ \E actor \in Sketch[a] : /\ actor.name = s[1] /\ actor.related_to # Nobody
                              /\ Resolved(actor.related_to) = {s[2]}}

\* A pass of the gate over an article whose sketch it trusts, and some of whose
\* indicators: everything is committed together.
Enrich(a) == \E auto \in SUBSET Infrastructure(a) :
  LET values == [f \in Fields |-> Keep(Indicators[a][f], auto)]
      groups == UNION {Resolved(actor.name) : actor \in Sketch[a]}
      cells  == Written(values, groups)
      order  == SetToSeq(cells)
      After(c) == stored[c] \o Fresh(c, values[c[2]])
  IN  /\ Len(audit) + Cardinality(cells) <= MaxAudit
      /\ stored' = [c \in Cells |-> IF c \in cells THEN After(c) ELSE stored[c]]
      /\ audit' = audit \o [i \in DOMAIN order |->
                              Row(a, order[i], "enrich", stored[order[i]], After(order[i]))]
      /\ proposals' = proposals \cup
           {[group |-> s[2], alias |-> s[1], article |-> a, status |-> "pending"] :
              s \in {t \in Synonyms(a) : Proposable(t[1], t[2])}}
      /\ past' = PastAfter(a, cells)
      /\ UNCHANGED others

Review(p, status) ==
  /\ p.status = "pending"
  /\ proposals' = (proposals \ {p}) \cup {[p EXCEPT !.status = status]}
  /\ UNCHANGED <<stored, audit, others, past>>

-----------------------------------------------------------------------------
(* revert_article: each row of the article writes back what it found, and  *)
(* is recorded as written back.                                            *)

\* The ids of the article's rows.
RowsOf(a) == InOrder({i \in DOMAIN audit : audit[i].article = a /\ audit[i].action = "enrich"})

\* (mutant) Oldest first.
OldestFirst(a) == RowsOf(a)

NewestFirst(a) == Reverse(RowsOf(a))

\* What a field holds once the first n of these rows have been written back.
WrittenBack(rows, n, c) ==
  LET wrote == {i \in 1..n : audit[rows[i]].cell = c}
  IN  IF wrote = {} THEN stored[c] ELSE audit[rows[Max(wrote)]].before

Revert(a) ==
  LET rows == NewestFirst(a)
  IN  /\ rows # <<>> /\ Len(audit) + Len(rows) <= MaxAudit
      /\ stored' = [c \in Cells |-> WrittenBack(rows, Len(rows), c)]
      /\ audit' = audit \o [i \in DOMAIN rows |->
                              LET r == audit[rows[i]]
                              IN  Row(a, r.cell, "revert", WrittenBack(rows, i - 1, r.cell), r.before)]
      /\ past' = PastAfter(a, {c \in Cells : stored'[c] # stored[c]})
      /\ UNCHANGED <<proposals, others>>

-----------------------------------------------------------------------------
(* The writers that audit nothing.                                         *)

WrittenByOthers(new) ==
  /\ others < MaxOthers
  /\ new # stored
  /\ stored' = new
  /\ others' = others + 1
  /\ past' = PastAfter(Nobody, {c \in Cells : new[c] # stored[c]})
  /\ UNCHANGED <<audit, proposals>>

\* _enrich_group_from_detail replaces the field; a lone wallet is no array.
FeedOverwrites(c) ==
  \E value \in {<<v>> : v \in FeedValues[c[2]]}
              \cup {IF c[2] = "btc_addresses" THEN Unreadable ELSE <<>>} :
    WrittenByOthers([stored EXCEPT ![c] = value])

\* _build_address_index, whoever wrote the address.
Owners(w) == {g \in Groups : LET cell == stored[<<g, "btc_addresses">>]
                             IN  IF cell = Unreadable THEN w = LoneWallet ELSE Contains(cell, w)}

\* _match_family: by the first address that is some group's, else by name.  (Of
\* several, the one read last.)
FamilyOf(f) ==
  LET held == {i \in DOMAIN Families[f] : Owners(Families[f][i]) # {}}
  IN  IF held # {} THEN Owners(Families[f][Min(held)])
      ELSE {g \in Groups : f \notin SKIP_FAMILIES /\ (GroupName[g] = f \/ f \in Aliases[g])}

\* It appends, and takes what it cannot read for empty.
WithFamily(state, g, f) ==
  LET c       == <<g, "btc_addresses">>
      present == IF state[c] = Unreadable THEN <<>> ELSE state[c]
  IN  [state EXCEPT ![c] = IF ToSet(Families[f]) \subseteq ToSet(present) THEN @
                           ELSE present \o Keep(Families[f], ToSet(Families[f]) \ ToSet(present))]

\* The loop over the families that are some group's.
WithFamilies(group) ==
  LET order == SetToSeq({f \in DOMAIN Families : group[f] # Nobody})
      state[i \in 0..Len(order)] ==
        IF i = 0 THEN stored ELSE WithFamily(state[i - 1], group[order[i]], order[i])
  IN  state[Len(order)]

\* enrich_ransomwhere: the indexes are built before anything is written.
Ransomwhere ==
  \E group \in [DOMAIN Families -> Groups \cup {Nobody}] :
    /\ \A f \in DOMAIN Families : IF FamilyOf(f) = {} THEN group[f] = Nobody ELSE group[f] \in FamilyOf(f)
    /\ WrittenByOthers(WithFamilies(group))

Next == \/ \E a \in Articles : Enrich(a) \/ Revert(a)
        \/ \E p \in proposals, s \in {"approved", "rejected"} : Review(p, s)
        \/ \E c \in Cells : FeedOverwrites(c)
        \/ Ransomwhere

Spec == Init /\ [][Next]_vars

-----------------------------------------------------------------------------
(* Properties.                                                             *)

\* The types of the variables; and an array never holds an item twice, whoever
\* appended to it and however often an article was gated (apply.py 236-241).
TypeOK ==
  /\ \A c \in Cells : \/ stored[c] = Unreadable
                      \/ stored[c] \in Seq(Items) /\ IsInjective(stored[c])
  /\ \A i \in DOMAIN audit :
       audit[i].article \in Articles /\ audit[i].cell \in Cells
       /\ audit[i].action \in {"enrich", "revert"}
  /\ proposals \subseteq [group : Groups, alias : Names, article : Articles,
                          status : {"pending", "approved", "rejected"}]
  /\ others \in 0..MaxOthers

\* What an article appended to a group is on nobody's platform and in no range
\* somebody publishes as theirs or as rented, and nothing is appended where
\* there is nothing to check it against (exclusions.py, gate.py 435-447): a
\* leak site's own address excepted.
OnlyItsOwn == \A i \in DOMAIN audit : audit[i].action = "enrich" =>
  /\ ~NothingToCheckAgainst
  /\ \A v \in ToSet(audit[i].after) \ ToSet(audit[i].before) : v \in Onions \/
       /\ v \notin Platforms
       /\ v \in DOMAIN Address => /\ Address[v] \notin RentedExact
                                 /\ \A r \in RentedNetworks \cup RentedSpans : Address[v] \notin r[1]..r[2]

\* Reverting an article leaves each field it wrote as it was before the article
\* first wrote it, however many passes wrote it since, unless somebody else did
\* ("the state before the first write", revert.py 104-107).
RevertRestores == [][\A a \in Articles :
  Revert(a) => \A c \in Cells : past[a][c] \notin {Unwritten, Overwritten} => stored'[c] = past[a][c]]_vars

\* A person is asked once whether a name is an alias of a group: neither another
\* article nor another pass asks again what was rejected or approved (apply.py
\* 298-318).
ProposedOnce == \A p, q \in proposals : p.group = q.group /\ p.alias = q.alias => p = q
=============================================================================
