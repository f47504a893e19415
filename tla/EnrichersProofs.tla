---------------------------- MODULE EnrichersProofs ---------------------------
(***************************************************************************)
(* What holds of the groups' profiles for any groups, bundles and lists:   *)
(* their types, at most two copies of a page, techniques that a published  *)
(* bundle supports, and passes that change nothing the second time.        *)
(***************************************************************************)
EXTENDS Enrichers, FiniteSetTheorems, SequenceTheorems, WellFoundedInduction, TLAPS

-----------------------------------------------------------------------------
(* Numbers, and loops.                                                     *)

\* A nonempty set of naturals has a least member.
LEMMA Least ==
  ASSUME NEW S \in SUBSET Nat, S # {}
  PROVE  \E i \in S : \A j \in S : i <= j
<1> DEFINE R == {ss \in Nat \X Nat : ss[1] < ss[2]}
<1>1. IsWellFoundedOn(R, Nat)
  BY NatLessThanWellFounded DEF OpToRel
<1>2. PICK i \in S : \A j \in S : ~ (<<j, i>> \in R)
  <2> HIDE DEF R
  <2> QED BY <1>1, WFMin
<1>3. \A j \in S : i <= j
  <2> TAKE j \in S
  <2>1. <<j, i>> \in Nat \X Nat /\ <<j, i>>[1] = j /\ <<j, i>>[2] = i
    OBVIOUS
  <2>2. ~(<<j, i>>[1] < <<j, i>>[2])
    BY <1>2, <2>1, Zenon
  <2> QED BY <2>1, <2>2
<1> QED BY <1>3

\* Induction, for a set.
LEMMA AllNaturals ==
  ASSUME NEW X, 0 \in X, \A n \in Nat : n \in X => n + 1 \in X
  PROVE  \A n \in Nat : n \in X
<1> SUFFICES ASSUME Nat \ X # {} PROVE FALSE
  OBVIOUS
<1>1. PICK m \in Nat \ X : \A j \in Nat \ X : m <= j
  BY Least
<1>2. m # 0 /\ m - 1 \in Nat /\ m - 1 \in X
  BY <1>1
<1> QED
  BY <1>1, <1>2

\* A loop over n steps on states of a set has a result in it.
LEMMA LoopRuns ==
  ASSUME NEW G, NEW base \in G, NEW n \in Nat, NEW step \in [1..n -> [G -> G]]
  PROVE  \E st \in [0..n -> G] : st[0] = base /\ \A i \in 1..n : st[i] = step[i][st[i - 1]]
<1> DEFINE Runs(m) == \E st \in [0..m -> G] : st[0] = base /\ \A i \in 1..m : st[i] = step[i][st[i - 1]]
           X == {m \in Nat : m <= n => Runs(m)}
<1>1. 0 \in X
  <2> DEFINE st == [i \in 0..0 |-> base]
  <2>1. st \in [0..0 -> G] /\ st[0] = base /\ \A i \in 1..0 : st[i] = step[i][st[i - 1]]
    OBVIOUS
  <2> HIDE DEF st
  <2>2. Runs(0)
    BY <2>1
  <2> QED
    BY <2>2
<1>2. ASSUME NEW m \in Nat, m \in X PROVE m + 1 \in X
  <2> SUFFICES ASSUME m + 1 <= n PROVE Runs(m + 1)
    BY <1>2
  <2>1. Runs(m)
    BY <1>2
  <2>2. PICK st \in [0..m -> G] : st[0] = base /\ \A i \in 1..m : st[i] = step[i][st[i - 1]]
    BY <2>1
  <2>3. m \in 0..m /\ m + 1 \in 1..n /\ st[m] \in G /\ step[m + 1][st[m]] \in G
    BY <2>2
  <2> DEFINE new == [i \in 0..(m + 1) |-> IF i = m + 1 THEN step[m + 1][st[m]] ELSE st[i]]
  <2>4. \A i \in 0..(m + 1) : i # m + 1 => i \in 0..m
    OBVIOUS
  <2>5. new \in [0..(m + 1) -> G]
    BY <2>2, <2>3, <2>4
  <2>6. new[0] = base
    BY <2>2
  <2>7. ASSUME NEW i \in 1..(m + 1) PROVE new[i] = step[i][new[i - 1]]
    <3>1. i \in 0..(m + 1) /\ i - 1 \in 0..(m + 1) /\ i - 1 # m + 1
      OBVIOUS
    <3>2. new[i - 1] = st[i - 1]
      BY <3>1
    <3>3. CASE i = m + 1
      BY <3>1, <3>2, <3>3
    <3>4. CASE i # m + 1
      <4>1. i \in 1..m
        BY <3>4
      <4> QED
        BY <2>2, <3>1, <3>2, <3>4, <4>1
    <3> QED
      BY <3>3, <3>4
  <2> HIDE DEF new
  <2> QED
    BY <2>5, <2>6, <2>7
<1>3. n \in X
  <2> HIDE DEF X
  <2> QED BY <1>1, <1>2, AllNaturals
<1> QED
  BY <1>3


\* The same, of every loop.
RunsLoop(st, G, base, n, step) ==
  st \in [0..n -> G] /\ st[0] = base /\ \A i \in 1..n : st[i] = step[i][st[i - 1]]
Steps(G, n) == [1..n -> [G -> G]]

LEMMA LoopsRun ==
  \A G, n, base, step : n \in Nat /\ base \in G /\ step \in Steps(G, n) =>
    \E st : RunsLoop(st, G, base, n, step)
<1> SUFFICES ASSUME NEW G, NEW n \in Nat, NEW base \in G, NEW step \in [1..n -> [G -> G]]
             PROVE  \E st : RunsLoop(st, G, base, n, step)
  BY DEF Steps
<1>1. PICK st \in [0..n -> G] : st[0] = base /\ \A i \in 1..n : st[i] = step[i][st[i - 1]]
  BY LoopRuns
<1> QED
  BY <1>1 DEF RunsLoop

-----------------------------------------------------------------------------
(* Which group a bundle's group is.                                        *)

\* Positions have a first and a last.
LEMMA MinIsFirst ==
  ASSUME NEW S \in SUBSET Nat, S # {}
  PROVE  Min(S) \in S /\ \A j \in S : Min(S) <= j
<1> DEFINE IsMin(x) == x \in S /\ \A y \in S : x =< y
<1>1. \E x : IsMin(x)
  BY Least
<1>2. IsMin(CHOOSE x : IsMin(x))
  <2> HIDE DEF IsMin
  <2> QED BY <1>1
<1>3. Min(S) = CHOOSE x : IsMin(x)
  BY DEF Min
<1> QED
  BY <1>2, <1>3

LEMMA MaxIsLast ==
  ASSUME NEW n \in Nat, NEW S \in SUBSET (1..n), S # {}
  PROVE  Max(S) \in S
<1> DEFINE IsMax(x) == x \in S /\ \A y \in S : x >= y
           T == {n - y : y \in S}
<1>1. T \in SUBSET Nat /\ T # {}
  <2>1. \A y \in S : n - y \in Nat
    OBVIOUS
  <2>2. PICK y \in S : TRUE
    OBVIOUS
  <2>3. n - y \in T
    OBVIOUS
  <2> QED BY <2>1, <2>3
<1>2. PICK m \in T : \A k \in T : m <= k
  <2> HIDE DEF T
  <2> QED BY <1>1, Least
<1>3. PICK x \in S : m = n - x
  BY <1>2
<1>4. \A y \in S : x >= y
  <2> TAKE y \in S
  <2>1. n - y \in T
    OBVIOUS
  <2> QED BY <1>2, <1>3, <2>1
<1>5. \E z : IsMax(z)
  BY <1>4
<1>6. IsMax(CHOOSE z : IsMax(z))
  <2> HIDE DEF IsMax
  <2> QED BY <1>5
<1>7. Max(S) = CHOOSE z : IsMax(z)
  BY DEF Max
<1> QED
  BY <1>6, <1>7

\* A key stands for a group that is stored and has that key, or for none.
LEMMA LookupFinds ==
  ASSUME groups \in Seq(Groups), NEW k
  PROVE  \/ Lookup(k) = None
         \/ \E i \in DOMAIN groups : Lookup(k) = groups[i] /\ Key[groups[i]] = k
<1> DEFINE by == {i \in DOMAIN groups : Key[groups[i]] = k}
<1>1. CASE by = {}
  BY <1>1 DEF Lookup
<1>2. CASE by # {}
  <2>1. Len(groups) \in Nat /\ by \in SUBSET (1..Len(groups))
    OBVIOUS
  <2>2. Max(by) \in by
    <3> HIDE DEF by
    <3> QED BY <1>2, <2>1, MaxIsLast
  <2>3. Lookup(k) = groups[Max(by)]
    BY <1>2 DEF Lookup
  <2> QED
    BY <2>2, <2>3
<1> QED
  BY <1>1, <1>2

\* A group of MITRE's is a group by a name that is not too common, or none.
NamedLike(mg, g) == \E n \in Range(mg.names) : Key[n] = Key[g] /\ Key[n] \notin SKIP_MATCHES

LEMMA MatchIsNamed ==
  ASSUME groups \in Seq(Groups), NEW mg \in MitreGroup
  PROVE  MatchOf(mg) = None \/ (MatchOf(mg) \in Groups /\ NamedLike(mg, MatchOf(mg)))
<1> DEFINE hits == {i \in DOMAIN mg.names : /\ Key[mg.names[i]] \notin SKIP_MATCHES
                                            /\ Lookup(Key[mg.names[i]]) # None}
<1>1. CASE hits = {}
  BY <1>1 DEF MatchOf
<1>2. CASE hits # {}
  <2>1. mg.names \in Seq(Names)
    BY DEF MitreGroup
  <2>2. hits \in SUBSET Nat
    BY <2>1
  <2>3. PICK i \in hits : i = Min(hits)
    <3> HIDE DEF hits
    <3> QED BY <1>2, <2>2, MinIsFirst
  <2> DEFINE k == Key[mg.names[i]]
  <2>4. MatchOf(mg) = Lookup(k)
    BY <1>2, <2>3 DEF MatchOf
  <2>5. i \in DOMAIN mg.names /\ k \notin SKIP_MATCHES /\ Lookup(k) # None
    OBVIOUS
  <2> HIDE DEF k
  <2>6. PICK j \in DOMAIN groups : Lookup(k) = groups[j] /\ Key[groups[j]] = k
    BY <2>5, LookupFinds
  <2>7. groups[j] \in Groups
    OBVIOUS
  <2>8. mg.names[i] \in Range(mg.names)
    BY <2>5 DEF Range
  <2> QED
    BY <2>4, <2>5, <2>6, <2>7, <2>8 DEF NamedLike, k
<1> QED
  BY <1>1, <1>2

-----------------------------------------------------------------------------
(* Writing a profile.                                                      *)

Profile == [aliases : SUBSET Names, country : Countries \cup {None},
            ttps : SUBSET Techniques, tools : SUBSET STRING,
            evidence : MitreGroup \cup {None}, history : Seq(MitreGroup)]
Profiles == [Groups -> Profile]

\* Nothing was archived that was replaced by the same, or by nothing.
Orderly(p) ==
  /\ p.evidence = None => p.history = <<>>
  /\ \A i \in DOMAIN p.history :
       p.history[i] # IF i = Len(p.history) THEN p.evidence ELSE p.history[i + 1]

LEMMA Published ==
  ASSUME NEW v \in Versions
  PROVE  /\ v \in Nat
         /\ Bundles[v].groups \in Seq(MitreGroup)
         /\ parse_mitre_groups[v] \subseteq DOMAIN Bundles[v].groups
         /\ parse_mitre_techniques[v] \subseteq Techniques
         /\ parse_mitre_software[v] \subseteq STRING
<1>1. v \in DOMAIN Bundles /\ v \in Nat
  BY EnrichersAssumption DEF Versions
<1>2. Bundles[v] \in [groups : Seq(MitreGroup), techniques : SUBSET [id : Techniques, live : BOOLEAN],
                      software : SUBSET [id : STRING, live : BOOLEAN],
                      uses : SUBSET [source : STRING, target : STRING, live : BOOLEAN]]
  <2>1. \A S, s, i : s \in Seq(S) /\ i \in DOMAIN s => s[i] \in S
    OBVIOUS
  <2> QED
    BY <1>1, <2>1, EnrichersAssumption, Zenon
<1>3. /\ Bundles[v].groups \in Seq(MitreGroup)
      /\ Bundles[v].techniques \in SUBSET [id : Techniques, live : BOOLEAN]
      /\ Bundles[v].software \in SUBSET [id : STRING, live : BOOLEAN]
  BY <1>2
<1>4. parse_mitre_groups[v] \subseteq DOMAIN Bundles[v].groups
  BY DEF parse_mitre_groups
<1>5. parse_mitre_techniques[v] \subseteq Techniques
  BY <1>3 DEF parse_mitre_techniques, Live
<1>6. parse_mitre_software[v] \subseteq STRING
  BY <1>3 DEF parse_mitre_software, Live
<1> QED
  BY <1>1, <1>3, <1>4, <1>5, <1>6

\* What upsert_source_evidence leaves, and what it touches.
LEMMA UpsertKeeps ==
  ASSUME NEW p \in Profile, NEW payload \in MitreGroup
  PROVE  LET q == Upsert(p, payload) IN
         /\ q \in Profile
         /\ q.aliases = p.aliases /\ q.country = p.country /\ q.ttps = p.ttps /\ q.tools = p.tools
         /\ q.evidence = payload
         /\ p.evidence = payload => q = p
         /\ Orderly(p) => Orderly(q)
<1> DEFINE q == Upsert(p, payload)
           archived == IF p.evidence = None THEN p.history ELSE Append(p.history, p.evidence)
<1>1. p.history \in Seq(MitreGroup) /\ p.evidence \in MitreGroup \cup {None}
  BY DEF Profile
<1>2. CASE p.evidence = payload
  <2>1. q = p
    BY <1>2 DEF Upsert
  <2> HIDE DEF q
  <2> QED BY <1>2, <2>1 DEF q
<1>3. CASE p.evidence # payload
  <2>1. q = [p EXCEPT !.evidence = payload, !.history = archived]
    BY <1>3 DEF Upsert
  <2>2. archived \in Seq(MitreGroup)
    BY <1>1
  <2> HIDE DEF q, archived
  <2>3. q = [aliases |-> p.aliases, country |-> p.country, ttps |-> p.ttps, tools |-> p.tools,
             evidence |-> payload, history |-> archived]
    BY <2>1 DEF Profile
  <2>4. q \in Profile
    BY <2>2, <2>3 DEF Profile
  <2>5. ASSUME Orderly(p) PROVE Orderly(q)
    <3>1. q.history = archived /\ q.evidence = payload /\ payload # None
      BY <2>3, EnrichersAssumption
    <3>2. CASE p.evidence = None
      <4>1. archived = p.history
        BY <3>2 DEF archived
      <4> QED BY <1>1, <1>3, <2>5, <3>1, <3>2, <4>1 DEF Orderly
    <3>3. CASE p.evidence # None
      <4> DEFINE n == Len(p.history)
      <4>1. n \in Nat /\ archived = Append(p.history, p.evidence)
        BY <1>1, <3>3 DEF archived
      <4>2. /\ Len(archived) = n + 1 /\ DOMAIN archived = 1..(n + 1)
            /\ archived[n + 1] = p.evidence
            /\ \A i \in 1..n : archived[i] = p.history[i]
        BY <1>1, <4>1
      <4>3. ASSUME NEW i \in 1..(n + 1)
            PROVE  archived[i] # IF i = n + 1 THEN payload ELSE archived[i + 1]
        <5>1. CASE i = n + 1
          BY <1>3, <4>2, <5>1
        <5>2. CASE i # n + 1
          <6>1. i \in 1..n /\ i \in DOMAIN p.history /\ archived[i] = p.history[i]
            BY <1>1, <4>2, <5>2
          <6>2. p.history[i] # IF i = n THEN p.evidence ELSE p.history[i + 1]
            BY <2>5, <6>1 DEF Orderly
          <6>3. CASE i = n
            BY <4>2, <5>2, <6>1, <6>2, <6>3
          <6>4. CASE i # n
            <7>1. i + 1 \in 1..n
              BY <4>1, <6>1, <6>4
            <7>2. archived[i + 1] = p.history[i + 1]
              BY <4>2, <7>1
            <7> QED
              BY <5>2, <6>1, <6>2, <6>4, <7>2
          <6> QED
            BY <6>3, <6>4
        <5> QED
          BY <5>1, <5>2
      <4> QED
        BY <3>1, <4>2, <4>3 DEF Orderly
    <3> QED
      BY <3>2, <3>3
  <2> QED
    BY <1>3, <2>3, <2>4, <2>5 DEF q
<1> QED
  BY <1>2, <1>3

\* What a group's match writes.
Techs(v, mg) == UsesOf(v, mg.id, parse_mitre_techniques[v])
Tools(v, mg) == UsesOf(v, mg.id, parse_mitre_software[v])

LEMMA MatchedIs ==
  ASSUME NEW p \in Profile, NEW g \in Groups, NEW v \in Versions, NEW mg \in MitreGroup
  PROVE  LET q == Matched(p, g, v, mg) IN
         /\ q \in Profile
         /\ q.aliases = (p.aliases \cup Range(mg.names)) \ {g}
         /\ q.country = IF mg.country = None THEN p.country ELSE mg.country
         /\ q.ttps = p.ttps \cup Techs(v, mg)
         /\ q.tools = p.tools \cup Tools(v, mg)
         /\ q.evidence = Payload(mg)
         /\ p.evidence = Payload(mg) => q.history = p.history
         /\ Orderly(p) => Orderly(q)
<1> DEFINE u == Upsert(p, Payload(mg))
           country == IF mg.country = None THEN p.country ELSE mg.country
           q == Matched(p, g, v, mg)
<1>1. Payload(mg) \in MitreGroup
  BY DEF Payload, MitreGroup
<1>2. /\ u \in Profile
      /\ u.aliases = p.aliases /\ u.country = p.country /\ u.ttps = p.ttps /\ u.tools = p.tools
      /\ u.evidence = Payload(mg)
      /\ p.evidence = Payload(mg) => u = p
      /\ Orderly(p) => Orderly(u)
  BY <1>1, UpsertKeeps
<1>3. q = [u EXCEPT !.aliases = (p.aliases \cup Range(mg.names)) \ {g}, !.country = country,
                    !.ttps = p.ttps \cup Techs(v, mg), !.tools = p.tools \cup Tools(v, mg)]
  <2>1. q = [u EXCEPT !.aliases = (u.aliases \cup Range(mg.names)) \ {g},
                      !.country = IF mg.country = None THEN u.country ELSE mg.country,
                      !.ttps = u.ttps \cup Techs(v, mg), !.tools = u.tools \cup Tools(v, mg)]
    BY DEF Matched, MergedAliases, Imported, Techs, Tools
  <2> HIDE DEF q, u
  <2> QED BY <1>2, <2>1
<1>4. /\ Range(mg.names) \subseteq Names /\ country \in Countries \cup {None}
      /\ Techs(v, mg) \subseteq Techniques /\ Tools(v, mg) \subseteq STRING
      /\ p.aliases \subseteq Names /\ p.ttps \subseteq Techniques /\ p.tools \subseteq STRING
  <2>1. mg.names \in Seq(Names)
    BY DEF MitreGroup
  <2>2. Range(mg.names) \subseteq Names
    BY <2>1 DEF Range
  <2>3. mg.country \in Countries \cup {None}
    BY DEF MitreGroup
  <2>4. Techs(v, mg) \subseteq Techniques /\ Tools(v, mg) \subseteq STRING
    BY Published DEF Techs, Tools, UsesOf
  <2> QED
    BY <2>2, <2>3, <2>4 DEF Profile
<1> DEFINE al == (p.aliases \cup Range(mg.names)) \ {g}
           tt == p.ttps \cup Techs(v, mg)
           to == p.tools \cup Tools(v, mg)
<1>5. al \in SUBSET Names /\ tt \in SUBSET Techniques /\ to \in SUBSET STRING
  BY <1>4
<1>6. country \in Countries \cup {None}
  BY <1>4
<1>7. q = [u EXCEPT !.aliases = al, !.country = country, !.ttps = tt, !.tools = to]
  BY <1>3
<1> HIDE DEF q, u, al, tt, to, country
<1>8. q = [aliases |-> al, country |-> country, ttps |-> tt, tools |-> to,
           evidence |-> u.evidence, history |-> u.history]
  BY <1>2, <1>7 DEF Profile
<1>9. u.evidence \in MitreGroup \cup {None} /\ u.history \in Seq(MitreGroup)
  BY <1>2 DEF Profile
<1>10. q \in Profile
  BY <1>5, <1>6, <1>8, <1>9 DEF Profile
<1>11. /\ q.aliases = al /\ q.country = country /\ q.ttps = tt /\ q.tools = to
       /\ q.evidence = u.evidence /\ q.history = u.history
  BY <1>8
<1>12. Orderly(u) => Orderly(q)
  BY <1>11 DEF Orderly
<1> QED
  BY <1>2, <1>10, <1>11, <1>12 DEF q, al, tt, to, country

\* A group of the bundle is written to its match, and to no other group.
LEMMA EnrichedByIs ==
  ASSUME groups \in Seq(Groups), NEW P \in Profiles, NEW v \in Versions, NEW mg \in MitreGroup
  PROVE  /\ EnrichedBy(P, v, mg) \in Profiles
         /\ \A h \in Groups :
              EnrichedBy(P, v, mg)[h] = IF MatchOf(mg) = h THEN Matched(P[h], h, v, mg) ELSE P[h]
<1> DEFINE g == MatchOf(mg)
           Q == EnrichedBy(P, v, mg)
<1>1. CASE g = None
  <2>1. Q = P
    BY <1>1 DEF EnrichedBy
  <2>2. \A h \in Groups : g # h
    BY <1>1, EnrichersAssumption
  <2> QED
    BY <2>1, <2>2
<1>2. CASE g # None
  <2>1. g \in Groups
    BY <1>2, MatchIsNamed
  <2>2. Q = [P EXCEPT ![g] = Matched(P[g], g, v, mg)]
    BY <1>2 DEF EnrichedBy
  <2>3. P[g] \in Profile
    BY <2>1 DEF Profiles
  <2>4. Matched(P[g], g, v, mg) \in Profile
    BY <2>1, <2>3, MatchedIs
  <2> HIDE DEF g, Q
  <2>5. Q \in Profiles
    BY <2>2, <2>4 DEF Profiles
  <2>6. \A h \in Groups : Q[h] = IF g = h THEN Matched(P[h], h, v, mg) ELSE P[h]
    BY <2>1, <2>2 DEF Profiles
  <2> QED
    BY <2>5, <2>6 DEF g, Q
<1> QED
  BY <1>1, <1>2

\* The software named after a group, and what it uses.
Named(v, g) == {s \in parse_mitre_software[v] \cap DOMAIN SOFTWARE_TO_GROUP :
                  SOFTWARE_TO_GROUP[s] = g /\ g \in Stored}
TechsOfSoftware(v, g) == UNION {UsesOf(v, s, parse_mitre_techniques[v]) : s \in Named(v, g)}

LEMMA BySoftwareIs ==
  ASSUME NEW P \in Profiles, NEW v \in Versions
  PROVE  LET Q == BySoftware(P, v) IN
         /\ Q \in Profiles
         /\ \A g \in Groups :
              /\ Q[g].ttps = P[g].ttps \cup TechsOfSoftware(v, g)
              /\ \A f \in {"aliases", "country", "tools", "evidence", "history"} : Q[g][f] = P[g][f]
              /\ Orderly(P[g]) => Orderly(Q[g])
<1> DEFINE Q == BySoftware(P, v)
           of(g) == [P[g] EXCEPT !.ttps = @ \cup TechsOfSoftware(v, g)]
<1>1. Q = [g \in Groups |-> of(g)]
  BY DEF BySoftware, Named, TechsOfSoftware, Imported
<1>2. ASSUME NEW g \in Groups
      PROVE  /\ of(g) \in Profile
             /\ of(g).ttps = P[g].ttps \cup TechsOfSoftware(v, g)
             /\ \A f \in {"aliases", "country", "tools", "evidence", "history"} : of(g)[f] = P[g][f]
             /\ Orderly(P[g]) => Orderly(of(g))
  <2>1. P[g] \in Profile
    BY DEF Profiles
  <2>2. TechsOfSoftware(v, g) \subseteq Techniques
    BY Published DEF TechsOfSoftware, UsesOf
  <2>3. PICK p \in Profile : p = P[g]
    BY <2>1
  <2>4. PICK T : T = p.ttps \cup TechsOfSoftware(v, g)
    OBVIOUS
  <2>5. of(g) = [p EXCEPT !.ttps = T]
    BY <2>3, <2>4
  <2>6. T \in SUBSET Techniques
    BY <2>2, <2>4 DEF Profile
  <2>7. PICK q : q = of(g)
    OBVIOUS
  <2>8. q = [p EXCEPT !.ttps = T]
    BY <2>5, <2>7
  <2>9. q \in Profile /\ q.ttps = T
        /\ \A f \in {"aliases", "country", "tools", "evidence", "history"} : q[f] = p[f]
    BY <2>6, <2>8 DEF Profile
  <2>10. Orderly(p) => Orderly(q)
    BY <2>9 DEF Orderly
  <2> HIDE DEF of
  <2> QED
    BY <2>3, <2>4, <2>7, <2>9, <2>10
<1> HIDE DEF of, Q
<1>3. Q \in Profiles /\ \A g \in Groups : Q[g] = of(g)
  BY <1>1, <1>2 DEF Profiles
<1> QED
  BY <1>2, <1>3 DEF Q

-----------------------------------------------------------------------------
(* A pass over a bundle, one group after another.                          *)

Count(v) == Len(Bundles[v].groups)
Described(v, i) == Bundles[v].groups[i]

\* The profiles before and after each of the bundle's groups.
Pass(s, P, v, at) ==
  /\ s \in [0..Count(v) -> Profiles]
  /\ s[0] = P
  /\ \A i \in 1..Count(v) :
       s[i] = IF i \in at THEN EnrichedBy(s[i - 1], v, Described(v, i)) ELSE s[i - 1]

LEMMA Counted ==
  ASSUME NEW v \in Versions
  PROVE  /\ Count(v) \in Nat /\ parse_mitre_groups[v] \subseteq 1..Count(v)
         /\ \A i \in 1..Count(v) : Described(v, i) \in MitreGroup
<1>1. Bundles[v].groups \in Seq(MitreGroup) /\ parse_mitre_groups[v] \subseteq DOMAIN Bundles[v].groups
  BY Published
<1> QED
  BY <1>1 DEF Count, Described

LEMMA PassRuns ==
  ASSUME groups \in Seq(Groups), NEW P \in Profiles, NEW v \in Versions, NEW at
  PROVE  \E s : Pass(s, P, v, at) /\ Enriched(P, v, at) = BySoftware(s[Count(v)], v)
<1> DEFINE n == Count(v)
           d == Bundles[v].groups
           Next1(x, i) == IF i \in at THEN EnrichedBy(x, v, d[i]) ELSE x
           step == [i \in 1..n |-> [x \in Profiles |-> Next1(x, i)]]
           IsLoop(s) == s = [i \in 0..n |-> IF i = 0 THEN P
                                            ELSE IF i \in at THEN EnrichedBy(s[i - 1], v, d[i])
                                            ELSE s[i - 1]]
           after == CHOOSE s : IsLoop(s)
<1>1. n \in Nat /\ \A i \in 1..n : d[i] \in MitreGroup
  BY Counted DEF Described
<1>2. \A x \in Profiles, i \in 1..n : Next1(x, i) \in Profiles
  <2> HIDE DEF n, d
  <2> QED BY <1>1, EnrichedByIs
<1> HIDE DEF n
<1>3. step \in Steps(Profiles, n)
  <2> HIDE DEF Next1
  <2> QED BY <1>2 DEF Steps
<1>4. PICK s : RunsLoop(s, Profiles, P, n, step)
  <2> HIDE DEF step
  <2> QED BY <1>1, <1>3, LoopsRun, Zenon
<1>5. s \in [0..n -> Profiles] /\ s[0] = P /\ \A i \in 1..n : s[i] = step[i][s[i - 1]]
  <2> HIDE DEF step
  <2> QED BY <1>4 DEF RunsLoop
<1>6. ASSUME NEW i \in 1..n PROVE s[i] = Next1(s[i - 1], i)
  <2> HIDE DEF Next1
  <2>1. s[i - 1] \in Profiles
    <3>1. i - 1 \in 0..n
      BY <1>1
    <3> QED BY <1>5, <3>1
  <2> QED BY <1>5, <2>1
<1>7. IsLoop(s)
  <2>1. \A i \in 0..n : s[i] = IF i = 0 THEN P ELSE Next1(s[i - 1], i)
    <3> HIDE DEF Next1
    <3>1. \A i \in 0..n : i # 0 => i \in 1..n
      BY <1>1
    <3> QED BY <1>5, <1>6, <3>1
  <2> QED BY <1>5, <2>1
<1>8. IsLoop(after)
  <2> HIDE DEF IsLoop
  <2> QED BY <1>7
<1>9. Enriched(P, v, at) = BySoftware(after[n], v)
  BY DEF Enriched, n, Count, d, after, IsLoop
<1> HIDE DEF after
<1>10. \A i \in 0..n : after[i] = IF i = 0 THEN P ELSE Next1(after[i - 1], i)
  BY <1>8
<1>11. DOMAIN after = 0..n
  BY <1>8
<1> HIDE DEF IsLoop
<1> DEFINE X == {i \in Nat : i <= n => (after[i] = s[i])}
<1>12. 0 \in X
  BY <1>1, <1>5, <1>10
<1>13. ASSUME NEW i \in Nat, i \in X PROVE i + 1 \in X
  <2> SUFFICES ASSUME i + 1 <= n PROVE after[i + 1] = s[i + 1]
    OBVIOUS
  <2>1. i + 1 \in 1..n /\ i + 1 \in 0..n /\ i + 1 # 0 /\ (i + 1) - 1 = i /\ after[i] = s[i]
    BY <1>1, <1>13
  <2> HIDE DEF Next1
  <2>2. after[i + 1] = Next1(after[i], i + 1)
    BY <1>10, <2>1
  <2>3. s[i + 1] = Next1(s[i], i + 1)
    BY <1>6, <2>1
  <2> QED BY <2>1, <2>2, <2>3
<1>14. after[n] = s[n]
  <2>1. \A i \in Nat : i \in X
    <3> HIDE DEF X
    <3> QED BY <1>12, <1>13, AllNaturals
  <2> QED BY <1>1, <2>1
<1>15. Pass(s, P, v, at)
  BY <1>5, <1>6 DEF Pass, n, Described
<1> QED
  BY <1>9, <1>14, <1>15 DEF n

\* Induction over a pass, for a set of positions.
LEMMA PassInduction ==
  ASSUME NEW n \in Nat, NEW X, 0 \in X, \A i \in 1..n : i - 1 \in X => i \in X
  PROVE  \A i \in 0..n : i \in X
<1> DEFINE Y == {i \in Nat : i <= n => i \in X}
<1>1. 0 \in Y
  OBVIOUS
<1>2. ASSUME NEW i \in Nat, i \in Y PROVE i + 1 \in Y
  <2> SUFFICES ASSUME i + 1 <= n PROVE i + 1 \in X
    OBVIOUS
  <2>1. i + 1 \in 1..n /\ (i + 1) - 1 \in X
    BY <1>2
  <2> QED BY <2>1
<1>3. \A i \in Nat : i \in Y
  <2> HIDE DEF Y
  <2> QED BY <1>1, <1>2, AllNaturals
<1> QED
  BY <1>3

\* A use that is imported stands in the bundle.
LEMMA UsesStand ==
  ASSUME NEW v \in Versions, NEW source, NEW t \in UsesOf(v, source, parse_mitre_techniques[v])
  PROVE  /\ \E o \in Bundles[v].techniques : o.id = t /\ o.live
         /\ \E u \in Bundles[v].uses : u.live /\ u.source = source /\ u.target = t
<1>1. t \in parse_mitre_techniques[v] /\ <<source, t>> \in parse_relationships[v]
  BY DEF UsesOf
<1>2. PICK o \in Live(Bundles[v].techniques) : o.id = t
  BY <1>1 DEF parse_mitre_techniques
<1>3. PICK u \in Live(Bundles[v].uses) : <<u.source, u.target>> = <<source, t>>
  BY <1>1 DEF parse_relationships
<1>4. u.source = source /\ u.target = t
  BY <1>3
<1> QED
  BY <1>2, <1>3, <1>4 DEF Live

LEMMA MatchSupports ==
  ASSUME groups \in Seq(Groups), NEW v \in Versions, NEW i \in parse_mitre_groups[v],
         NEW g \in Groups, MatchOf(Described(v, i)) = g, NEW t \in Techs(v, Described(v, i))
  PROVE  Supports(Bundles[v], g, t)
<1> DEFINE mg == Described(v, i)
<1>1. i \in DOMAIN Bundles[v].groups /\ Bundles[v].groups[i] = mg /\ mg.live
  BY DEF parse_mitre_groups, Described
<1>2. mg \in MitreGroup
  BY <1>1, Counted
<1>3. NamedLike(mg, g)
  <2>1. g # None
    BY EnrichersAssumption
  <2> QED BY <1>2, <2>1, MatchIsNamed
<1>4. PICK n \in Range(mg.names) : Key[n] = Key[g] /\ Key[n] \notin SKIP_MATCHES
  BY <1>3 DEF NamedLike
<1>5. PICK source : source = mg.id /\ t \in UsesOf(v, source, parse_mitre_techniques[v])
  BY DEF Techs
<1>6. PICK u \in Bundles[v].uses : u.live /\ u.source = source /\ u.target = t
  BY <1>5, UsesStand
<1>7. \E o \in Bundles[v].techniques : o.id = t /\ o.live
  BY <1>5, UsesStand
<1> HIDE DEF mg
<1>8. \E j \in DOMAIN Bundles[v].groups :
        /\ Bundles[v].groups[j].id = u.source /\ Bundles[v].groups[j].live
        /\ \E k \in Range(Bundles[v].groups[j].names) : Key[k] = Key[g] /\ Key[k] \notin SKIP_MATCHES
  BY <1>1, <1>4, <1>5, <1>6
<1> QED
  BY <1>6, <1>7, <1>8 DEF Supports

LEMMA SoftwareSupports ==
  ASSUME NEW v \in Versions, NEW g \in Groups, NEW t \in TechsOfSoftware(v, g)
  PROVE  Supports(Bundles[v], g, t)
<1>1. PICK s \in Named(v, g) : t \in UsesOf(v, s, parse_mitre_techniques[v])
  BY DEF TechsOfSoftware
<1>2. s \in parse_mitre_software[v] /\ s \in DOMAIN SOFTWARE_TO_GROUP /\ SOFTWARE_TO_GROUP[s] = g
  BY <1>1 DEF Named
<1>3. PICK o \in Bundles[v].software : o.id = s /\ o.live
  BY <1>2 DEF parse_mitre_software, Live
<1>4. PICK u \in Bundles[v].uses : u.live /\ u.source = s /\ u.target = t
  BY <1>1, UsesStand
<1>5. \E x \in Bundles[v].techniques : x.id = t /\ x.live
  BY <1>1, UsesStand
<1> QED
  BY <1>2, <1>3, <1>4, <1>5 DEF Supports

\* Profiles whose techniques one of the first m bundles supports.
Supported(P, m) ==
  \A g \in Groups : \A t \in P[g].ttps : \E v \in 1..m : Supports(Bundles[v], g, t)

OrderlyAll(P) == \A g \in Groups : Orderly(P[g])

\* A pass keeps the types, the support, and the order of the archive.
LEMMA EnrichedKeeps ==
  ASSUME groups \in Seq(Groups), NEW P \in Profiles, NEW v \in Versions, NEW m \in Nat, v \in 1..m,
         NEW at \in SUBSET parse_mitre_groups[v], Supported(P, m), OrderlyAll(P)
  PROVE  /\ Enriched(P, v, at) \in Profiles
         /\ Supported(Enriched(P, v, at), m)
         /\ OrderlyAll(Enriched(P, v, at))
<1>1. PICK s : Pass(s, P, v, at) /\ Enriched(P, v, at) = BySoftware(s[Count(v)], v)
  BY PassRuns
<1> DEFINE Good(Q) == Supported(Q, m) /\ OrderlyAll(Q)
           X == {i \in 0..Count(v) : Good(s[i])}
<1>2. Count(v) \in Nat /\ parse_mitre_groups[v] \subseteq 1..Count(v)
      /\ \A i \in 1..Count(v) : Described(v, i) \in MitreGroup
  BY Counted
<1>3. /\ s \in [0..Count(v) -> Profiles] /\ s[0] = P
      /\ \A i \in 1..Count(v) :
           s[i] = IF i \in at THEN EnrichedBy(s[i - 1], v, Described(v, i)) ELSE s[i - 1]
  BY <1>1 DEF Pass
<1>4. 0 \in X
  BY <1>2, <1>3
<1>5. ASSUME NEW i \in 1..Count(v), i - 1 \in X PROVE i \in X
  <2>1. i \in 0..Count(v) /\ i - 1 \in 0..Count(v) /\ s[i - 1] \in Profiles /\ Good(s[i - 1])
    BY <1>2, <1>3, <1>5
  <2>2. CASE i \notin at
    <3>1. s[i] = s[i - 1]
      BY <1>3, <2>2
    <3> HIDE DEF Good
    <3> QED BY <2>1, <3>1
  <2>3. CASE i \in at
    <3>1. PICK mg \in MitreGroup : mg = Described(v, i)
      BY <1>2
    <3>2. PICK Q \in Profiles : Q = s[i - 1]
      BY <2>1
    <3>3. s[i] = EnrichedBy(Q, v, mg)
      BY <1>3, <2>3, <3>1, <3>2
    <3>4. \A h \in Groups : s[i][h] = IF MatchOf(mg) = h THEN Matched(Q[h], h, v, mg) ELSE Q[h]
      BY <3>3, EnrichedByIs
    <3>5. ASSUME NEW h \in Groups
          PROVE  /\ Orderly(s[i][h])
                 /\ \A t \in s[i][h].ttps : \E w \in 1..m : Supports(Bundles[w], h, t)
      <4>1. /\ Q[h] \in Profile /\ Orderly(Q[h])
            /\ \A t \in Q[h].ttps : \E w \in 1..m : Supports(Bundles[w], h, t)
        BY <2>1, <3>2 DEF Supported, OrderlyAll, Profiles
      <4>2. CASE MatchOf(mg) # h
        <5>1. s[i][h] = Q[h]
          BY <3>4, <4>2
        <5> QED BY <4>1, <5>1
      <4>3. CASE MatchOf(mg) = h
        <5>1. s[i][h] = Matched(Q[h], h, v, mg)
          BY <3>4, <4>3
        <5>2. s[i][h].ttps = Q[h].ttps \cup Techs(v, mg) /\ Orderly(s[i][h])
          BY <4>1, <5>1, MatchedIs
        <5>3. \A t \in Techs(v, mg) : Supports(Bundles[v], h, t)
          BY <2>3, <3>1, <4>3, MatchSupports
        <5> QED
          BY <4>1, <5>2, <5>3
      <4> QED
        BY <4>2, <4>3
    <3> QED
      BY <2>1, <3>5 DEF Supported, OrderlyAll
  <2> QED
    BY <2>2, <2>3
<1>6. Count(v) \in X
  <2> HIDE DEF X
  <2>1. \A i \in 0..Count(v) : i \in X
    BY <1>2, <1>4, <1>5, PassInduction
  <2> QED BY <1>2, <2>1
<1>7. PICK Q \in Profiles : Q = s[Count(v)]
  BY <1>2, <1>3
<1>8. Good(Q)
  BY <1>6, <1>7
<1>9. PICK R : R = Enriched(P, v, at)
  OBVIOUS
<1>10. R = BySoftware(Q, v)
  BY <1>1, <1>7, <1>9
<1>11. /\ R \in Profiles
       /\ \A g \in Groups : /\ R[g].ttps = Q[g].ttps \cup TechsOfSoftware(v, g)
                            /\ Orderly(Q[g]) => Orderly(R[g])
  BY <1>10, BySoftwareIs
<1>12. \A g \in Groups : \A t \in TechsOfSoftware(v, g) : Supports(Bundles[v], g, t)
  BY SoftwareSupports
<1>13. Supported(R, m) /\ OrderlyAll(R)
  BY <1>8, <1>11, <1>12 DEF Supported, OrderlyAll
<1> QED
  BY <1>9, <1>11, <1>13

-----------------------------------------------------------------------------
(* A pass over the same bundle again.                                      *)

Hits(v, at, i, g) == i \in at /\ MatchOf(Described(v, i)) = g

\* What a pass does to one group.
LEMMA PassAt ==
  ASSUME groups \in Seq(Groups), NEW P \in Profiles, NEW v \in Versions, NEW at,
         NEW s, Pass(s, P, v, at), NEW g \in Groups, NEW i \in 1..Count(v)
  PROVE  /\ s[i - 1][g] \in Profile /\ s[i][g] \in Profile
         /\ Described(v, i) \in MitreGroup
         /\ s[i][g] = IF Hits(v, at, i, g) THEN Matched(s[i - 1][g], g, v, Described(v, i))
                      ELSE s[i - 1][g]
<1>1. /\ Count(v) \in Nat
      /\ \A k \in 1..Count(v) : Described(v, k) \in MitreGroup
  BY Counted
<1>2. i \in 0..Count(v) /\ i - 1 \in 0..Count(v)
  BY <1>1
<1>3. /\ s \in [0..Count(v) -> Profiles]
      /\ s[i] = IF i \in at THEN EnrichedBy(s[i - 1], v, Described(v, i)) ELSE s[i - 1]
  BY DEF Pass
<1>4. s[i] \in Profiles /\ s[i - 1] \in Profiles
  BY <1>2, <1>3
<1>5. s[i][g] \in Profile /\ s[i - 1][g] \in Profile
  BY <1>4 DEF Profiles
<1>6. CASE i \notin at
  BY <1>1, <1>3, <1>5, <1>6 DEF Hits
<1>7. CASE i \in at
  <2>1. PICK mg \in MitreGroup : mg = Described(v, i)
    BY <1>1
  <2>2. PICK Q \in Profiles : Q = s[i - 1]
    BY <1>4
  <2>3. s[i] = EnrichedBy(Q, v, mg)
    BY <1>3, <1>7, <2>1, <2>2
  <2>4. s[i][g] = IF MatchOf(mg) = g THEN Matched(Q[g], g, v, mg) ELSE Q[g]
    BY <2>3, EnrichedByIs
  <2> QED
    BY <1>1, <1>5, <1>7, <2>1, <2>2, <2>4 DEF Hits
<1> QED
  BY <1>6, <1>7

\* What a match brings is there.
Absorbed(p, g, v, mg) ==
  /\ Range(mg.names) \ {g} \subseteq p.aliases /\ g \notin p.aliases
  /\ Techs(v, mg) \subseteq p.ttps /\ Tools(v, mg) \subseteq p.tools

\* After a pass, what every match brings is there.
LEMMA PassAbsorbs ==
  ASSUME groups \in Seq(Groups), NEW P \in Profiles, NEW v \in Versions, NEW at,
         NEW s, Pass(s, P, v, at), NEW g \in Groups
  PROVE  \A k \in 1..Count(v) :
           Hits(v, at, k, g) => Absorbed(s[Count(v)][g], g, v, Described(v, k))
<1> DEFINE n == Count(v)
           Done(i) == \A k \in 1..i : Hits(v, at, k, g) => Absorbed(s[i][g], g, v, Described(v, k))
           X == {i \in 0..n : Done(i)}
<1>1. n \in Nat
  BY Counted
<1>2. 0 \in X
  BY <1>1
<1>3. ASSUME NEW i \in 1..n, i - 1 \in X PROVE i \in X
  <2>1. /\ s[i - 1][g] \in Profile
        /\ Described(v, i) \in MitreGroup
        /\ s[i][g] = IF Hits(v, at, i, g) THEN Matched(s[i - 1][g], g, v, Described(v, i))
                     ELSE s[i - 1][g]
    BY PassAt
  <2>2. PICK p, q, mg : p = s[i - 1][g] /\ q = s[i][g] /\ mg = Described(v, i)
    OBVIOUS
  <2>3. \A k \in 1..(i - 1) : Hits(v, at, k, g) => Absorbed(p, g, v, Described(v, k))
    BY <1>3, <2>2
  <2>4. CASE ~Hits(v, at, i, g)
    <3>1. q = p
      BY <2>1, <2>2, <2>4
    <3>2. \A k \in 1..i : k = i \/ k \in 1..(i - 1)
      BY <1>1
    <3>3. \A k \in 1..i : Hits(v, at, k, g) => Absorbed(q, g, v, Described(v, k))
      BY <2>3, <2>4, <3>1, <3>2
    <3> QED BY <1>1, <2>2, <3>3
  <2>5. CASE Hits(v, at, i, g)
    <3>1. q = Matched(p, g, v, mg)
      BY <2>1, <2>2, <2>5
    <3>2. /\ q.aliases = (p.aliases \cup Range(mg.names)) \ {g}
          /\ q.ttps = p.ttps \cup Techs(v, mg)
          /\ q.tools = p.tools \cup Tools(v, mg)
      BY <2>1, <2>2, <3>1, MatchedIs
    <3>3. Absorbed(q, g, v, mg)
      BY <3>2 DEF Absorbed
    <3>4. ASSUME NEW d, Absorbed(p, g, v, d) PROVE Absorbed(q, g, v, d)
      BY <3>2, <3>4 DEF Absorbed
    <3>5. \A k \in 1..i : k = i \/ k \in 1..(i - 1)
      BY <1>1
    <3>6. \A k \in 1..i : Hits(v, at, k, g) => Absorbed(q, g, v, Described(v, k))
      BY <2>2, <2>3, <3>3, <3>4, <3>5
    <3> QED BY <1>1, <2>2, <3>6
  <2> QED
    BY <2>4, <2>5
<1>4. n \in X
  <2> HIDE DEF X, n
  <2>1. \A i \in 0..n : i \in X
    BY <1>1, <1>2, <1>3, PassInduction
  <2> QED BY <1>1, <2>1
<1> QED
  BY <1>4

\* What is there already is not written again.
LEMMA PassAgain ==
  ASSUME groups \in Seq(Groups), NEW Q \in Profiles, NEW v \in Versions, NEW at,
         NEW r, Pass(r, Q, v, at), NEW g \in Groups,
         \A k \in 1..Count(v) : Hits(v, at, k, g) => Absorbed(Q[g], g, v, Described(v, k))
  PROVE  LET q == r[Count(v)][g] IN
         q.aliases = Q[g].aliases /\ q.ttps = Q[g].ttps /\ q.tools = Q[g].tools
<1> DEFINE n == Count(v)
           Same(q) == q.aliases = Q[g].aliases /\ q.ttps = Q[g].ttps /\ q.tools = Q[g].tools
           X == {i \in 0..n : Same(r[i][g])}
<1>1. n \in Nat /\ r[0] = Q
  BY Counted DEF Pass
<1>2. 0 \in X
  BY <1>1
<1>3. ASSUME NEW i \in 1..n, i - 1 \in X PROVE i \in X
  <2>1. /\ r[i - 1][g] \in Profile
        /\ Described(v, i) \in MitreGroup
        /\ r[i][g] = IF Hits(v, at, i, g) THEN Matched(r[i - 1][g], g, v, Described(v, i))
                     ELSE r[i - 1][g]
    BY PassAt
  <2>2. PICK p, q, mg : p = r[i - 1][g] /\ q = r[i][g] /\ mg = Described(v, i)
    OBVIOUS
  <2>3. Same(p)
    BY <1>3, <2>2
  <2>4. CASE ~Hits(v, at, i, g)
    <3>1. q = p
      BY <2>1, <2>2, <2>4
    <3>2. Same(q)
      BY <2>3, <3>1
    <3> QED BY <1>1, <2>2, <3>2
  <2>5. CASE Hits(v, at, i, g)
    <3>1. q = Matched(p, g, v, mg)
      BY <2>1, <2>2, <2>5
    <3>2. /\ q.aliases = (p.aliases \cup Range(mg.names)) \ {g}
          /\ q.ttps = p.ttps \cup Techs(v, mg)
          /\ q.tools = p.tools \cup Tools(v, mg)
      BY <2>1, <2>2, <3>1, MatchedIs
    <3>3. Absorbed(Q[g], g, v, mg)
      BY <2>2, <2>5
    <3>4. Same(q)
      BY <2>3, <3>2, <3>3 DEF Absorbed
    <3> QED BY <1>1, <2>2, <3>4
  <2> QED
    BY <2>4, <2>5
<1>4. n \in X
  <2> HIDE DEF X, n
  <2>1. \A i \in 0..n : i \in X
    BY <1>1, <1>2, <1>3, PassInduction
  <2> QED BY <1>1, <2>1
<1> QED
  BY <1>4

\* The last country a pass finds is the last one it finds again.
LEMMA SameCountry ==
  ASSUME groups \in Seq(Groups), NEW P \in Profiles, NEW Q \in Profiles, NEW v \in Versions, NEW at,
         NEW s, Pass(s, P, v, at), NEW r, Pass(r, Q, v, at), NEW g \in Groups,
         Q[g].country = s[Count(v)][g].country
  PROVE  r[Count(v)][g].country = Q[g].country
<1> DEFINE n == Count(v)
           Same(i) == r[i][g].country \in {s[i][g].country, Q[g].country}
           X == {i \in 0..n : Same(i)}
<1>1. n \in Nat /\ r[0] = Q
  BY Counted DEF Pass
<1>2. 0 \in X
  BY <1>1
<1>3. ASSUME NEW i \in 1..n, i - 1 \in X PROVE i \in X
  <2>1. PICK p, pp, q, qq, mg : /\ p = s[i - 1][g] /\ pp = s[i][g]
                                /\ q = r[i - 1][g] /\ qq = r[i][g] /\ mg = Described(v, i)
    OBVIOUS
  <2>2. /\ p \in Profile /\ mg \in MitreGroup
        /\ pp = IF Hits(v, at, i, g) THEN Matched(p, g, v, mg) ELSE p
    BY <2>1, PassAt
  <2>3. /\ q \in Profile
        /\ qq = IF Hits(v, at, i, g) THEN Matched(q, g, v, mg) ELSE q
    BY <2>1, PassAt
  <2>4. q.country \in {p.country, Q[g].country}
    BY <1>3, <2>1
  <2>5. CASE ~Hits(v, at, i, g)
    <3>1. pp = p /\ qq = q
      BY <2>2, <2>3, <2>5
    <3>2. qq.country \in {pp.country, Q[g].country}
      BY <2>4, <3>1
    <3> QED BY <1>1, <2>1, <3>2
  <2>6. CASE Hits(v, at, i, g)
    <3>1. pp.country = IF mg.country = None THEN p.country ELSE mg.country
      BY <2>2, <2>6, MatchedIs
    <3>2. qq.country = IF mg.country = None THEN q.country ELSE mg.country
      BY <2>2, <2>3, <2>6, MatchedIs
    <3> QED
      BY <1>1, <2>1, <2>4, <3>1, <3>2
  <2> QED
    BY <2>5, <2>6
<1>4. n \in X
  <2> HIDE DEF X, n
  <2>1. \A i \in 0..n : i \in X
    BY <1>1, <1>2, <1>3, PassInduction
  <2> QED BY <1>1, <2>1
<1> QED
  BY <1>4

\* The payload of a group's only match is its evidence after a pass.
LEMMA OnlyEvidence ==
  ASSUME groups \in Seq(Groups), NEW P \in Profiles, NEW v \in Versions, NEW at,
         NEW s, Pass(s, P, v, at), NEW g \in Groups,
         \A i, j \in 1..Count(v) : Hits(v, at, i, g) /\ Hits(v, at, j, g) => i = j
  PROVE  \A k \in 1..Count(v) :
           Hits(v, at, k, g) => s[Count(v)][g].evidence = Payload(Described(v, k))
<1> DEFINE n == Count(v)
           Shown(i) == \A k \in 1..i :
                         Hits(v, at, k, g) => s[i][g].evidence = Payload(Described(v, k))
           X == {i \in 0..n : Shown(i)}
<1>1. n \in Nat
  BY Counted
<1>2. 0 \in X
  BY <1>1
<1>3. ASSUME NEW i \in 1..n, i - 1 \in X PROVE i \in X
  <2>1. PICK p, q, mg : p = s[i - 1][g] /\ q = s[i][g] /\ mg = Described(v, i)
    OBVIOUS
  <2>2. /\ p \in Profile /\ mg \in MitreGroup
        /\ q = IF Hits(v, at, i, g) THEN Matched(p, g, v, mg) ELSE p
    BY <2>1, PassAt
  <2>3. \A k \in 1..(i - 1) : Hits(v, at, k, g) => p.evidence = Payload(Described(v, k))
    BY <1>3, <2>1
  <2>4. CASE ~Hits(v, at, i, g)
    <3>1. \A k \in 1..i : k = i \/ k \in 1..(i - 1)
      BY <1>1
    <3>2. \A k \in 1..i : Hits(v, at, k, g) => q.evidence = Payload(Described(v, k))
      BY <2>2, <2>3, <2>4, <3>1
    <3> QED BY <1>1, <2>1, <3>2
  <2>5. CASE Hits(v, at, i, g)
    <3>1. q.evidence = Payload(mg)
      BY <2>2, <2>5, MatchedIs
    <3>2. \A k \in 1..i : k \in 1..n
      BY <1>1
    <3>3. \A k \in 1..i : Hits(v, at, k, g) => k = i
      BY <2>5, <3>2
    <3>4. \A k \in 1..i : Hits(v, at, k, g) => q.evidence = Payload(Described(v, k))
      BY <2>1, <3>1, <3>3
    <3> QED BY <1>1, <2>1, <3>4
  <2> QED
    BY <2>4, <2>5
<1>4. n \in X
  <2> HIDE DEF X, n
  <2>1. \A i \in 0..n : i \in X
    BY <1>1, <1>2, <1>3, PassInduction
  <2> QED BY <1>1, <2>1
<1> QED
  BY <1>4

\* The same evidence again is not archived.
LEMMA SameEvidence ==
  ASSUME groups \in Seq(Groups), NEW Q \in Profiles, NEW v \in Versions, NEW at,
         NEW r, Pass(r, Q, v, at), NEW g \in Groups,
         \A k \in 1..Count(v) : Hits(v, at, k, g) => Q[g].evidence = Payload(Described(v, k))
  PROVE  LET q == r[Count(v)][g] IN
         q.evidence = Q[g].evidence /\ q.history = Q[g].history
<1> DEFINE n == Count(v)
           Same(q) == q.evidence = Q[g].evidence /\ q.history = Q[g].history
           X == {i \in 0..n : Same(r[i][g])}
<1>1. n \in Nat /\ r[0] = Q
  BY Counted DEF Pass
<1>2. 0 \in X
  BY <1>1
<1>3. ASSUME NEW i \in 1..n, i - 1 \in X PROVE i \in X
  <2>1. PICK p, q, mg : p = r[i - 1][g] /\ q = r[i][g] /\ mg = Described(v, i)
    OBVIOUS
  <2>2. /\ p \in Profile /\ mg \in MitreGroup
        /\ q = IF Hits(v, at, i, g) THEN Matched(p, g, v, mg) ELSE p
    BY <2>1, PassAt
  <2>3. Same(p)
    BY <1>3, <2>1
  <2>4. CASE ~Hits(v, at, i, g)
    <3>1. q = p
      BY <2>2, <2>4
    <3>2. Same(q)
      BY <2>3, <3>1
    <3> QED BY <1>1, <2>1, <3>2
  <2>5. CASE Hits(v, at, i, g)
    <3>1. p.evidence = Payload(mg)
      BY <2>1, <2>3, <2>5
    <3>2. q.evidence = Payload(mg) /\ q.history = p.history
      BY <2>2, <2>5, <3>1, MatchedIs
    <3> QED
      BY <1>1, <2>1, <2>3, <3>1, <3>2
  <2> QED
    BY <2>4, <2>5
<1>4. n \in X
  <2> HIDE DEF X, n
  <2>1. \A i \in 0..n : i \in X
    BY <1>1, <1>2, <1>3, PassInduction
  <2> QED BY <1>1, <2>1
<1> QED
  BY <1>4

\* Two profiles with the same fields are the same.
LEMMA SameProfile ==
  ASSUME NEW p \in Profile, NEW q \in Profile,
         p.aliases = q.aliases, p.country = q.country, p.ttps = q.ttps, p.tools = q.tools,
         p.evidence = q.evidence, p.history = q.history
  PROVE  p = q
BY DEF Profile

\* A group that at most one of the bundle's groups is.
LEMMA OneMatch ==
  ASSUME NEW v \in Versions, NEW g \in Groups, Cardinality(MatchesTo(v, g)) <= 1
  PROVE  \A i, j \in 1..Count(v) :
           Hits(v, parse_mitre_groups[v], i, g) /\ Hits(v, parse_mitre_groups[v], j, g) => i = j
<1> SUFFICES ASSUME NEW i \in 1..Count(v), NEW j \in 1..Count(v), i # j,
                    Hits(v, parse_mitre_groups[v], i, g), Hits(v, parse_mitre_groups[v], j, g)
             PROVE  FALSE
  OBVIOUS
<1>1. i \in MatchesTo(v, g) /\ j \in MatchesTo(v, g)
  BY DEF Hits, MatchesTo, Described
<1>2. IsFiniteSet(MatchesTo(v, g))
  <2>1. Count(v) \in Nat /\ MatchesTo(v, g) \subseteq 1..Count(v)
    BY Counted DEF MatchesTo
  <2>2. IsFiniteSet(1..Count(v))
    BY <2>1, FS_Interval
  <2> QED
    BY <2>1, <2>2, FS_Subset
<1>3. Cardinality({i, j}) <= Cardinality(MatchesTo(v, g))
  BY <1>1, <1>2, FS_Subset
<1>4. IsFiniteSet({i}) /\ Cardinality({i}) = 1
  BY FS_Singleton
<1>5. Cardinality({i} \cup {j}) = 2
  <2>1. j \notin {i}
    OBVIOUS
  <2>2. Cardinality({i} \cup {j}) = Cardinality({i}) + 1
    BY <1>4, <2>1, FS_AddElement
  <2> QED
    BY <1>4, <2>2
<1>6. {i} \cup {j} = {i, j}
  OBVIOUS
<1>7. Cardinality(MatchesTo(v, g)) \in Nat
  BY <1>2, FS_CardinalityType
<1> QED
  BY <1>3, <1>5, <1>6, <1>7

\* To enrich twice from a bundle is to enrich once.
LEMMA EnrichedTwice ==
  ASSUME groups \in Seq(Groups), NEW P \in Profiles, NEW v \in Versions, NEW g \in Groups
  PROVE  LET once  == Enriched(P, v, parse_mitre_groups[v])
             twice == Enriched(once, v, parse_mitre_groups[v])
         IN  /\ \A f \in {"aliases", "country", "ttps", "tools"} : twice[g][f] = once[g][f]
             /\ Cardinality(MatchesTo(v, g)) <= 1 => twice[g] = once[g]
<1>1. PICK at, once, twice : /\ at = parse_mitre_groups[v]
                             /\ once = Enriched(P, v, at) /\ twice = Enriched(once, v, at)
  OBVIOUS
<1>2. PICK s : Pass(s, P, v, at) /\ once = BySoftware(s[Count(v)], v)
  BY <1>1, PassRuns
<1>3. PICK n \in Nat : n = Count(v)
  BY Counted
<1>4. s[n] \in Profiles
  BY <1>2, <1>3 DEF Pass
<1>5. /\ once \in Profiles
      /\ once[g].ttps = s[n][g].ttps \cup TechsOfSoftware(v, g)
      /\ \A f \in {"aliases", "country", "tools", "evidence", "history"} : once[g][f] = s[n][g][f]
  BY <1>2, <1>3, <1>4, BySoftwareIs
<1>6. PICK r : Pass(r, once, v, at) /\ twice = BySoftware(r[Count(v)], v)
  BY <1>1, <1>5, PassRuns
<1>7. r[n] \in Profiles
  BY <1>3, <1>6 DEF Pass
<1>8. /\ twice \in Profiles
      /\ twice[g].ttps = r[n][g].ttps \cup TechsOfSoftware(v, g)
      /\ \A f \in {"aliases", "country", "tools", "evidence", "history"} : twice[g][f] = r[n][g][f]
  BY <1>3, <1>6, <1>7, BySoftwareIs
<1>9. ASSUME NEW k \in 1..Count(v), Hits(v, at, k, g)
      PROVE  Absorbed(once[g], g, v, Described(v, k))
  <2>1. Absorbed(s[n][g], g, v, Described(v, k))
    BY <1>2, <1>3, <1>9, PassAbsorbs
  <2>2. once[g].aliases = s[n][g].aliases /\ once[g].tools = s[n][g].tools
    BY <1>5
  <2> QED
    BY <1>5, <2>1, <2>2 DEF Absorbed
<1>10. /\ r[n][g].aliases = once[g].aliases /\ r[n][g].ttps = once[g].ttps
       /\ r[n][g].tools = once[g].tools
  BY <1>3, <1>5, <1>6, <1>9, PassAgain
<1>11. r[n][g].country = once[g].country
  <2>1. once[g].country = s[Count(v)][g].country
    BY <1>3, <1>5
  <2> QED
    BY <1>2, <1>3, <1>5, <1>6, <2>1, SameCountry
<1>12. /\ twice[g].aliases = once[g].aliases /\ twice[g].country = once[g].country
       /\ twice[g].ttps = once[g].ttps /\ twice[g].tools = once[g].tools
  BY <1>5, <1>8, <1>10, <1>11
<1>13. ASSUME Cardinality(MatchesTo(v, g)) <= 1 PROVE twice[g] = once[g]
  <2>1. \A i, j \in 1..Count(v) : Hits(v, at, i, g) /\ Hits(v, at, j, g) => i = j
    BY <1>1, <1>13, OneMatch
  <2>2. \A k \in 1..Count(v) :
          Hits(v, at, k, g) => s[Count(v)][g].evidence = Payload(Described(v, k))
    BY <1>2, <2>1, OnlyEvidence
  <2>3. \A k \in 1..Count(v) :
          Hits(v, at, k, g) => once[g].evidence = Payload(Described(v, k))
    BY <1>3, <1>5, <2>2
  <2>4. r[n][g].evidence = once[g].evidence /\ r[n][g].history = once[g].history
    BY <1>3, <1>5, <1>6, <2>3, SameEvidence
  <2>5. twice[g].evidence = once[g].evidence /\ twice[g].history = once[g].history
    BY <1>8, <2>4
  <2>6. twice[g] \in Profile /\ once[g] \in Profile
    BY <1>5, <1>8 DEF Profiles
  <2> QED
    BY <1>12, <2>5, <2>6, SameProfile
<1> QED
  BY <1>1, <1>12, <1>13

-----------------------------------------------------------------------------
(* The rows of deepdarkCTI.                                                *)

Rows == Groups \X Items
Index == [Range(Key) -> Groups \cup {None}]

\* What nothing makes unique is added once more at most.
OnceMore == \A x \in added : x[2] \in Pages => locations[x] <= 1

LEMMA FilesAre ==
  Range(Files) = {"ransomware_gang", "telegram_threat_actors", "twitter_threat_actors"}
<1>1. DOMAIN Files = {1, 2, 3}
  BY DEF Files
<1>2. /\ Files[1] = "ransomware_gang" /\ Files[2] = "telegram_threat_actors"
      /\ Files[3] = "twitter_threat_actors"
  BY DEF Files
<1> QED
  BY <1>1, <1>2 DEF Range

LEMMA NameIndexTyped ==
  ASSUME groups \in Seq(Groups)
  PROVE  NameIndex \in Index
<1> DEFINE by(k) == {i \in DOMAIN groups :
                       \E n \in {groups[i]} \cup profile[groups[i]].aliases : Key[n] = k}
<1>1. Len(groups) \in Nat /\ DOMAIN groups = 1..Len(groups)
  OBVIOUS
<1>2. ASSUME NEW k, by(k) # {} PROVE groups[Max(by(k))] \in Groups
  <2>1. PICK S : S = by(k)
    OBVIOUS
  <2>2. S \in SUBSET (1..Len(groups)) /\ S # {}
    BY <1>1, <1>2, <2>1
  <2>3. Max(S) \in S
    BY <1>1, <2>2, MaxIsLast
  <2>4. Max(S) \in DOMAIN groups
    BY <1>1, <2>2, <2>3
  <2> QED
    BY <2>1, <2>4
<1>3. NameIndex = [k \in Range(Key) |-> IF by(k) = {} THEN None ELSE groups[Max(by(k))]]
  BY DEF NameIndex
<1> HIDE DEF by
<1> QED
  BY <1>2, <1>3 DEF Index

LEMMA RowsTyped ==
  ASSUME listed \subseteq Items, NEW names \in Index, NEW file
  PROVE  RowsOf(file, names) \subseteq Rows
<1>1. ASSUME NEW i \in listed, names[Key[NamedBy[i]]] # None
      PROVE  <<names[Key[NamedBy[i]]], i>> \in Rows
  <2>1. i \in Items /\ NamedBy[i] \in Names /\ Names = DOMAIN Key
    BY EnrichersAssumption
  <2>2. Key[NamedBy[i]] \in Range(Key)
    BY <2>1 DEF Range
  <2>3. names[Key[NamedBy[i]]] \in Groups
    BY <1>1, <2>2 DEF Index
  <2> QED
    BY <2>1, <2>3 DEF Rows
<1> QED
  BY <1>1 DEF RowsOf

LEMMA AddedKeeps ==
  ASSUME comms \subseteq Groups \X (Items \ Pages), locations \in [Groups \X Pages -> 0..2],
         NEW S \in SUBSET Rows, \A x \in S : x[2] \in Pages => locations[x] <= 1, Added(S)
  PROVE  /\ comms' \subseteq Groups \X (Items \ Pages)
         /\ locations' \in [Groups \X Pages -> 0..2]
         /\ \A x \in Groups \X Pages :
              locations'[x] = IF x \in S THEN locations[x] + 1 ELSE locations[x]
<1>1. comms' \subseteq Groups \X (Items \ Pages)
  <2>1. ASSUME NEW x \in S, x[2] \notin Pages PROVE x \in Groups \X (Items \ Pages)
    BY <2>1 DEF Rows
  <2> QED BY <2>1 DEF Added
<1>2. ASSUME NEW x \in Groups \X Pages
      PROVE  (IF x \in S THEN locations[x] + 1 ELSE locations[x]) \in 0..2
  <2>1. locations[x] \in 0..2
    OBVIOUS
  <2>2. x[2] \in Pages
    OBVIOUS
  <2>3. x \in S => locations[x] <= 1
    BY <2>2
  <2> QED BY <2>1, <2>3
<1>3. locations' = [x \in Groups \X Pages |-> IF x \in S THEN locations[x] + 1 ELSE locations[x]]
  BY DEF Added
<1> QED
  BY <1>1, <1>2, <1>3

\* A refresh from the web adds what is not there, and the scheduler still may.
LEMMA RefreshKeeps ==
  ASSUME groups \in Seq(Groups), listed \subseteq Items, added \subseteq Rows, OnceMore,
         comms \subseteq Groups \X (Items \ Pages), locations \in [Groups \X Pages -> 0..2],
         NEW read, RefreshReads(read)
  PROVE  /\ comms' \subseteq Groups \X (Items \ Pages)
         /\ locations' \in [Groups \X Pages -> 0..2]
         /\ \A x \in added : x[2] \in Pages => locations'[x] <= 1
<1>1. PICK S : S = NewIn(read)
  OBVIOUS
<1>2. \A file : RowsOf(file, NameIndex) \subseteq Rows
  BY NameIndexTyped, RowsTyped
<1>3. S \subseteq Rows /\ \A x \in S : x[2] \in Pages => locations[x] = 0
  BY <1>1, <1>2 DEF NewIn
<1>4. Added(S)
  BY <1>1 DEF RefreshReads
<1>5. /\ comms' \subseteq Groups \X (Items \ Pages)
      /\ locations' \in [Groups \X Pages -> 0..2]
      /\ \A x \in Groups \X Pages :
           locations'[x] = IF x \in S THEN locations[x] + 1 ELSE locations[x]
  BY <1>3, <1>4, AddedKeeps
<1>6. ASSUME NEW x \in added, x[2] \in Pages PROVE locations'[x] <= 1
  <2>1. x \in Groups \X Pages
    BY <1>6 DEF Rows
  <2>2. locations[x] \in 0..2 /\ locations[x] <= 1
    BY <1>6, <2>1 DEF OnceMore
  <2> QED
    BY <1>3, <1>5, <1>6, <2>1, <2>2
<1> QED
  BY <1>5, <1>6

-----------------------------------------------------------------------------
(* The invariant.                                                          *)

Phases == {"mitre", "load", "enrich", "deepdark", "stamp", "wait"} \cup Range(Files)

StoreInv == /\ bundle \in Versions /\ listed \subseteq Items
            /\ groups \in Seq(Groups) /\ \A i, j \in DOMAIN groups : groups[i] = groups[j] => i = j

ProfileInv == profile \in Profiles /\ Supported(profile, bundle) /\ OrderlyAll(profile)

\* The scheduler enriches from a bundle it has.
PhaseInv == /\ last \in 0..bundle /\ tag \in 0..bundle /\ cache \in 0..bundle
            /\ changed \in BOOLEAN /\ age \in 0..Never /\ pc \in Phases
            /\ pc = "enrich" => cache # 0

DeepdarkInv == /\ comms \subseteq Groups \X (Items \ Pages)
               /\ locations \in [Groups \X Pages -> 0..2]
               /\ added \subseteq Rows /\ index \in Index /\ any_success \in BOOLEAN
               /\ OnceMore

IInv == StoreInv /\ ProfileInv /\ PhaseInv /\ DeepdarkInv

LEMMA InvImpliesTypeOK == IInv => TypeOK
BY DEF IInv, StoreInv, ProfileInv, PhaseInv, DeepdarkInv, TypeOK, Profiles, Profile, Rows, Index, Phases

LEMMA VersionsAre ==
  /\ Len(Bundles) \in Nat /\ Versions = 1..Len(Bundles) /\ 1 \in Versions
  /\ \A v \in Versions : v \in Nat /\ \A w \in 1..v : w \in Versions
<1>1. /\ Len(Bundles) \in Nat /\ DOMAIN Bundles = 1..Len(Bundles) /\ Len(Bundles) # 0
  BY EnrichersAssumption
<1>2. Versions = 1..Len(Bundles)
  BY <1>1 DEF Versions
<1> QED
  BY <1>1, <1>2

LEMMA InitSatisfiesInv == Init => IInv
<1> SUFFICES ASSUME Init PROVE IInv
  OBVIOUS
<1>1. StoreInv
  BY VersionsAre, EnrichersAssumption DEF Init, StoreInv
<1>2. ProfileInv
  <2> DEFINE blank == [aliases |-> {}, country |-> None, ttps |-> {}, tools |-> {},
                       evidence |-> None, history |-> <<>>]
  <2>1. blank \in Profile
    BY DEF Profile
  <2>2. profile = [g \in Groups |-> blank]
    BY DEF Init
  <2>3. Orderly(blank) /\ blank.ttps = {}
    BY DEF Orderly
  <2> HIDE DEF blank
  <2> QED
    BY <2>1, <2>2, <2>3 DEF ProfileInv, Profiles, Supported, OrderlyAll
<1>3. PhaseInv
  <2>1. bundle = 1 /\ Never \in Nat
    BY EnrichersAssumption DEF Init, Never
  <2>2. Never \in 0..Never /\ 0 \in 0..1 /\ pc \in Phases
    BY <2>1 DEF Init, Phases
  <2>3. last = 0 /\ tag = 0 /\ cache = 0 /\ changed = FALSE /\ age = Never /\ pc = "mitre"
    BY DEF Init
  <2> QED
    BY <2>1, <2>2, <2>3 DEF PhaseInv
<1>4. DeepdarkInv
  <2>1. comms = {} /\ added = {} /\ any_success = FALSE
    BY DEF Init
  <2>2. locations = [x \in Groups \X Pages |-> 0]
    BY DEF Init
  <2>3. locations \in [Groups \X Pages -> 0..2]
    BY <2>2
  <2>4. index \in Index
    BY DEF Init, Index
  <2> QED
    BY <2>1, <2>3, <2>4 DEF DeepdarkInv, OnceMore
<1> QED
  BY <1>1, <1>2, <1>3, <1>4 DEF IInv

-----------------------------------------------------------------------------
(* Every step keeps it.                                                    *)

LEMMA StoreStays == StoreInv /\ UNCHANGED <<bundle, listed, groups>> => StoreInv'
BY DEF StoreInv

LEMMA ProfileStays == ProfileInv /\ UNCHANGED <<bundle, profile>> => ProfileInv'
BY DEF ProfileInv

LEMMA DeepdarkStays == DeepdarkInv /\ UNCHANGED deepdark => DeepdarkInv'
BY DEF DeepdarkInv, deepdark, session, OnceMore

\* A release, a list and a group that is ingested.
LEMMA OthersKeep ==
  ASSUME IInv, Release \/ (\E i \in Items : Relist(i)) \/ (\E g \in Groups : IngestGroup(g))
  PROVE  IInv'
<1>1. CASE Release
  <2>1. bundle \in Nat /\ bundle' = bundle + 1 /\ bundle' \in Versions
        /\ UNCHANGED <<listed, groups, mitre, deepdark, pc>>
    BY <1>1, VersionsAre DEF Release, IInv, StoreInv
  <2>2. StoreInv'
    BY <2>1 DEF IInv, StoreInv
  <2>3. ProfileInv'
    <3>1. \A v \in 1..bundle : v \in 1..bundle'
      BY <2>1
    <3> QED
      BY <2>1, <3>1 DEF IInv, ProfileInv, Supported, mitre
  <2>4. PhaseInv'
    BY <2>1 DEF IInv, PhaseInv, mitre, deepdark
  <2> QED
    BY <2>1, <2>2, <2>3, <2>4, DeepdarkStays DEF IInv
<1>2. ASSUME NEW i \in Items, Relist(i) PROVE IInv'
  <2>1. UNCHANGED <<bundle, groups, mitre, deepdark, pc>> /\ listed' \subseteq Items
    BY <1>2 DEF Relist, IInv, StoreInv
  <2>2. StoreInv'
    BY <2>1 DEF IInv, StoreInv
  <2>3. PhaseInv'
    BY <2>1 DEF IInv, PhaseInv, mitre, deepdark
  <2> QED
    BY <2>1, <2>2, <2>3, DeepdarkStays, ProfileStays DEF IInv, mitre
<1>3. ASSUME NEW g \in Groups, IngestGroup(g) PROVE IInv'
  <2>1. UNCHANGED <<published, mitre, deepdark, pc>> /\ groups' = Append(groups, g) /\ g \notin Stored
    BY <1>3 DEF IngestGroup
  <2>2. groups \in Seq(Groups) /\ \A i, j \in DOMAIN groups : groups[i] = groups[j] => i = j
    BY DEF IInv, StoreInv
  <2>3. \A i \in DOMAIN groups : groups[i] # g
    BY <2>1 DEF Stored, Range
  <2>4. PICK n \in Nat : n = Len(groups)
    BY <2>2
  <2>5. /\ DOMAIN groups = 1..n /\ groups' \in Seq(Groups) /\ DOMAIN groups' = 1..(n + 1)
        /\ groups'[n + 1] = g /\ \A i \in 1..n : groups'[i] = groups[i]
    BY <2>1, <2>2, <2>4
  <2>6. ASSUME NEW i \in 1..(n + 1), NEW j \in 1..(n + 1), groups'[i] = groups'[j] PROVE i = j
    <3>1. i = n + 1 \/ i \in 1..n
      OBVIOUS
    <3>2. j = n + 1 \/ j \in 1..n
      OBVIOUS
    <3> QED
      BY <2>2, <2>3, <2>5, <2>6, <3>1, <3>2
  <2>7. StoreInv'
    BY <2>1, <2>5, <2>6 DEF IInv, StoreInv, published
  <2>8. PhaseInv'
    BY <2>1 DEF IInv, PhaseInv, mitre, deepdark, published
  <2> QED
    BY <2>1, <2>7, <2>8, DeepdarkStays, ProfileStays DEF IInv, mitre, published
<1> QED
  BY <1>1, <1>2, <1>3

\* An alias that an ingest brings.
LEMMA MergeAltnameKeeps ==
  ASSUME IInv, NEW x \in Altnames, MergeAltname(x[1], x[2])
  PROVE  IInv'
<1>1. x[1] \in Groups /\ x[2] \in Names
  BY EnrichersAssumption
<1>2. PICK g \in Groups, name \in Names : g = x[1] /\ name = x[2]
  BY <1>1
<1>3. /\ profile' = [profile EXCEPT ![g].aliases = @ \cup {name}]
      /\ UNCHANGED <<published, groups, last, tag, cache, changed, deepdark, pc>>
  BY <1>2 DEF MergeAltname
<1>4. profile \in Profiles /\ Supported(profile, bundle) /\ OrderlyAll(profile)
  BY DEF IInv, ProfileInv
<1>5. PICK p \in Profile : p = profile[g]
  BY <1>4 DEF Profiles
<1>6. PICK A \in SUBSET Names : A = p.aliases \cup {name}
  BY DEF Profile
<1>7. PICK q : q = [p EXCEPT !.aliases = A]
  OBVIOUS
<1>8. q \in Profile /\ q.ttps = p.ttps /\ q.evidence = p.evidence /\ q.history = p.history
  BY <1>7 DEF Profile
<1>9. profile' = [profile EXCEPT ![g] = q]
  BY <1>3, <1>5, <1>6, <1>7
<1>10. /\ profile' \in Profiles
       /\ \A h \in Groups : profile'[h] = IF h = g THEN q ELSE profile[h]
  BY <1>4, <1>8, <1>9 DEF Profiles
<1>11. Orderly(p) => Orderly(q)
  BY <1>8 DEF Orderly
<1>12. OrderlyAll(profile') /\ Supported(profile', bundle)
  BY <1>4, <1>5, <1>8, <1>10, <1>11 DEF OrderlyAll, Supported
<1>13. ProfileInv'
  BY <1>3, <1>10, <1>12 DEF ProfileInv, published
<1>14. StoreInv' /\ PhaseInv'
  BY <1>3 DEF IInv, StoreInv, PhaseInv, published, deepdark
<1> QED
  BY <1>3, <1>13, <1>14, DeepdarkStays DEF IInv

\* A pass over a bundle that was published.
LEMMA ProfilesEnriched ==
  ASSUME IInv, NEW v \in 1..bundle, NEW at \in SUBSET parse_mitre_groups[v],
         profile' = Enriched(profile, v, at), bundle' = bundle
  PROVE  ProfileInv'
<1>1. groups \in Seq(Groups) /\ bundle \in Versions
  BY DEF IInv, StoreInv
<1>2. v \in Versions /\ bundle \in Nat
  BY <1>1, VersionsAre
<1>3. profile \in Profiles /\ Supported(profile, bundle) /\ OrderlyAll(profile)
  BY DEF IInv, ProfileInv
<1>4. PICK P : P = Enriched(profile, v, at)
  OBVIOUS
<1>5. P \in Profiles /\ Supported(P, bundle) /\ OrderlyAll(P)
  BY <1>1, <1>2, <1>3, <1>4, EnrichedKeeps
<1> QED
  BY <1>4, <1>5 DEF ProfileInv

LEMMA EnrichKeeps ==
  ASSUME IInv, Enrich
  PROVE  IInv'
<1>1. /\ pc = "enrich" /\ last' = bundle /\ pc' = "deepdark"
      /\ UNCHANGED <<published, groups, tag, cache, changed, deepdark>>
  BY DEF Enrich
<1>2. bundle \in Nat /\ cache \in 1..bundle
  BY <1>1, VersionsAre DEF IInv, StoreInv, PhaseInv
<1>3. PICK at \in SUBSET parse_mitre_groups[cache] : profile' = Enriched(profile, cache, at)
  <2>1. Modified(cache) \in SUBSET parse_mitre_groups[cache]
    BY DEF Modified
  <2>2. profile' = Enriched(profile, cache, IF last = 0 THEN parse_mitre_groups[cache] ELSE Modified(cache))
    BY DEF Enrich
  <2> QED
    BY <2>1, <2>2
<1>4. ProfileInv'
  BY <1>1, <1>2, <1>3, ProfilesEnriched DEF published
<1>5. PhaseInv'
  BY <1>1, <1>2 DEF IInv, PhaseInv, Phases, published, deepdark
<1>6. StoreInv'
  BY <1>1, StoreStays DEF IInv, published
<1> QED
  BY <1>1, <1>4, <1>5, <1>6, DeepdarkStays DEF IInv

LEMMA ForcedEnrichmentKeeps ==
  ASSUME IInv, ForcedEnrichment
  PROVE  IInv'
<1>1. /\ cache' = bundle /\ last' = bundle
      /\ profile' = Enriched(profile, bundle, parse_mitre_groups[bundle])
      /\ UNCHANGED <<published, groups, tag, changed, deepdark, pc>>
  BY DEF ForcedEnrichment
<1>2. bundle \in Nat /\ bundle \in 1..bundle
  BY VersionsAre DEF IInv, StoreInv
<1>3. ProfileInv'
  BY <1>1, <1>2, ProfilesEnriched DEF published
<1>4. PhaseInv'
  BY <1>1, <1>2 DEF IInv, PhaseInv, published, deepdark
<1>5. StoreInv'
  BY <1>1, StoreStays DEF IInv, published
<1> QED
  BY <1>1, <1>3, <1>4, <1>5, DeepdarkStays DEF IInv

\* The steps that only move the scheduler, its tags and its clock.
Moves == \/ SkipMitre \/ CheckFreshness \/ FreshnessUnknown \/ LoadBundle \/ DownloadFails
         \/ NotRun \/ SkipDeepdark \/ Wait

LEMMA MovesKeep ==
  ASSUME IInv, Moves
  PROVE  IInv'
<1>1. UNCHANGED <<published, groups, profile, last, comms, locations, session>>
  BY DEF Moves, SkipMitre, CheckFreshness, FreshnessUnknown, LoadBundle, DownloadFails, NotRun,
         SkipDeepdark, Wait, mitre, deepdark
<1>2. StoreInv' /\ ProfileInv'
  BY <1>1, StoreStays, ProfileStays DEF IInv, published
<1>3. DeepdarkInv'
  BY <1>1 DEF IInv, DeepdarkInv, session, OnceMore
<1>4. bundle \in Nat /\ bundle # 0 /\ bundle' = bundle /\ last' = last
  BY <1>1, VersionsAre DEF IInv, StoreInv, published
<1>5. PhaseInv
  BY DEF IInv
<1>6. ASSUME SkipMitre PROVE PhaseInv'
  BY <1>4, <1>5, <1>6 DEF SkipMitre, PhaseInv, Phases, mitre, deepdark
<1>7. ASSUME CheckFreshness PROVE PhaseInv'
  <2>1. tag' \in 0..bundle /\ changed' \in BOOLEAN /\ pc' \in {"load", "deepdark"}
    BY <1>4, <1>5, <1>7 DEF CheckFreshness, PhaseInv
  <2>2. UNCHANGED <<cache, age>>
    BY <1>7 DEF CheckFreshness, deepdark
  <2> QED
    BY <1>4, <1>5, <2>1, <2>2 DEF PhaseInv, Phases
<1>8. ASSUME FreshnessUnknown PROVE PhaseInv'
  BY <1>4, <1>5, <1>8 DEF FreshnessUnknown, PhaseInv, Phases, deepdark
<1>9. ASSUME LoadBundle PROVE PhaseInv'
  <2>1. cache' \in 0..bundle /\ cache' # 0 /\ changed' = FALSE /\ pc' = "enrich"
    BY <1>4, <1>5, <1>9 DEF LoadBundle, PhaseInv
  <2>2. UNCHANGED <<tag, age>>
    BY <1>9 DEF LoadBundle, deepdark
  <2> QED
    BY <1>4, <1>5, <2>1, <2>2 DEF PhaseInv, Phases
<1>10. ASSUME DownloadFails PROVE PhaseInv'
  BY <1>4, <1>5, <1>10 DEF DownloadFails, PhaseInv, Phases, deepdark
<1>11. ASSUME NotRun PROVE PhaseInv'
  BY <1>4, <1>5, <1>11 DEF NotRun, PhaseInv, Phases, mitre, deepdark
<1>12. ASSUME SkipDeepdark PROVE PhaseInv'
  BY <1>4, <1>5, <1>12 DEF SkipDeepdark, PhaseInv, Phases, mitre, deepdark
<1>13. ASSUME Wait PROVE PhaseInv'
  <2>1. Week \in Nat /\ Never = Week + 1
    BY EnrichersAssumption DEF Never
  <2>2. age' \in 0..Never
    BY <1>5, <1>13, <2>1 DEF Wait, PhaseInv
  <2>3. pc' = "mitre" /\ UNCHANGED <<tag, cache, changed>>
    BY <1>13 DEF Wait, mitre
  <2> QED
    BY <1>4, <1>5, <2>2, <2>3 DEF PhaseInv, Phases
<1>14. PhaseInv'
  BY <1>6, <1>7, <1>8, <1>9, <1>10, <1>11, <1>12, <1>13 DEF Moves
<1> QED
  BY <1>2, <1>3, <1>14 DEF IInv

\* The process dies with its session.
LEMMA RestartKeeps ==
  ASSUME IInv, Restart
  PROVE  IInv'
<1>1. /\ pc' = "mitre" /\ changed' = FALSE
      /\ index' = [k \in Range(Key) |-> None] /\ added' = {} /\ any_success' = FALSE
      /\ UNCHANGED <<published, groups, profile, last, tag, cache, comms, locations, age>>
  BY DEF Restart
<1>2. StoreInv' /\ ProfileInv'
  BY <1>1, StoreStays, ProfileStays DEF IInv, published
<1>3. PhaseInv'
  BY <1>1 DEF IInv, PhaseInv, Phases, published
<1>4. index' \in Index
  BY <1>1 DEF Index
<1>5. DeepdarkInv'
  BY <1>1, <1>4 DEF IInv, DeepdarkInv, OnceMore
<1> QED
  BY <1>2, <1>3, <1>5 DEF IInv

\* A pass over deepdarkCTI's files.
LEMMA AfterIsPhase == \A file \in Range(Files) : After(file) \in Phases \ {"enrich"}
<1>1. /\ Files[1] = "ransomware_gang" /\ Files[2] = "telegram_threat_actors"
      /\ Files[3] = "twitter_threat_actors"
  BY DEF Files
<1> QED
  BY <1>1, FilesAre DEF After, Phases

LEMMA PassOfFilesKeeps ==
  ASSUME IInv, Start \/ ReadFile \/ FileFails
  PROVE  IInv'
<1>1. UNCHANGED <<published, groups, mitre, comms, locations, age>>
  BY DEF Start, ReadFile, FileFails, deepdark
<1>2. StoreInv' /\ ProfileInv'
  BY <1>1, StoreStays, ProfileStays DEF IInv, published, mitre
<1>3. PhaseInv' /\ pc' # "enrich"
  <2>1. pc' \in Phases \ {"enrich"}
    BY FilesAre, AfterIsPhase DEF Start, ReadFile, FileFails, Phases, Files
  <2> QED
    BY <1>1, <2>1 DEF IInv, PhaseInv, published, mitre
<1>4. groups \in Seq(Groups) /\ listed \subseteq Items /\ DeepdarkInv
  BY DEF IInv, StoreInv
<1>5. DeepdarkInv'
  <2>1. CASE Start
    <3>1. index' \in Index /\ UNCHANGED <<added, any_success>>
      BY <1>4, <2>1, NameIndexTyped DEF Start
    <3> QED
      BY <1>1, <1>4, <3>1 DEF DeepdarkInv, OnceMore
  <2>2. CASE ReadFile
    <3>1. PICK S : S = {x \in RowsOf(pc, index) : Unknown(x)}
      OBVIOUS
    <3>2. added' = added \cup S /\ any_success' = TRUE /\ index' = index
      BY <2>2, <3>1 DEF ReadFile
    <3>3. S \subseteq Rows
      <4>1. RowsOf(pc, index) \subseteq Rows
        BY <1>4, RowsTyped DEF DeepdarkInv
      <4> QED BY <3>1, <4>1
    <3>4. \A x \in S : x[2] \in Pages => locations[x] <= 1
      BY <3>1 DEF Unknown
    <3>5. \A x \in added' : x[2] \in Pages => locations'[x] <= 1
      BY <1>1, <1>4, <3>2, <3>4 DEF DeepdarkInv, OnceMore
    <3> QED
      BY <1>1, <1>4, <3>2, <3>3, <3>5 DEF DeepdarkInv, OnceMore
  <2>3. CASE FileFails
    BY <1>4, <2>3, DeepdarkStays DEF FileFails
  <2> QED
    BY <2>1, <2>2, <2>3
<1> QED
  BY <1>2, <1>3, <1>5 DEF IInv

LEMMA StampKeeps ==
  ASSUME IInv, Stamp
  PROVE  IInv'
<1>1. /\ Added(added) /\ age' = IF any_success THEN 0 ELSE age
      /\ pc' = "wait"
      /\ index' = [k \in Range(Key) |-> None] /\ added' = {} /\ any_success' = FALSE
      /\ UNCHANGED <<published, groups, mitre>>
  BY DEF Stamp
<1>2. StoreInv' /\ ProfileInv'
  BY <1>1, StoreStays, ProfileStays DEF IInv, published, mitre
<1>3. PhaseInv'
  <2>1. age' \in 0..Never
    <3>1. Never \in Nat
      BY EnrichersAssumption DEF Never
    <3> QED BY <1>1, <3>1 DEF IInv, PhaseInv
  <2> QED
    BY <1>1, <2>1 DEF IInv, PhaseInv, Phases, published, mitre
<1>4. DeepdarkInv
  BY DEF IInv
<1>5. comms' \subseteq Groups \X (Items \ Pages) /\ locations' \in [Groups \X Pages -> 0..2]
  <2>1. added \in SUBSET Rows /\ \A x \in added : x[2] \in Pages => locations[x] <= 1
    BY <1>4 DEF DeepdarkInv, OnceMore
  <2> QED
    BY <1>1, <1>4, <2>1, AddedKeeps DEF DeepdarkInv
<1>6. index' \in Index
  BY <1>1 DEF Index
<1>7. DeepdarkInv'
  BY <1>1, <1>5, <1>6 DEF DeepdarkInv, OnceMore
<1> QED
  BY <1>2, <1>3, <1>7 DEF IInv

LEMMA RefreshesKeep ==
  ASSUME IInv, RefreshDeepdark \/ RefreshMisses
  PROVE  IInv'
<1>1. PICK read : RefreshReads(read)
  BY DEF RefreshDeepdark, RefreshMisses
<1>2. age' = 0 /\ UNCHANGED <<published, groups, mitre, session, pc>>
  BY DEF RefreshDeepdark, RefreshMisses
<1>3. StoreInv' /\ ProfileInv'
  BY <1>2, StoreStays, ProfileStays DEF IInv, published, mitre
<1>4. PhaseInv'
  <2>1. 0 \in 0..Never
    BY EnrichersAssumption DEF Never
  <2> QED
    BY <1>2, <2>1 DEF IInv, PhaseInv, published, mitre
<1>5. groups \in Seq(Groups) /\ listed \subseteq Items /\ DeepdarkInv
  BY DEF IInv, StoreInv
<1>6. /\ comms' \subseteq Groups \X (Items \ Pages)
      /\ locations' \in [Groups \X Pages -> 0..2]
      /\ \A x \in added : x[2] \in Pages => locations'[x] <= 1
  BY <1>1, <1>5, RefreshKeeps DEF DeepdarkInv
<1>7. DeepdarkInv'
  BY <1>2, <1>5, <1>6 DEF DeepdarkInv, OnceMore, session
<1> QED
  BY <1>3, <1>4, <1>7 DEF IInv

LEMMA NextKeepsInv == IInv /\ [Next]_vars => IInv'
<1> SUFFICES ASSUME IInv, [Next]_vars PROVE IInv'
  OBVIOUS
<1>1. CASE UNCHANGED vars
  <2>1. UNCHANGED <<published, groups, mitre, deepdark, pc>>
    BY <1>1 DEF vars
  <2>2. PhaseInv'
    BY <2>1 DEF IInv, PhaseInv, published, mitre, deepdark
  <2> QED
    BY <2>1, <2>2, StoreStays, ProfileStays, DeepdarkStays DEF IInv, published, mitre
<1>2. CASE Moves
  BY <1>2, MovesKeep
<1>3. CASE Enrich
  BY <1>3, EnrichKeeps
<1>4. CASE ForcedEnrichment
  BY <1>4, ForcedEnrichmentKeeps
<1>5. CASE Start \/ ReadFile \/ FileFails
  BY <1>5, PassOfFilesKeeps
<1>6. CASE Stamp
  BY <1>6, StampKeeps
<1>7. CASE RefreshDeepdark \/ RefreshMisses
  BY <1>7, RefreshesKeep
<1>8. CASE Restart
  BY <1>8, RestartKeeps
<1>9. CASE Release \/ (\E i \in Items : Relist(i)) \/ (\E g \in Groups : IngestGroup(g))
  BY <1>9, OthersKeep
<1>10. CASE \E x \in Altnames : MergeAltname(x[1], x[2])
  BY <1>10, MergeAltnameKeeps
<1> QED
  BY <1>1, <1>2, <1>3, <1>4, <1>5, <1>6, <1>7, <1>8, <1>9, <1>10
  DEF Next, Cycle, Failure, Others, Moves

LEMMA InvHolds == Spec => []IInv
<1>1. Spec => Init /\ [][Next]_vars
  BY PTL DEF Spec
<1> QED
  BY <1>1, InitSatisfiesInv, NextKeepsInv, PTL

LEMMA InvImpliesNoChurn == IInv => NoChurn
<1> SUFFICES ASSUME IInv PROVE NoChurn
  OBVIOUS
<1>1. groups \in Seq(Groups) /\ bundle \in Versions /\ profile \in Profiles
  BY DEF IInv, StoreInv, ProfileInv
<1>2. PICK once, twice : /\ once = Enriched(profile, bundle, parse_mitre_groups[bundle])
                         /\ twice = Enriched(once, bundle, parse_mitre_groups[bundle])
  OBVIOUS
<1>3. ASSUME NEW g \in Groups
      PROVE  /\ \A f \in {"aliases", "country", "ttps", "tools"} : twice[g][f] = once[g][f]
             /\ Cardinality(MatchesTo(bundle, g)) <= 1 => twice[g] = once[g]
  BY <1>1, <1>2, EnrichedTwice
<1>4. ASSUME NEW g \in Groups, NEW i \in DOMAIN profile[g].history
      PROVE  profile[g].history[i] # IF i = Len(profile[g].history) THEN profile[g].evidence
                                     ELSE profile[g].history[i + 1]
  <2>1. Orderly(profile[g])
    BY DEF IInv, ProfileInv, OrderlyAll
  <2> QED
    BY <2>1 DEF Orderly
<1> QED
  BY <1>2, <1>3, <1>4 DEF NoChurn

-----------------------------------------------------------------------------
(* The theorems.                                                           *)

\* Whatever the scheduler, a refresh from the web, an ingest and a crash do to
\* one another, the tables keep their types; of a page, which no constraint
\* guards, there are at most two copies (enrich_deepdarkcti).
THEOREM TypeCorrect == Spec => []TypeOK
<1>1. IInv => TypeOK
  BY InvImpliesTypeOK
<1> QED
  BY <1>1, InvHolds, PTL

\* A group has no technique but what a published bundle says of a group with
\* one of its names, or of software named after it (_enrich_matched_groups,
\* _enrich_software_matches).
THEOREM TechniquesHaveSupport == Spec => []TechniquesSupported
<1>1. IInv => TechniquesSupported
  BY DEF IInv, ProfileInv, Supported, TechniquesSupported
<1> QED
  BY <1>1, InvHolds, PTL

\* To enrich again from a bundle changes nothing, and the archive of a group's
\* evidence has no payload that was replaced by the same (upsert_source_evidence).
THEOREM PassesDoNotChurn == Spec => []NoChurn
<1>1. IInv => NoChurn
  BY InvImpliesNoChurn
<1> QED
  BY <1>1, InvHolds, PTL
=============================================================================
