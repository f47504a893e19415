---------------------------- MODULE ArticlesProofs ----------------------------
(***************************************************************************)
(* What holds of the article sources for any feeds, articles and limits:   *)
(* one row to an article, nothing hidden by a feed's validators, and       *)
(* campaigns that are the linked articles.                                 *)
(***************************************************************************)
EXTENDS Articles, FiniteSetTheorems, SequenceTheorems, WellFoundedInduction, TLAPS

-----------------------------------------------------------------------------
(* Numbers, and loops.                                                     *)

\* A nonempty set of naturals has a least member.
LEMMA Least ==
  ASSUME NEW S \in SUBSET Nat, S # {}
  PROVE  \E i \in S : \A j \in S : i <= j
<1> DEFINE R == {ss \in Nat \X Nat : ss[1] < ss[2]}
<1>1. IsWellFoundedOn(R, Nat)
  BY NatLessThanWellFounded DEF OpToRel
<1>2. PICK i \in S : \A j \in S : ~ (<<j, i>> \in R)
  <2> HIDE DEF R
  <2> QED BY <1>1, WFMin
<1>3. \A j \in S : i <= j
  <2> TAKE j \in S
  <2>1. <<j, i>> \in Nat \X Nat /\ <<j, i>>[1] = j /\ <<j, i>>[2] = i
    OBVIOUS
  <2>2. ~(<<j, i>>[1] < <<j, i>>[2])
    BY <1>2, <2>1, Zenon
  <2> QED BY <2>1, <2>2
<1> QED BY <1>3

\* Induction, for a set.
LEMMA AllNaturals ==
  ASSUME NEW X, 0 \in X, \A n \in Nat : n \in X => n + 1 \in X
  PROVE  \A n \in Nat : n \in X
<1> SUFFICES ASSUME Nat \ X # {} PROVE FALSE
  OBVIOUS
<1>1. PICK m \in Nat \ X : \A j \in Nat \ X : m <= j
  BY Least
<1>2. m # 0 /\ m - 1 \in Nat /\ m - 1 \in X
  BY <1>1
<1> QED
  BY <1>1, <1>2

\* A loop over n steps on states of a set has a result in it.
LEMMA LoopRuns ==
  ASSUME NEW G, NEW base \in G, NEW n \in Nat, NEW step \in [1..n -> [G -> G]]
  PROVE  \E st \in [0..n -> G] : st[0] = base /\ \A i \in 1..n : st[i] = step[i][st[i - 1]]
<1> DEFINE Runs(m) == \E st \in [0..m -> G] : st[0] = base /\ \A i \in 1..m : st[i] = step[i][st[i - 1]]
           X == {m \in Nat : m <= n => Runs(m)}
<1>1. 0 \in X
  <2> DEFINE st == [i \in 0..0 |-> base]
  <2>1. st \in [0..0 -> G] /\ st[0] = base /\ \A i \in 1..0 : st[i] = step[i][st[i - 1]]
    OBVIOUS
  <2> HIDE DEF st
  <2>2. Runs(0)
    BY <2>1
  <2> QED
    BY <2>2
<1>2. ASSUME NEW m \in Nat, m \in X PROVE m + 1 \in X
  <2> SUFFICES ASSUME m + 1 <= n PROVE Runs(m + 1)
    BY <1>2
  <2>1. Runs(m)
    BY <1>2
  <2>2. PICK st \in [0..m -> G] : st[0] = base /\ \A i \in 1..m : st[i] = step[i][st[i - 1]]
    BY <2>1
  <2>3. m \in 0..m /\ m + 1 \in 1..n /\ st[m] \in G /\ step[m + 1][st[m]] \in G
    BY <2>2
  <2> DEFINE new == [i \in 0..(m + 1) |-> IF i = m + 1 THEN step[m + 1][st[m]] ELSE st[i]]
  <2>4. \A i \in 0..(m + 1) : i # m + 1 => i \in 0..m
    OBVIOUS
  <2>5. new \in [0..(m + 1) -> G]
    BY <2>2, <2>3, <2>4
  <2>6. new[0] = base
    BY <2>2
  <2>7. ASSUME NEW i \in 1..(m + 1) PROVE new[i] = step[i][new[i - 1]]
    <3>1. i \in 0..(m + 1) /\ i - 1 \in 0..(m + 1) /\ i - 1 # m + 1
      OBVIOUS
    <3>2. new[i - 1] = st[i - 1]
      BY <3>1
    <3>3. CASE i = m + 1
      BY <3>1, <3>2, <3>3
    <3>4. CASE i # m + 1
      <4>1. i \in 1..m
        BY <3>4
      <4> QED
        BY <2>2, <3>1, <3>2, <3>4, <4>1
    <3> QED
      BY <3>3, <3>4
  <2> HIDE DEF new
  <2> QED
    BY <2>5, <2>6, <2>7
<1>3. n \in X
  <2> HIDE DEF X
  <2> QED BY <1>1, <1>2, AllNaturals
<1> QED
  BY <1>3


\* The same, of every loop.
RunsLoop(st, G, base, n, step) ==
  st \in [0..n -> G] /\ st[0] = base /\ \A i \in 1..n : st[i] = step[i][st[i - 1]]
Steps(G, n) == [1..n -> [G -> G]]

LEMMA LoopsRun ==
  \A G, n, base, step : n \in Nat /\ base \in G /\ step \in Steps(G, n) =>
    \E st : RunsLoop(st, G, base, n, step)
<1> SUFFICES ASSUME NEW G, NEW n \in Nat, NEW base \in G, NEW step \in [1..n -> [G -> G]]
             PROVE  \E st : RunsLoop(st, G, base, n, step)
  BY DEF Steps
<1>1. PICK st \in [0..n -> G] : st[0] = base /\ \A i \in 1..n : st[i] = step[i][st[i - 1]]
  BY LoopRuns
<1> QED
  BY <1>1 DEF RunsLoop

-----------------------------------------------------------------------------
(* Reading a feed.                                                         *)

Entry == [url : Urls, feed : Feeds]
ListsUrls(f) == listed[f] \subseteq Urls
Unique(articles) == \A i, j \in DOMAIN articles : articles[i].url = articles[j].url => i = j

\* An article that is stored, or that is too near one that is.
Covered(articles, u) == u \in UrlsOf(articles) \/ \E w \in UrlsOf(articles) : {u, w} \in Near

\* A finite set of numbers can be listed downwards.
LEMMA NewestFirstExists ==
  \A n \in Nat : \A S \in SUBSET Nat : IsFiniteSet(S) /\ Cardinality(S) = n =>
    \E s \in [1..n -> S] : \A i, j \in 1..n : i < j => s[i] > s[j]
<1> DEFINE Listable(S, n) == \E s \in [1..n -> S] : \A i, j \in 1..n : i < j => s[i] > s[j]
           X == {n \in Nat : \A S \in SUBSET Nat : IsFiniteSet(S) /\ Cardinality(S) = n => Listable(S, n)}
<1>1. 0 \in X
  <2> SUFFICES ASSUME NEW S \in SUBSET Nat, IsFiniteSet(S), Cardinality(S) = 0 PROVE Listable(S, 0)
    OBVIOUS
  <2> DEFINE s == [i \in 1..0 |-> i]
  <2>1. s \in [1..0 -> S] /\ \A i, j \in 1..0 : i < j => s[i] > s[j]
    OBVIOUS
  <2> HIDE DEF s
  <2> QED
    BY <2>1
<1>2. ASSUME NEW n \in Nat, n \in X PROVE n + 1 \in X
  <2> SUFFICES ASSUME NEW S \in SUBSET Nat, IsFiniteSet(S), Cardinality(S) = n + 1
               PROVE  Listable(S, n + 1)
    OBVIOUS
  <2>1. S # {}
    BY FS_EmptySet
  <2>2. PICK m \in S : \A x \in S : m <= x
    BY <2>1, Least
  <2> DEFINE T == S \ {m}
  <2>3. T \in SUBSET Nat /\ IsFiniteSet(T) /\ Cardinality(T) = n /\ \A x \in T : x > m
    <3>1. IsFiniteSet(T) /\ Cardinality(T) = (n + 1) - 1
      BY FS_RemoveElement
    <3> QED
      BY <2>2, <3>1
  <2>4. Listable(T, n)
    BY <1>2, <2>3
  <2>5. PICK s \in [1..n -> T] : \A i, j \in 1..n : i < j => s[i] > s[j]
    BY <2>4
  <2> DEFINE t == [i \in 1..(n + 1) |-> IF i = n + 1 THEN m ELSE s[i]]
  <2>6. \A i \in 1..(n + 1) : i # n + 1 => i \in 1..n /\ s[i] \in T
    BY <2>5
  <2>7. t \in [1..(n + 1) -> S]
    BY <2>6
  <2>8. ASSUME NEW i \in 1..(n + 1), NEW j \in 1..(n + 1), i < j PROVE t[i] > t[j]
    <3>0. i # n + 1
      BY <2>8
    <3>1. i \in 1..n /\ t[i] = s[i] /\ s[i] \in T
      BY <2>6, <3>0
    <3>4. s[i] > m
      BY <2>3, <3>1
    <3>2. CASE j = n + 1
      BY <3>1, <3>2, <3>4
    <3>3. CASE j # n + 1
      BY <2>5, <2>6, <2>8, <3>1, <3>3
    <3> QED
      BY <3>2, <3>3
  <2> HIDE DEF t
  <2> QED
    BY <2>7, <2>8
<1>3. \A n \in Nat : n \in X
  <2> HIDE DEF X
  <2> QED BY <1>1, <1>2, AllNaturals
<1> QED
  BY <1>3

\* The entries of a feed are what it lists.
LEMMA EntriesAreListed ==
  ASSUME NEW f \in Feeds, ListsUrls(f)
  PROVE  /\ Len(Entries(f)) \in Nat
         /\ \A i \in 1..Len(Entries(f)) : Entries(f)[i] \in listed[f]
         /\ \A u \in listed[f] : \E i \in 1..Len(Entries(f)) : Entries(f)[i] = u
<1> DEFINE S == listed[f]
           n == Cardinality(S)
           s == Entries(f)
<1>1. IsFiniteSet(S) /\ n \in Nat /\ S \in SUBSET Nat
  BY ArticlesAssumption, FS_Subset, FS_CardinalityType DEF ListsUrls
<1>2. \E e \in [1..n -> S] : \A i, j \in 1..n : i < j => e[i] > e[j]
  BY <1>1, NewestFirstExists
<1>3. \E e \in [1..n -> S] : \A i, j \in DOMAIN e : i < j => e[i] > e[j]
  BY <1>2
<1>4. s \in [1..n -> S] /\ \A i, j \in 1..n : i < j => s[i] > s[j]
  BY <1>3 DEF Entries
<1> HIDE DEF s
<1>5. s \in Injection(1..n, S)
  <2>1. ASSUME NEW i \in 1..n, NEW j \in 1..n, s[i] = s[j] PROVE i = j
    <3>1. s[i] \in Nat /\ i \in Nat /\ j \in Nat
      BY <1>1, <1>4
    <3>2. ~(i < j) /\ ~(j < i)
      BY <1>4, <2>1, <3>1
    <3> QED
      BY <3>1, <3>2
  <2> QED
    BY <1>4, <2>1 DEF Injection, IsInjective
<1>6. IsFiniteSet(1..n) /\ Cardinality(1..n) = n
  BY <1>1, FS_Interval
<1>7. s \in Surjection(1..n, S)
  BY <1>1, <1>5, <1>6, FS_Injection
<1>8. Len(s) = n
  BY <1>1, <1>4
<1> QED
  BY <1>1, <1>4, <1>7, <1>8 DEF Surjection, s

\* An entry that is read is covered from then on, and nobody is stored twice.
LEMMA AddedKeeps ==
  ASSUME NEW rows \in Seq(Entry), NEW u \in Urls, NEW f \in Feeds
  PROVE  /\ Added(rows, u, f) \in Seq(Entry)
         /\ UrlsOf(rows) \subseteq UrlsOf(Added(rows, u, f))
         /\ Unique(rows) => Unique(Added(rows, u, f))
         /\ Covered(Added(rows, u, f), u)
<1>1. CASE u \in UrlsOf(rows) \/ NearDuplicate(rows, u)
  <2>1. Added(rows, u, f) = rows
    BY <1>1 DEF Added
  <2> QED
    BY <1>1, <2>1 DEF Covered, NearDuplicate
<1>2. CASE ~(u \in UrlsOf(rows) \/ NearDuplicate(rows, u))
  <2> DEFINE e == [url |-> u, feed |-> f]
             new == Append(rows, e)
  <2>1. Added(rows, u, f) = new /\ e \in Entry /\ e.url = u
    BY <1>2 DEF Added, Entry
  <2> HIDE DEF e
  <2>2. /\ Len(rows) \in Nat /\ DOMAIN rows = 1..Len(rows)
        /\ new \in Seq(Entry) /\ DOMAIN new = 1..(Len(rows) + 1)
        /\ \A i \in 1..Len(rows) : new[i] = rows[i]
        /\ new[Len(rows) + 1] = e
    <3> HIDE DEF Entry
    <3> QED BY <2>1
  <2>3. PICK t \in Seq(Entry), n \in Nat :
          /\ t = new /\ DOMAIN rows = 1..n /\ DOMAIN t = 1..(n + 1)
          /\ \A i \in 1..n : t[i] = rows[i]
          /\ t[n + 1].url = u
    <3> HIDE DEF new
    <3> QED BY <2>1, <2>2
  <2> HIDE DEF new
  <2>4. UrlsOf(t) = UrlsOf(rows) \cup {u}
    <3>1. \A i \in 1..(n + 1) : i \in 1..n \/ i = n + 1
      OBVIOUS
    <3>2. \A i \in 1..n : i \in 1..(n + 1)
      OBVIOUS
    <3>3. n + 1 \in 1..(n + 1)
      OBVIOUS
    <3> QED
      BY <2>3, <3>1, <3>2, <3>3 DEF UrlsOf
  <2>5. ASSUME Unique(rows), NEW i \in 1..(n + 1), NEW j \in 1..(n + 1), t[i].url = t[j].url
        PROVE  i = j
    <3>1. \A k \in 1..n : t[k].url # u
      BY <1>2, <2>3 DEF UrlsOf
    <3>2. (i \in 1..n /\ j \in 1..n) \/ i = j
      BY <2>3, <2>5, <3>1
    <3> QED
      BY <2>3, <2>5, <3>2 DEF Unique
  <2>6. Unique(rows) => Unique(t)
    BY <2>3, <2>5 DEF Unique
  <2> QED
    BY <2>1, <2>3, <2>4, <2>6 DEF Covered
<1> QED
  BY <1>1, <1>2

\* The entries that are read, one after another.
LEMMA AllAddedKeeps ==
  ASSUME NEW rows \in Seq(Entry), NEW f \in Feeds, ListsUrls(f),
         NEW n \in 0..Len(Entries(f))
  PROVE  /\ AllAdded(rows, f, n) \in Seq(Entry)
         /\ UrlsOf(rows) \subseteq UrlsOf(AllAdded(rows, f, n))
         /\ Unique(rows) => Unique(AllAdded(rows, f, n))
         /\ \A i \in 1..n : Covered(AllAdded(rows, f, n), Entries(f)[i])
<1> DEFINE e == Entries(f)
           G == Seq(Entry)
           step == [i \in 1..n |-> [x \in G |-> Added(x, e[i], f)]]
           IsLoop(s) == s = [i \in 0..n |-> IF i = 0 THEN rows ELSE Added(s[i - 1], e[i], f)]
           after == CHOOSE s : IsLoop(s)
           Good(i) == /\ after[i] \in G
                      /\ UrlsOf(rows) \subseteq UrlsOf(after[i])
                      /\ Unique(rows) => Unique(after[i])
                      /\ \A k \in 1..i : Covered(after[i], e[k])
           X == {i \in Nat : i <= n => Good(i)}
<1>1. n \in Nat /\ \A i \in 1..n : e[i] \in Urls
  BY EntriesAreListed DEF ListsUrls
<1> HIDE DEF e
<1>2. step \in [1..n -> [G -> G]]
  <2> HIDE DEF G
  <2>1. \A x \in G, i \in 1..n : Added(x, e[i], f) \in G
    BY <1>1, AddedKeeps DEF G
  <2> QED
    BY <2>1
<1>3. \E s : IsLoop(s)
  <2>1. PICK s \in [0..n -> G] : s[0] = rows /\ \A i \in 1..n : s[i] = step[i][s[i - 1]]
    <3> HIDE DEF step, G
    <3>1. rows \in G
      BY DEF G
    <3>2. n \in Nat
      BY <1>1
    <3>3. step \in Steps(G, n)
      BY <1>2 DEF Steps
    <3>4. PICK st : RunsLoop(st, G, rows, n, step)
      BY <3>1, <3>2, <3>3, LoopsRun, Zenon
    <3> QED BY <3>4 DEF RunsLoop
  <2> HIDE DEF G
  <2>2. ASSUME NEW i \in 0..n, i # 0 PROVE s[i] = Added(s[i - 1], e[i], f)
    <3>1. i \in 1..n /\ i - 1 \in 0..n
      BY <1>1, <2>2
    <3>2. s[i - 1] \in G
      BY <2>1, <3>1
    <3> QED
      BY <2>1, <3>1, <3>2
  <2>3. IsLoop(s)
    BY <2>1, <2>2
  <2> HIDE DEF IsLoop
  <2> QED
    BY <2>3
<1>4. IsLoop(after)
  <2> HIDE DEF IsLoop
  <2> QED BY <1>3
<1>5. after[0] = rows /\ \A i \in 1..n : after[i] = Added(after[i - 1], e[i], f)
  <2>1. \A s : IsLoop(s) => \A i \in 0..n : s[i] = IF i = 0 THEN rows ELSE Added(s[i - 1], e[i], f)
    OBVIOUS
  <2> HIDE DEF IsLoop, after
  <2>2. \A i \in 0..n : after[i] = IF i = 0 THEN rows ELSE Added(after[i - 1], e[i], f)
    BY <1>4, <2>1
  <2>3. 0 \in 0..n /\ \A i \in 1..n : i \in 0..n /\ i # 0
    BY <1>1
  <2> QED
    BY <2>2, <2>3
<1> HIDE DEF after, IsLoop, G
<1>6. 0 \in X
  BY <1>1, <1>5 DEF G
<1>7. ASSUME NEW i \in Nat, i \in X PROVE i + 1 \in X
  <2> SUFFICES ASSUME i + 1 <= n PROVE Good(i + 1)
    OBVIOUS
  <2> DEFINE new == after[i + 1]
  <2>1. Good(i) /\ i + 1 \in 1..n /\ (i + 1) - 1 = i
    BY <1>1, <1>7
  <2>2. new = Added(after[i], e[i + 1], f) /\ e[i + 1] \in Urls
    BY <1>1, <1>5, <2>1
  <2>3. /\ new \in Seq(Entry)
        /\ UrlsOf(after[i]) \subseteq UrlsOf(new)
        /\ Unique(after[i]) => Unique(new)
        /\ Covered(new, e[i + 1])
    <3> HIDE DEF new
    <3> QED BY <2>1, <2>2, AddedKeeps DEF G
  <2>4. ASSUME NEW k \in 1..(i + 1) PROVE Covered(new, e[k])
    <3>1. CASE k = i + 1
      BY <2>3, <3>1
    <3>2. CASE k # i + 1
      <4>1. k \in 1..i
        BY <3>2
      <4>2. Covered(after[i], e[k])
        BY <2>1, <4>1
      <4> HIDE DEF new
      <4> QED
        BY <2>3, <4>2 DEF Covered
    <3> QED
      BY <3>1, <3>2
  <2> HIDE DEF new
  <2>5. new \in G /\ UrlsOf(rows) \subseteq UrlsOf(new) /\ (Unique(rows) => Unique(new))
    BY <2>1, <2>3 DEF G
  <2> QED
    BY <2>4, <2>5 DEF new
<1>8. Good(n)
  <2>1. \A i \in Nat : i \in X
    <3> HIDE DEF X
    <3> QED BY <1>6, <1>7, AllNaturals
  <2> QED
    BY <1>1, <2>1
<1>9. AllAdded(rows, f, n) = after[n]
  BY DEF AllAdded, after, IsLoop, e
<1> QED
  BY <1>8, <1>9 DEF e, G

-----------------------------------------------------------------------------
(* The invariant of a cycle.                                               *)

\* What the validators of a feed promise, in the tables or in a transaction.
Promised(t) == \A f \in Feeds :
  /\ t.seen[f] <= version[f]
  /\ t.seen[f] = version[f] /\ f \notin t.cut => \A u \in listed[f] : Covered(t.articles, u)

Stores(t) == /\ t \in Tables /\ Unique(t.articles) /\ t.full \subseteq UrlsOf(t.articles)

IInv == /\ listed \in [Feeds -> SUBSET Urls] /\ version \in [Feeds -> 1..MaxVersion]
        /\ pc \in {"poll", "pages"}
        /\ pc = "poll" => todo \subseteq Feeds
        /\ pc = "pages" => todo \subseteq UrlsOf(db.articles)
        /\ Stores(db) /\ Promised(db)
        /\ Stores(draft) /\ Promised(draft)
        /\ UrlsOf(db.articles) \subseteq UrlsOf(draft.articles)

\* An article that is stored is one of the articles.
LEMMA UrlsAreUrls ==
  ASSUME NEW rows \in Seq(Entry)
  PROVE  UrlsOf(rows) \subseteq Urls
<1>1. \A i \in DOMAIN rows : rows[i] \in Entry
  OBVIOUS
<1> QED
  BY <1>1 DEF UrlsOf, Entry

LEMMA InvImpliesTypeOK == IInv => TypeOK
<1> SUFFICES ASSUME IInv PROVE TypeOK
  OBVIOUS
<1>1. db \in Tables /\ draft \in Tables
  BY DEF IInv, Stores
<1>2. UrlsOf(db.articles) \subseteq Urls
  <2>1. db.articles \in Seq(Entry)
    BY <1>1 DEF Tables, Entry
  <2> QED
    BY <2>1, UrlsAreUrls
<1>3. todo \subseteq (IF pc = "poll" THEN Feeds ELSE Urls)
  BY <1>2 DEF IInv
<1>4. \A t \in {db, draft} : Stores(t)
  BY DEF IInv
<1>5. ASSUME NEW t, Stores(t)
      PROVE  /\ t.articles \in Seq([url : Urls, feed : Feeds])
             /\ \A i, j \in DOMAIN t.articles : t.articles[i].url = t.articles[j].url => i = j
             /\ t.seen \in [Feeds -> 0..MaxVersion] /\ t.cut \subseteq Feeds
             /\ t.full \subseteq UrlsOf(t.articles)
  BY <1>5 DEF Stores, Tables, Unique
<1> QED
  BY <1>3, <1>4, <1>5 DEF IInv, TypeOK

LEMMA InvImpliesNothingHidden == IInv => NothingHidden
  BY DEF IInv, Promised, Covered, NothingHidden

LEMMA InitInv == Init => IInv
<1> SUFFICES ASSUME Init PROVE IInv
  OBVIOUS
<1>1. 1 \in 1..MaxVersion /\ 0 \in 0..MaxVersion
  BY ArticlesAssumption
<1>2. db.articles = <<>> /\ db.full = {} /\ db \in Tables
  <2>1. db = [articles |-> <<>>, seen |-> [f \in Feeds |-> 0], cut |-> {}, full |-> {}]
    BY DEF Init
  <2> QED
    BY <1>1, <2>1 DEF Tables
<1>3. Stores(db)
  BY <1>2 DEF Stores, Unique
<1>4. Promised(db)
  BY DEF Init, Promised
<1> QED
  BY <1>1, <1>3, <1>4 DEF Init, IInv

\* A feed that changes is not the one its validators name.
LEMMA ChangeKeeps ==
  ASSUME IInv, NEW f \in Feeds, NEW urls \in SUBSET Urls, Change(f, urls)
  PROVE  IInv'
<1>1. /\ listed' \in [Feeds -> SUBSET Urls] /\ version' \in [Feeds -> 1..MaxVersion]
      /\ listed' = [listed EXCEPT ![f] = urls]
      /\ version' = [version EXCEPT ![f] = version[f] + 1]
      /\ UNCHANGED <<db, draft, pc, todo>>
  BY ArticlesAssumption DEF Change, IInv
<1>2. ASSUME NEW t \in Tables, Promised(t), NEW g \in Feeds
      PROVE  /\ t.seen[g] <= version'[g]
             /\ t.seen[g] = version'[g] /\ g \notin t.cut => \A u \in listed'[g] : Covered(t.articles, u)
  <2>1. t.seen[g] \in Nat /\ version[g] \in Nat
    BY ArticlesAssumption DEF Tables, IInv
  <2>2. CASE g = f
    BY <1>1, <1>2, <2>1, <2>2 DEF Promised, IInv
  <2>3. CASE g # f
    BY <1>1, <1>2, <2>3 DEF Promised, IInv
  <2> QED
    BY <2>2, <2>3
<1>3. Promised(db)'
  BY <1>1, <1>2 DEF IInv, Stores, Promised, Covered
<1>4. Promised(draft)'
  BY <1>1, <1>2 DEF IInv, Stores, Promised, Covered
<1> QED
  BY <1>1, <1>3, <1>4 DEF IInv, Stores

\* A step of the poll leaves what is committed alone.
LEMMA PolledKeeps ==
  ASSUME IInv, NEW f \in Feeds, Polled(f), Stores(draft'), Promised(draft'),
         UrlsOf(draft.articles) \subseteq UrlsOf(draft'.articles)
  PROVE  IInv'
<1>1. UNCHANGED <<listed, version, db, pc>> /\ pc = "poll" /\ todo' \subseteq Feeds
  BY DEF Polled, IInv
<1>2. Promised(draft)' /\ Stores(draft)' /\ Promised(db)' /\ Stores(db)'
  BY <1>1 DEF IInv, Promised, Stores
<1>3. UrlsOf(db.articles)' \subseteq UrlsOf(draft.articles)'
  BY <1>1 DEF IInv
<1> QED
  BY <1>1, <1>2, <1>3 DEF IInv

\* A transaction that has read n entries of a feed.
LEMMA ReadKeeps ==
  ASSUME IInv, NEW f \in Feeds, NEW n \in 0..Len(Entries(f))
  PROVE  LET more == AllAdded(draft.articles, f, n)
         IN  /\ more \in Seq(Entry) /\ Unique(more)
             /\ UrlsOf(draft.articles) \subseteq UrlsOf(more)
             /\ n = Len(Entries(f)) => \A u \in listed[f] : Covered(more, u)
<1>1. PICK rows : rows = draft.articles
  OBVIOUS
<1>2. rows \in Seq(Entry) /\ Unique(rows) /\ ListsUrls(f)
  BY <1>1 DEF IInv, Stores, Tables, Entry, ListsUrls
<1> DEFINE more == AllAdded(rows, f, n)
<1>3. /\ more \in Seq(Entry) /\ UrlsOf(rows) \subseteq UrlsOf(more) /\ Unique(more)
      /\ \A i \in 1..n : Covered(more, Entries(f)[i])
  BY <1>2, AllAddedKeeps
<1>4. ASSUME n = Len(Entries(f)), NEW u \in listed[f] PROVE Covered(more, u)
  <2>1. PICK i \in 1..Len(Entries(f)) : Entries(f)[i] = u
    BY <1>2, EntriesAreListed
  <2> HIDE DEF more
  <2> QED
    BY <1>3, <1>4, <2>1
<1> HIDE DEF more
<1>5. more = AllAdded(draft.articles, f, n)
  BY <1>1 DEF more
<1> QED
  BY <1>1, <1>3, <1>4, <1>5

LEMMA NotModifiedKeeps == ASSUME IInv, NEW f \in Feeds, NotModified(f) PROVE IInv'
<1>1. draft' = draft /\ Polled(f)
  BY DEF NotModified
<1>2. Stores(draft') /\ Promised(draft')
  BY <1>1 DEF IInv
<1> QED
  BY <1>1, <1>2, PolledKeeps

LEMMA TakeKeeps == ASSUME IInv, NEW f \in Feeds, Take(f) PROVE IInv'
<1>1. PICK n \in 0..Len(Entries(f)) :
        /\ Polled(f)
        /\ draft' = [draft EXCEPT !.articles = AllAdded(draft.articles, f, n),
                                  !.seen[f] = version[f],
                                  !.cut = IF n < Len(Entries(f)) THEN draft.cut \cup {f} ELSE draft.cut \ {f}]
  BY DEF Take
<1>2. PICK more : more = AllAdded(draft.articles, f, n)
  OBVIOUS
<1>3. /\ more \in Seq(Entry) /\ Unique(more) /\ UrlsOf(draft.articles) \subseteq UrlsOf(more)
      /\ n = Len(Entries(f)) => \A u \in listed[f] : Covered(more, u)
  BY <1>2, ReadKeeps
<1>4. PICK cut : cut = IF n < Len(Entries(f)) THEN draft.cut \cup {f} ELSE draft.cut \ {f}
  OBVIOUS
<1>5. draft \in Tables /\ version[f] \in 0..MaxVersion /\ version[f] \in Nat
  BY ArticlesAssumption DEF IInv, Stores
<1>6. draft' = [articles |-> more, seen |-> [draft.seen EXCEPT ![f] = version[f]],
                cut |-> cut, full |-> draft.full]
  BY <1>1, <1>2, <1>4, <1>5 DEF Tables
<1>7. Stores(draft')
  <2>1. draft.full \subseteq UrlsOf(more)
    BY <1>3 DEF IInv, Stores
  <2>2. cut \subseteq Feeds
    BY <1>4, <1>5 DEF Tables
  <2>3. draft' \in Tables
    BY <1>3, <1>5, <1>6, <2>2 DEF Tables, Entry
  <2> QED
    BY <1>3, <1>6, <2>1, <2>3 DEF Stores
<1>8. ASSUME NEW g \in Feeds
      PROVE  /\ draft'.seen[g] <= version[g]
             /\ draft'.seen[g] = version[g] /\ g \notin cut => \A u \in listed[g] : Covered(more, u)
  <2>1. CASE g = f
    <3>1. draft'.seen[g] = version[g]
      BY <1>5, <1>6, <2>1 DEF Tables
    <3>2. g \notin cut => n = Len(Entries(f))
      <4>1. ListsUrls(f)
        BY DEF IInv, ListsUrls
      <4>2. Len(Entries(f)) \in Nat
        BY <4>1, EntriesAreListed
      <4> QED
        BY <1>4, <2>1, <4>2
    <3> QED
      BY <1>3, <1>5, <2>1, <3>1, <3>2
  <2>2. CASE g # f
    <3>1. draft'.seen[g] = draft.seen[g] /\ (g \notin cut => g \notin draft.cut)
      BY <1>4, <1>5, <1>6, <2>2 DEF Tables
    <3>2. \A u : Covered(draft.articles, u) => Covered(more, u)
      BY <1>3 DEF Covered
    <3> QED
      BY <3>1, <3>2 DEF IInv, Promised
  <2> QED
    BY <2>1, <2>2
<1>9. Promised(draft')
  <2>1. draft'.articles = more /\ draft'.cut = cut
    BY <1>6
  <2> QED
    BY <1>8, <2>1 DEF Promised
<1>10. UrlsOf(draft.articles) \subseteq UrlsOf(draft'.articles)
  BY <1>3, <1>6
<1> QED
  BY <1>1, <1>7, <1>9, <1>10, PolledKeeps

LEMMA FeedFailsKeeps == ASSUME IInv, NEW f \in Feeds, FeedFails(f) PROVE IInv'
<1>1. PICK n \in 0..Len(Entries(f)) :
        Polled(f) /\ draft' = [draft EXCEPT !.articles = AllAdded(draft.articles, f, n)]
  BY DEF FeedFails
<1>2. PICK more : more = AllAdded(draft.articles, f, n)
  OBVIOUS
<1>3. more \in Seq(Entry) /\ Unique(more) /\ UrlsOf(draft.articles) \subseteq UrlsOf(more)
  BY <1>2, ReadKeeps
<1>4. draft \in Tables
  BY DEF IInv, Stores
<1>5. draft' = [articles |-> more, seen |-> draft.seen, cut |-> draft.cut, full |-> draft.full]
  BY <1>1, <1>2, <1>4 DEF Tables
<1>6. Stores(draft')
  <2>1. draft.full \subseteq UrlsOf(more)
    BY <1>3 DEF IInv, Stores
  <2>2. draft' \in Tables
    BY <1>3, <1>4, <1>5 DEF Tables, Entry
  <2> QED
    BY <1>3, <1>5, <2>1, <2>2 DEF Stores
<1>7. Promised(draft')
  <2>1. \A u : Covered(draft.articles, u) => Covered(more, u)
    BY <1>3 DEF Covered
  <2> QED
    BY <1>5, <2>1 DEF IInv, Promised
<1> QED
  BY <1>1, <1>3, <1>5, <1>6, <1>7, PolledKeeps

-----------------------------------------------------------------------------
(* Full texts and commits.                                                 *)

\* What is committed once the feeds are polled, or the pages are.
LEMMA CommitKeeps ==
  ASSUME IInv, NEW full \in SUBSET UrlsOf(draft.articles),
         db' = [draft EXCEPT !.full = full], draft' = db', UNCHANGED <<listed, version>>
  PROVE  /\ Stores(db)' /\ Promised(db)' /\ Stores(draft)' /\ Promised(draft)'
         /\ UrlsOf(db.articles)' = UrlsOf(draft.articles)
         /\ UrlsOf(draft.articles)' = UrlsOf(draft.articles)
<1>1. draft \in Tables
  BY DEF IInv, Stores
<1>2. db' = [articles |-> draft.articles, seen |-> draft.seen, cut |-> draft.cut, full |-> full]
  BY <1>1 DEF Tables
<1>3. draft.articles \in Seq(Entry)
  BY <1>1 DEF Tables, Entry
<1>4. full \subseteq Urls
  BY <1>3, UrlsAreUrls
<1>5. db' \in Tables
  BY <1>1, <1>2, <1>4 DEF Tables
<1>6. Stores(db')
  BY <1>2, <1>5 DEF IInv, Stores
<1>7. Promised(db)'
  BY <1>2 DEF IInv, Promised
<1> QED
  BY <1>2, <1>6, <1>7 DEF Stores, Promised

LEMMA EndPollKeeps == ASSUME IInv, EndPoll PROVE IInv'
<1>1. db.full \subseteq UrlsOf(draft.articles)
  BY DEF IInv, Stores
<1>2. PICK full : full = db.full
  OBVIOUS
<1>3. /\ Stores(db)' /\ Promised(db)' /\ Stores(draft)' /\ Promised(draft)'
      /\ UrlsOf(db.articles)' = UrlsOf(draft.articles)
      /\ UrlsOf(draft.articles)' = UrlsOf(draft.articles)
  BY <1>1, <1>2, CommitKeeps DEF EndPoll
<1>4. todo' \subseteq UrlsOf(db.articles)'
  <2>1. todo' = Batch'
    BY DEF EndPoll
  <2> QED
    BY <2>1 DEF Batch, Truncated, UrlsOf
<1> QED
  BY <1>3, <1>4 DEF EndPoll, IInv

LEMMA EndPagesKeeps == ASSUME IInv, EndPages PROVE IInv'
<1>1. draft.full \cup db.full \subseteq UrlsOf(draft.articles)
  BY DEF IInv, Stores
<1>2. PICK full : full = draft.full \cup db.full
  OBVIOUS
<1>3. /\ Stores(db)' /\ Promised(db)' /\ Stores(draft)' /\ Promised(draft)'
      /\ UrlsOf(db.articles)' = UrlsOf(draft.articles)
      /\ UrlsOf(draft.articles)' = UrlsOf(draft.articles)
  BY <1>1, <1>2, CommitKeeps DEF EndPages
<1> QED
  BY <1>3 DEF EndPages, IInv

LEMMA FetchPageKeeps == ASSUME IInv, NEW u \in Urls, FetchPage(u) PROVE IInv'
<1>1. draft \in Tables /\ u \in UrlsOf(draft.articles)
  BY DEF IInv, Stores, FetchPage
<1>2. PICK full : full = IF u \in Refused THEN draft.full ELSE draft.full \cup {u}
  OBVIOUS
<1>3. draft' = [articles |-> draft.articles, seen |-> draft.seen, cut |-> draft.cut, full |-> full]
  BY <1>1, <1>2 DEF Tables, FetchPage
<1>4. full \subseteq UrlsOf(draft.articles) /\ full \subseteq Urls
  BY <1>1, <1>2 DEF IInv, Stores, Tables
<1>5. Stores(draft')
  <2>1. draft' \in Tables
    BY <1>1, <1>3, <1>4 DEF Tables
  <2> QED
    BY <1>3, <1>4, <2>1 DEF Stores, IInv
<1>6. UNCHANGED <<listed, version, db, pc>> /\ todo' \subseteq todo /\ pc = "pages"
  BY DEF FetchPage
<1>7. Promised(draft)' /\ Promised(db)' /\ Stores(db)' /\ Stores(draft)'
  BY <1>3, <1>5, <1>6 DEF IInv, Promised, Stores
<1> QED
  BY <1>3, <1>6, <1>7 DEF IInv

LEMMA PageFailsKeeps == ASSUME IInv, NEW u \in Urls, PageFails(u) PROVE IInv'
  BY DEF IInv, Stores, Promised, PageFails

LEMMA SweepKeeps == ASSUME IInv, NEW u \in Urls, Sweep(u) PROVE IInv'
<1>1. db \in Tables /\ u \in UrlsOf(db.articles)
  BY DEF IInv, Stores, Sweep, Truncated, UrlsOf
<1>2. db' = [articles |-> db.articles, seen |-> db.seen, cut |-> db.cut, full |-> db.full \cup {u}]
  BY <1>1 DEF Tables, Sweep
<1>3. Stores(db')
  <2>1. db.full \cup {u} \subseteq UrlsOf(db.articles)
    BY <1>1 DEF IInv, Stores
  <2>2. db' \in Tables
    BY <1>1, <1>2 DEF Tables
  <2> QED
    BY <1>2, <2>1, <2>2 DEF Stores, IInv
<1>4. UNCHANGED <<listed, version, draft, pc, todo>>
  BY DEF Sweep
<1>5. Promised(draft)' /\ Promised(db)' /\ Stores(db)' /\ Stores(draft)'
  BY <1>2, <1>3, <1>4 DEF IInv, Promised, Stores
<1> QED
  BY <1>2, <1>4, <1>5 DEF IInv

LEMMA CrashKeeps == ASSUME IInv, Crash PROVE IInv'
  BY DEF IInv, Stores, Promised, Crash

LEMMA NextInv == IInv /\ [Next]_vars => IInv'
<1> SUFFICES ASSUME IInv, [Next]_vars PROVE IInv'
  OBVIOUS
<1>1. CASE \E f \in Feeds : NotModified(f) \/ Take(f) \/ FeedFails(f)
  BY <1>1, NotModifiedKeeps, TakeKeeps, FeedFailsKeeps
<1>2. CASE EndPoll \/ EndPages \/ Crash
  BY <1>2, EndPollKeeps, EndPagesKeeps, CrashKeeps
<1>3. CASE \E u \in Urls : FetchPage(u) \/ PageFails(u) \/ Sweep(u)
  BY <1>3, FetchPageKeeps, PageFailsKeeps, SweepKeeps
<1>4. CASE \E f \in Feeds : Post(f) \/ Drop(f)
  <2>1. PICK f \in Feeds : Post(f) \/ Drop(f)
    BY <1>4
  <2>2. listed[f] \in SUBSET Urls /\ Carries[f] \in SUBSET Urls
    BY ArticlesAssumption DEF IInv
  <2>3. PICK urls \in SUBSET Urls : Change(f, urls)
    BY <2>1, <2>2 DEF Post, Drop
  <2> QED
    BY <2>3, ChangeKeeps
<1>5. CASE UNCHANGED vars
  BY <1>5 DEF vars, IInv, Stores, Promised
<1> QED
  BY <1>1, <1>2, <1>3, <1>4, <1>5 DEF Next, Cycle, Failure

\* The types of the variables, and one row to an article, whatever the feeds
\* list and whatever fails (rss.py, fulltext.py).
THEOREM TypeCorrect == Spec => []TypeOK
<1>1. Spec => []IInv
  BY InitInv, NextInv, PTL DEF Spec
<1> QED
  BY <1>1, InvImpliesTypeOK, PTL

\* A feed that answers "not modified" hides nothing, whatever failed, was cut
\* short or was lost before (rss.py 83-84).
THEOREM NotModifiedHidesNothing == Spec => []NothingHidden
<1>1. Spec => []IInv
  BY InitInv, NextInv, PTL DEF Spec
<1> QED
  BY <1>1, InvImpliesNothingHidden, PTL

-----------------------------------------------------------------------------
(* Campaigns: the roots of a forest.                                       *)

\* Parents that never point forward, which is how a union writes them.
Forests(n) == {p \in [1..n -> 1..n] : \A k \in 1..n : p[k] <= k}

\* A root can be found from every article.
LEMMA RootsExist ==
  ASSUME NEW n \in Nat, NEW p \in Forests(n)
  PROVE  \E g : g = [i \in 1..n |-> IF p[i] = i THEN i ELSE g[p[i]]]
<1> DEFINE Rooted(m) == \E g \in [1..m -> 1..n] : \A k \in 1..m : g[k] = IF p[k] = k THEN k ELSE g[p[k]]
           X == {m \in Nat : m <= n => Rooted(m)}
<1>1. 0 \in X
  <2> DEFINE g == [k \in 1..0 |-> k]
  <2>1. g \in [1..0 -> 1..n] /\ \A k \in 1..0 : g[k] = IF p[k] = k THEN k ELSE g[p[k]]
    OBVIOUS
  <2> HIDE DEF g
  <2>2. Rooted(0)
    BY <2>1
  <2> QED
    BY <2>2
<1>2. ASSUME NEW m \in Nat, m \in X PROVE m + 1 \in X
  <2> SUFFICES ASSUME m + 1 <= n PROVE Rooted(m + 1)
    OBVIOUS
  <2>1. PICK g \in [1..m -> 1..n] : \A k \in 1..m : g[k] = IF p[k] = k THEN k ELSE g[p[k]]
    BY <1>2
  <2>2. \A k \in 1..(m + 1) : k \in 1..n /\ p[k] \in 1..n /\ (p[k] # k => p[k] \in 1..m)
    BY DEF Forests
  <2> DEFINE h == [k \in 1..(m + 1) |->
                     IF k = m + 1 THEN IF p[k] = k THEN k ELSE g[p[k]] ELSE g[k]]
  <2>3. \A k \in 1..(m + 1) : k # m + 1 => k \in 1..m
    OBVIOUS
  <2>4. h \in [1..(m + 1) -> 1..n]
    BY <2>1, <2>2, <2>3
  <2>5. \A k \in 1..m : k \in 1..(m + 1) /\ h[k] = g[k]
    OBVIOUS
  <2>6. ASSUME NEW k \in 1..(m + 1) PROVE h[k] = IF p[k] = k THEN k ELSE h[p[k]]
    <3>1. CASE k = m + 1
      <4>1. h[k] = IF p[k] = k THEN k ELSE g[p[k]]
        BY <3>1
      <4> HIDE DEF h
      <4> QED
        BY <2>2, <2>5, <4>1
    <3>2. CASE k # m + 1
      <4> HIDE DEF h
      <4> QED
        BY <2>1, <2>2, <2>3, <2>5, <3>2
    <3> QED
      BY <3>1, <3>2
  <2> HIDE DEF h
  <2> QED
    BY <2>4, <2>6
<1>3. n \in X
  <2> HIDE DEF X
  <2> QED BY <1>1, <1>2, AllNaturals
<1>4. PICK g \in [1..n -> 1..n] : \A k \in 1..n : g[k] = IF p[k] = k THEN k ELSE g[p[k]]
  BY <1>3
<1>5. g = [k \in 1..n |-> IF p[k] = k THEN k ELSE g[p[k]]]
  BY <1>4
<1> QED
  BY <1>5

\* Find climbs: each article has a root, which comes no later than it does.
LEMMA FindRoots ==
  ASSUME NEW n \in Nat, NEW p \in Forests(n)
  PROVE  /\ Find(p) \in [1..n -> 1..n]
         /\ \A k \in 1..n : /\ Find(p)[k] <= k
                            /\ p[Find(p)[k]] = Find(p)[k]
                            /\ Find(p)[k] = IF p[k] = k THEN k ELSE Find(p)[p[k]]
<1> DEFINE IsFind(g) == g = [i \in DOMAIN p |-> IF p[i] = i THEN i ELSE g[p[i]]]
           root == CHOOSE g : IsFind(g)
<1>1. DOMAIN p = 1..n /\ \A k \in 1..n : p[k] \in 1..n /\ p[k] <= k
  BY DEF Forests
<1>2. \E g : IsFind(g)
  <2>1. PICK g : g = [i \in 1..n |-> IF p[i] = i THEN i ELSE g[p[i]]]
    BY RootsExist
  <2>2. IsFind(g)
    BY <1>1, <2>1
  <2> HIDE DEF IsFind
  <2> QED
    BY <2>2
<1>3. IsFind(root)
  <2> HIDE DEF IsFind
  <2> QED BY <1>2
<1>4. Find(p) = root
  BY DEF Find, root, IsFind
<1>5. DOMAIN root = 1..n /\ \A k \in 1..n : root[k] = IF p[k] = k THEN k ELSE root[p[k]]
  <2>1. \A g : IsFind(g) => DOMAIN g = 1..n /\ \A k \in 1..n : g[k] = IF p[k] = k THEN k ELSE g[p[k]]
    BY <1>1
  <2> HIDE DEF IsFind, root
  <2> QED
    BY <1>3, <2>1
<1>6. PICK r : r = root
  OBVIOUS
<1> HIDE DEF root
<1> DEFINE Good(k) == r[k] \in 1..n /\ r[k] <= k /\ p[r[k]] = r[k]
           Bad == {k \in 1..n : ~Good(k)}
<1>7. Bad = {}
  <2> SUFFICES ASSUME Bad # {} PROVE FALSE
    OBVIOUS
  <2>1. PICK k \in Bad : \A j \in Bad : k <= j
    <3>1. Bad \in SUBSET Nat
      OBVIOUS
    <3> HIDE DEF Bad
    <3> QED BY <3>1, Least
  <2>2. p[k] # k
    BY <1>1, <1>5, <1>6
  <2>3. p[k] \in 1..n /\ p[k] < k /\ r[k] = r[p[k]]
    BY <1>1, <1>5, <1>6, <2>2
  <2>4. Good(p[k])
    BY <2>1, <2>3
  <2>5. Good(k)
    BY <2>3, <2>4
  <2> QED
    BY <2>5
<1>8. \A k \in 1..n : Good(k)
  BY <1>7
<1>9. r \in [1..n -> 1..n]
  <2>1. r = [k \in 1..n |-> IF p[k] = k THEN k ELSE r[p[k]]]
    BY <1>1, <1>3, <1>6
  <2>2. \A k \in 1..n : (IF p[k] = k THEN k ELSE r[p[k]]) \in 1..n
    BY <1>1, <1>8
  <2> QED
    BY <2>1, <2>2
<1> QED
  BY <1>4, <1>5, <1>6, <1>8, <1>9

\* Two roots of a forest, and a forest in which the later has gone under the
\* earlier with its tree, and nothing else has moved.
TwoRoots(n, p, lo, hi) == /\ p \in Forests(n) /\ lo \in 1..n /\ hi \in 1..n
                          /\ lo < hi /\ p[lo] = lo /\ p[hi] = hi
Joined(n, p, lo, hi, q) ==
  q \in Forests(n) /\ \A k \in 1..n : Find(q)[k] = IF Find(p)[k] = hi THEN lo ELSE Find(p)[k]

\* Writing one root under an earlier one joins their trees.
LEMMA UnionJoins ==
  \A n \in Nat : \A p, lo, hi, q :
    TwoRoots(n, p, lo, hi) /\ q = [p EXCEPT ![hi] = lo] => Joined(n, p, lo, hi, q)
<1> SUFFICES ASSUME NEW n \in Nat, NEW p \in Forests(n), NEW lo \in 1..n, NEW hi \in 1..n,
                    lo < hi, p[lo] = lo, p[hi] = hi
             PROVE  \A q : q = [p EXCEPT ![hi] = lo] => Joined(n, p, lo, hi, q)
  BY DEF TwoRoots
<1>1. SUFFICES ASSUME NEW q, q = [p EXCEPT ![hi] = lo] PROVE Joined(n, p, lo, hi, q)
  OBVIOUS
<1>2. p \in [1..n -> 1..n] /\ \A k \in 1..n : p[k] <= k
  BY DEF Forests
<1>3. q \in Forests(n) /\ q[hi] = lo /\ \A k \in 1..n : k # hi => q[k] = p[k]
  <2>1. q \in [1..n -> 1..n]
    BY <1>1, <1>2
  <2>2. q[hi] = lo /\ \A k \in 1..n : k # hi => q[k] = p[k]
    BY <1>1, <1>2
  <2>3. \A k \in 1..n : q[k] <= k
    BY <1>2, <2>2
  <2> QED
    BY <2>1, <2>2, <2>3 DEF Forests
<1>4. PICK r, s : r = Find(p) /\ s = Find(q)
  OBVIOUS
<1>5. \A k \in 1..n : r[k] = IF p[k] = k THEN k ELSE r[p[k]]
  BY <1>4, FindRoots
<1>6. \A k \in 1..n : s[k] = IF q[k] = k THEN k ELSE s[q[k]]
  BY <1>3, <1>4, FindRoots
<1> DEFINE Good(k) == s[k] = IF r[k] = hi THEN lo ELSE r[k]
           Bad == {k \in 1..n : ~Good(k)}
<1>7. Bad = {}
  <2> SUFFICES ASSUME Bad # {} PROVE FALSE
    OBVIOUS
  <2>1. PICK k \in Bad : \A j \in Bad : k <= j
    <3>1. Bad \in SUBSET Nat
      OBVIOUS
    <3> HIDE DEF Bad
    <3> QED BY <3>1, Least
  <2>2. CASE k = hi
    <3>1. s[hi] = s[lo] /\ s[lo] = lo /\ r[hi] = hi
      BY <1>3, <1>5, <1>6
    <3> QED
      BY <2>2, <3>1
  <2>3. CASE k # hi
    <3>1. q[k] = p[k] /\ p[k] # k
      BY <1>3, <1>5, <1>6, <2>3
    <3>2. p[k] \in 1..n /\ p[k] < k
      BY <1>2, <3>1
    <3>3. Good(p[k])
      BY <2>1, <3>2
    <3>4. r[k] = r[p[k]] /\ s[k] = s[p[k]]
      BY <1>5, <1>6, <3>1
    <3> QED
      BY <3>3, <3>4
  <2> QED
    BY <2>2, <2>3
<1>8. \A k \in 1..n : Good(k)
  BY <1>7
<1> QED
  BY <1>3, <1>4, <1>8 DEF Joined

-----------------------------------------------------------------------------
(* Campaigns: what the unions join.                                        *)

\* Links and the chains of them, among n articles.
Respects(S, L) == \A p \in L : p[1] \in S <=> p[2] \in S
Chained(i, j, n, L) == \A S \in SUBSET (1..n) : Respects(S, L) /\ i \in S => j \in S
LinkSets(n) == SUBSET ((1..n) \X (1..n))

LEMMA ChainedEquivalence ==
  ASSUME NEW n \in Nat, NEW L \in LinkSets(n)
  PROVE  /\ \A i \in 1..n : Chained(i, i, n, L)
         /\ \A i, j \in 1..n : Chained(i, j, n, L) => Chained(j, i, n, L)
         /\ \A i, j, k \in 1..n : Chained(i, j, n, L) /\ Chained(j, k, n, L) => Chained(i, k, n, L)
         /\ \A p \in L : p[1] \in 1..n /\ p[2] \in 1..n /\ Chained(p[1], p[2], n, L)
<1>1. \A i \in 1..n : Chained(i, i, n, L)
  BY DEF Chained
<1>2. ASSUME NEW i \in 1..n, NEW j \in 1..n, Chained(i, j, n, L) PROVE Chained(j, i, n, L)
  <2> SUFFICES ASSUME NEW S \in SUBSET (1..n), Respects(S, L), j \in S, i \notin S PROVE FALSE
    BY DEF Chained
  <2> DEFINE T == (1..n) \ S
  <2>1. \A p \in L : p[1] \in 1..n /\ p[2] \in 1..n
    BY DEF LinkSets
  <2>2. Respects(T, L)
    BY <2>1 DEF Respects
  <2>3. T \in SUBSET (1..n) /\ i \in T /\ j \notin T
    OBVIOUS
  <2> HIDE DEF T
  <2> QED
    BY <1>2, <2>2, <2>3 DEF Chained
<1>3. ASSUME NEW i \in 1..n, NEW j \in 1..n, NEW k \in 1..n, Chained(i, j, n, L), Chained(j, k, n, L)
      PROVE  Chained(i, k, n, L)
  BY <1>3 DEF Chained
<1>4. \A p \in L : p[1] \in 1..n /\ p[2] \in 1..n /\ Chained(p[1], p[2], n, L)
  BY DEF LinkSets, Chained, Respects
<1> QED
  BY <1>1, <1>2, <1>3, <1>4

\* A union joins no more than its pair, and no less, and parts nothing.
LEMMA UnionLinks ==
  ASSUME NEW n \in Nat, NEW L \in LinkSets(n), NEW p \in (1..n) \X (1..n),
         p \in L <=> ~SameSeries(p[1], p[2]),
         NEW f \in Forests(n), \A k \in 1..n : Chained(k, Find(f)[k], n, L)
  PROVE  LET q == Union(p, f)
         IN  /\ q \in Forests(n)
             /\ \A k \in 1..n : Chained(k, Find(q)[k], n, L)
             /\ \A i, j \in 1..n : Find(f)[i] = Find(f)[j] => Find(q)[i] = Find(q)[j]
             /\ p \in L => Find(q)[p[1]] = Find(q)[p[2]]
<1>0. PICK r, ri, rj : r = Find(f) /\ ri = r[p[1]] /\ rj = r[p[2]]
  OBVIOUS
<1>1. p[1] \in 1..n /\ p[2] \in 1..n
  OBVIOUS
<1>2. CASE SameSeries(p[1], p[2]) \/ ri = rj
  <2>1. Union(p, f) = f
    BY <1>0, <1>2 DEF Union
  <2>2. p \in L => ri = rj
    BY <1>2
  <2> QED
    BY <1>0, <2>1, <2>2
<1>3. CASE ~(SameSeries(p[1], p[2]) \/ ri = rj)
  <2>2. r \in [1..n -> 1..n] /\ \A k \in 1..n : f[r[k]] = r[k]
    BY <1>0, FindRoots
  <2>1. PICK hi, lo : hi = (IF ri > rj THEN ri ELSE rj) /\ lo = (IF ri > rj THEN rj ELSE ri)
    OBVIOUS
  <2>3. /\ hi \in 1..n /\ lo \in 1..n /\ lo < hi
        /\ (hi = ri /\ lo = rj) \/ (hi = rj /\ lo = ri)
        /\ Union(p, f) = [f EXCEPT ![hi] = lo]
    <3>1. ri \in 1..n /\ rj \in 1..n /\ ri # rj
      BY <1>0, <1>1, <1>3, <2>2
    <3>2. Union(p, f) = [f EXCEPT ![IF ri > rj THEN ri ELSE rj] = IF ri > rj THEN rj ELSE ri]
      BY <1>0, <1>3 DEF Union
    <3>3. Union(p, f) = [f EXCEPT ![hi] = lo]
      BY <2>1, <3>2
    <3>4. ri \in Int /\ rj \in Int
      BY <3>1
    <3>5. CASE ri > rj
      <4>1. hi = ri /\ lo = rj
        BY <2>1, <3>5
      <4>2. hi \in 1..n /\ lo \in 1..n
        BY <3>1, <4>1
      <4>3. lo < hi
        BY <3>1, <3>4, <3>5, <4>1
      <4> QED
        BY <3>3, <4>1, <4>2, <4>3
    <3>6. CASE ~(ri > rj)
      <4>1. hi = rj /\ lo = ri
        BY <2>1, <3>6
      <4>2. hi \in 1..n /\ lo \in 1..n
        BY <3>1, <4>1
      <4>3. lo < hi
        BY <3>1, <3>4, <3>6, <4>1
      <4> QED
        BY <3>3, <4>1, <4>2, <4>3
    <3> QED
      BY <3>5, <3>6
  <2>4. f[lo] = lo /\ f[hi] = hi
    BY <1>0, <1>1, <2>2, <2>3
  <2>5. PICK q, s : q = [f EXCEPT ![hi] = lo] /\ s = Find(q)
    OBVIOUS
  <2>6. q \in Forests(n) /\ \A k \in 1..n : s[k] = IF r[k] = hi THEN lo ELSE r[k]
    <3>1. TwoRoots(n, f, lo, hi)
      BY <2>3, <2>4 DEF TwoRoots
    <3>2. Joined(n, f, lo, hi, q)
      BY <2>5, <3>1, UnionJoins, Zenon
    <3> QED
      BY <1>0, <2>5, <3>2 DEF Joined
  <2>7. Chained(hi, lo, n, L)
    <3>1. p \in L
      BY <1>3
    <3>2. Chained(p[1], ri, n, L) /\ Chained(p[2], rj, n, L) /\ Chained(p[1], p[2], n, L)
      BY <1>0, <1>1, <3>1, ChainedEquivalence
    <3>3. ri \in 1..n /\ rj \in 1..n
      BY <1>0, <1>1, <2>2
    <3>4. Chained(ri, rj, n, L) /\ Chained(rj, ri, n, L)
      <4>1. Chained(ri, p[1], n, L) /\ Chained(rj, p[2], n, L) /\ Chained(p[2], p[1], n, L)
        BY <1>1, <3>2, <3>3, ChainedEquivalence
      <4>2. Chained(ri, p[2], n, L) /\ Chained(rj, p[1], n, L)
        BY <1>1, <3>2, <3>3, <4>1, ChainedEquivalence
      <4> QED
        BY <1>1, <3>2, <3>3, <4>2, ChainedEquivalence
    <3> QED
      BY <2>3, <3>4
  <2>8. ASSUME NEW k \in 1..n PROVE Chained(k, s[k], n, L)
    <3>1. Chained(k, r[k], n, L) /\ r[k] \in 1..n
      BY <1>0, <2>2
    <3>2. CASE r[k] = hi
      <4>1. Chained(k, lo, n, L)
        BY <2>3, <2>7, <3>1, <3>2, ChainedEquivalence
      <4> QED
        BY <2>6, <3>2, <4>1
    <3>3. CASE r[k] # hi
      BY <2>6, <3>1, <3>3
    <3> QED
      BY <3>2, <3>3
  <2>9. \A i, j \in 1..n : r[i] = r[j] => s[i] = s[j]
    BY <2>6
  <2>10. s[p[1]] = s[p[2]]
    <3>1. (r[p[1]] = hi /\ r[p[2]] = lo) \/ (r[p[1]] = lo /\ r[p[2]] = hi)
      BY <1>0, <2>3
    <3> QED
      BY <1>1, <2>3, <2>6, <3>1
  <2>11. Union(p, f) = q /\ Find(q) = s
    BY <2>3, <2>5
  <2> QED
    BY <1>0, <2>6, <2>8, <2>9, <2>10, <2>11
<1> QED
  BY <1>2, <1>3

\* Forests whose roots are linked to what is under them.
Sound(n, L) == {f \in Forests(n) : \A k \in 1..n : Chained(k, Find(f)[k], n, L)}

\* The pairs that are compared, in any order, and the links among them.
LEMMA PairsAndLinks ==
  ASSUME NEW n \in Nat, DOMAIN db.articles = 1..n, NEW order \in Orders
  PROVE  /\ Links \in LinkSets(n) /\ Links \subseteq Pairings
         /\ \A p \in Pairings : /\ p \in (1..n) \X (1..n)
                                /\ p \in Links <=> ~SameSeries(p[1], p[2])
         /\ Len(order) \in Nat /\ order \in [1..Len(order) -> Pairings]
         /\ \A p \in Pairings : \E i \in 1..Len(order) : order[i] = p
<1>1. Pairings \subseteq (1..n) \X (1..n)
  BY DEF Pairings
<1>2. IsFiniteSet(Pairings) /\ Cardinality(Pairings) \in Nat
  <2>1. IsFiniteSet(1..n)
    BY FS_Interval
  <2>2. IsFiniteSet((1..n) \X (1..n))
    BY <2>1, FS_Product
  <2> QED
    BY <1>1, <2>2, FS_Subset, FS_CardinalityType
<1>3. PICK size \in Nat : size = Cardinality(Pairings)
  BY <1>2
<1>4. order \in [1..size -> Pairings] /\ \A p \in Pairings : \E i \in DOMAIN order : order[i] = p
  BY <1>3 DEF Orders
<1>5. Len(order) = size
  BY <1>4
<1>6. Links \in LinkSets(n) /\ Links \subseteq Pairings
  BY <1>1 DEF Links, LinkSets
<1>7. \A p \in Pairings : p \in Links <=> ~SameSeries(p[1], p[2])
  BY DEF Links
<1> QED
  BY <1>1, <1>4, <1>5, <1>6, <1>7

\* Every article alone is a sound forest.
LEMMA AloneIsSound ==
  ASSUME NEW n \in Nat, NEW L \in LinkSets(n)
  PROVE  [k \in 1..n |-> k] \in Sound(n, L)
<1>1. PICK f : f = [k \in 1..n |-> k]
  OBVIOUS
<1>2. f \in Forests(n)
  BY <1>1 DEF Forests
<1>3. \A k \in 1..n : Find(f)[k] = k
  <2>1. \A k \in 1..n : f[k] = k
    BY <1>1
  <2> QED
    BY <1>2, <2>1, FindRoots
<1>4. \A k \in 1..n : Chained(k, k, n, L)
  BY ChainedEquivalence
<1> QED
  BY <1>1, <1>2, <1>3, <1>4 DEF Sound

\* The comparisons, one after another: each result is sound, and no link that
\* has been compared crosses two trees.
LEMMA ParentsLink ==
  ASSUME NEW n \in Nat, DOMAIN db.articles = 1..n, NEW order \in Orders
  PROVE  /\ Parents(order) \in Sound(n, Links)
         /\ \A p \in Links : Find(Parents(order))[p[1]] = Find(Parents(order))[p[2]]
<1>1. PICK P, L, size : P = Pairings /\ L = Links /\ size = Len(order)
  OBVIOUS
<1>2. /\ L \in LinkSets(n) /\ L \subseteq P
      /\ \A p \in P : p \in (1..n) \X (1..n) /\ (p \in L <=> ~SameSeries(p[1], p[2]))
      /\ size \in Nat /\ order \in [1..size -> P]
      /\ \A p \in P : \E i \in 1..size : order[i] = p
  BY <1>1, PairsAndLinks
<1> DEFINE G == Sound(n, L)
           alone == [k \in 1..n |-> k]
           step == [i \in 1..size |-> [f \in G |-> Union(order[i], f)]]
           IsLoop(s) == s = [i \in 0..size |-> IF i = 0 THEN alone ELSE Union(order[i], s[i - 1])]
           after == CHOOSE s : IsLoop(s)
           Good(i) == /\ after[i] \in G
                      /\ \A k \in 1..i : order[k] \in L =>
                           Find(after[i])[order[k][1]] = Find(after[i])[order[k][2]]
           X == {i \in Nat : i <= size => Good(i)}
<1>3. ASSUME NEW p \in P, NEW f \in G
      PROVE  /\ Union(p, f) \in G
             /\ \A i, j \in 1..n : Find(f)[i] = Find(f)[j] => Find(Union(p, f))[i] = Find(Union(p, f))[j]
             /\ p \in L => Find(Union(p, f))[p[1]] = Find(Union(p, f))[p[2]]
  <2>1. p \in (1..n) \X (1..n) /\ (p \in L <=> ~SameSeries(p[1], p[2]))
    BY <1>2
  <2>2. f \in Forests(n) /\ \A k \in 1..n : Chained(k, Find(f)[k], n, L)
    BY DEF Sound
  <2>3. LET q == Union(p, f)
        IN  /\ q \in Forests(n)
            /\ \A k \in 1..n : Chained(k, Find(q)[k], n, L)
            /\ \A i, j \in 1..n : Find(f)[i] = Find(f)[j] => Find(q)[i] = Find(q)[j]
            /\ p \in L => Find(q)[p[1]] = Find(q)[p[2]]
    BY <1>2, <2>1, <2>2, UnionLinks
  <2> QED
    BY <2>3 DEF Sound
<1> HIDE DEF G
<1>4. alone \in G
  BY <1>2, AloneIsSound DEF G
<1> HIDE DEF alone
<1>5. step \in Steps(G, size)
  <2>1. \A f \in G, i \in 1..size : Union(order[i], f) \in G
    BY <1>2, <1>3
  <2> QED
    BY <2>1 DEF Steps
<1>6. \E s : IsLoop(s)
  <2>1. PICK s : RunsLoop(s, G, alone, size, step)
    <3> HIDE DEF step
    <3>1. size \in Nat
      BY <1>2
    <3> QED BY <1>4, <1>5, <3>1, LoopsRun, Zenon
  <2>2. s \in [0..size -> G] /\ s[0] = alone /\ \A i \in 1..size : s[i] = step[i][s[i - 1]]
    <3> HIDE DEF step
    <3> QED BY <2>1 DEF RunsLoop
  <2>3. ASSUME NEW i \in 0..size, i # 0 PROVE s[i] = Union(order[i], s[i - 1])
    <3>1. i \in 1..size /\ i - 1 \in 0..size
      BY <1>2, <2>3
    <3>2. s[i - 1] \in G
      BY <2>2, <3>1
    <3> QED
      BY <2>2, <3>1, <3>2
  <2>4. IsLoop(s)
    BY <2>2, <2>3
  <2> HIDE DEF IsLoop
  <2> QED
    BY <2>4
<1>7. IsLoop(after)
  <2> HIDE DEF IsLoop
  <2> QED BY <1>6
<1>8. after[0] = alone /\ \A i \in 1..size : after[i] = Union(order[i], after[i - 1])
  <2>1. \A s : IsLoop(s) =>
          \A i \in 0..size : s[i] = IF i = 0 THEN alone ELSE Union(order[i], s[i - 1])
    OBVIOUS
  <2> HIDE DEF IsLoop, after
  <2>2. \A i \in 0..size : after[i] = IF i = 0 THEN alone ELSE Union(order[i], after[i - 1])
    BY <1>7, <2>1
  <2>3. 0 \in 0..size /\ \A i \in 1..size : i \in 0..size /\ i # 0
    BY <1>2
  <2> QED
    BY <2>2, <2>3
<1>9. Parents(order) = after[size]
  BY <1>1 DEF Parents, after, IsLoop, alone
<1>10. PICK run : run = after
  OBVIOUS
<1> HIDE DEF after, IsLoop
<1>11. 0 \in X
  BY <1>4, <1>8
<1>12. ASSUME NEW i \in Nat, i \in X PROVE i + 1 \in X
  <2> SUFFICES ASSUME i + 1 <= size PROVE Good(i + 1)
    OBVIOUS
  <2>1. Good(i) /\ i + 1 \in 1..size /\ (i + 1) - 1 = i
    BY <1>2, <1>12
  <2>2. PICK p, f, q : p = order[i + 1] /\ f = after[i] /\ q = after[i + 1]
    OBVIOUS
  <2>3. p \in P /\ f \in G /\ q = Union(p, f)
    BY <1>2, <1>8, <2>1, <2>2
  <2>4. /\ q \in G
        /\ \A a, b \in 1..n : Find(f)[a] = Find(f)[b] => Find(q)[a] = Find(q)[b]
        /\ p \in L => Find(q)[p[1]] = Find(q)[p[2]]
    BY <1>3, <2>3
  <2>5. ASSUME NEW k \in 1..(i + 1), order[k] \in L
        PROVE  Find(q)[order[k][1]] = Find(q)[order[k][2]]
    <3>1. CASE k = i + 1
      BY <2>2, <2>4, <2>5, <3>1
    <3>2. CASE k # i + 1
      <4>0. size \in Nat
        BY <1>2
      <4>1. k \in 1..i /\ k \in 1..size
        BY <3>2, <4>0
      <4>2. Find(f)[order[k][1]] = Find(f)[order[k][2]]
        BY <2>1, <2>2, <2>5, <4>1
      <4>3. order[k] \in (1..n) \X (1..n)
        BY <1>2, <4>1
      <4>4. order[k][1] \in 1..n /\ order[k][2] \in 1..n
        BY <4>3
      <4> QED
        BY <2>4, <4>2, <4>4
    <3> QED
      BY <3>1, <3>2
  <2> QED
    BY <2>2, <2>4, <2>5
<1>13. Good(size)
  <2>1. \A i \in Nat : i \in X
    <3> HIDE DEF X
    <3> QED BY <1>11, <1>12, AllNaturals
  <2> QED
    BY <1>2, <2>1
<1>14. ASSUME NEW p \in L PROVE Find(after[size])[p[1]] = Find(after[size])[p[2]]
  <2>1. PICK i \in 1..size : order[i] = p
    BY <1>2
  <2> QED
    BY <1>13, <2>1
<1> QED
  BY <1>1, <1>9, <1>13, <1>14 DEF G

\* Campaigns are numbered apart exactly when their roots are apart.
LEMMA LabelsTellRoots ==
  ASSUME NEW n \in Nat, NEW f \in Forests(n)
  PROVE  \A i, j \in 1..n : Labels(f)[i] = Labels(f)[j] <=> Find(f)[i] = Find(f)[j]
<1> DEFINE first(r) == CHOOSE i \in DOMAIN Find(f) : Find(f)[i] = r /\ \A j \in 1..i-1 : Find(f)[j] # r
<1>1. PICK root, c : root = Find(f) /\ c = [i \in 1..n |-> first(Find(f)[i])]
  OBVIOUS
<1>2. root \in [1..n -> 1..n]
  BY <1>1, FindRoots
<1>3. ASSUME NEW i \in 1..n PROVE c[i] \in 1..n /\ root[c[i]] = root[i]
  <2> DEFINE S == {j \in 1..n : root[j] = root[i]}
  <2>1. PICK m \in S : \A j \in S : m <= j
    <3>1. S \in SUBSET Nat /\ S # {}
      OBVIOUS
    <3> HIDE DEF S
    <3> QED BY <3>1, Least
  <2>2. m \in DOMAIN root /\ root[m] = root[i] /\ \A j \in 1..m-1 : root[j] # root[i]
    BY <1>2, <2>1
  <2>3. first(root[i]) \in DOMAIN root /\ root[first(root[i])] = root[i]
    BY <1>1, <2>2
  <2>4. c[i] = first(root[i])
    <3> HIDE DEF first
    <3> QED BY <1>1
  <2> HIDE DEF first
  <2> QED
    BY <1>2, <2>3, <2>4
<1>4. \A i, j \in 1..n : root[i] = root[j] => c[i] = c[j]
  <2> HIDE DEF first
  <2> QED BY <1>1
<1> DEFINE Before(i) == {root[j] : j \in {k \in 1..n : c[k] < c[i]}}
<1>5. \A i \in 1..n : Labels(f)[i] = Cardinality(Before(i))
  <2>1. Labels(f) = [i \in DOMAIN root |->
          Cardinality({root[j] : j \in {k \in DOMAIN root : first(root[k]) < first(root[i])}})]
    BY <1>1 DEF Labels
  <2>2. \A i \in 1..n : c[i] = first(root[i])
    <3> HIDE DEF first
    <3> QED BY <1>1
  <2>3. DOMAIN root = 1..n
    BY <1>2
  <2> HIDE DEF first
  <2>4. ASSUME NEW i \in 1..n
        PROVE  {k \in DOMAIN root : first(root[k]) < first(root[i])} = {k \in 1..n : c[k] < c[i]}
    BY <2>2, <2>3
  <2> QED
    BY <2>1, <2>3, <2>4
<1>6. ASSUME NEW i \in 1..n, NEW j \in 1..n, c[i] < c[j]
      PROVE  Cardinality(Before(i)) < Cardinality(Before(j))
  <2>1. Before(i) \subseteq Before(j)
    BY <1>3, <1>6
  <2>2. root[i] \in Before(j)
    BY <1>6
  <2>3. root[i] \notin Before(i)
    BY <1>3, <1>4
  <2>4. Before(j) \subseteq 1..n
    BY <1>2
  <2> HIDE DEF Before
  <2>5. IsFiniteSet(Before(j))
    BY <2>4, FS_Interval, FS_Subset
  <2> QED
    BY <2>1, <2>2, <2>3, <2>5, FS_Subset, FS_CardinalityType
<1>7. ASSUME NEW i \in 1..n, NEW j \in 1..n
      PROVE  Labels(f)[i] = Labels(f)[j] <=> root[i] = root[j]
  <2>1. CASE root[i] = root[j]
    <3>1. c[i] = c[j]
      BY <1>4, <2>1
    <3>2. Before(i) = Before(j)
      BY <3>1
    <3> HIDE DEF Before
    <3> QED
      BY <1>5, <2>1, <3>2
  <2>2. CASE root[i] # root[j]
    <3>1. c[i] # c[j] /\ c[i] \in Nat /\ c[j] \in Nat
      BY <1>3, <2>2
    <3>2. c[i] < c[j] \/ c[j] < c[i]
      BY <3>1
    <3>3. \A k \in 1..n : Cardinality(Before(k)) \in Nat
      <4>1. \A k \in 1..n : Before(k) \subseteq 1..n
        BY <1>2
      <4> HIDE DEF Before
      <4>2. IsFiniteSet(1..n)
        BY FS_Interval
      <4>3. \A k \in 1..n : IsFiniteSet(Before(k))
        BY <4>1, <4>2, FS_Subset
      <4> QED
        BY <4>3, FS_CardinalityType
    <3> HIDE DEF Before
    <3>4. Cardinality(Before(i)) # Cardinality(Before(j))
      BY <1>6, <3>2, <3>3
    <3> QED
      BY <1>5, <2>2, <3>4
  <2> QED
    BY <2>1, <2>2
<1> QED
  BY <1>1, <1>7

\* Whatever the order of the comparisons, two articles carry one number exactly
\* when a chain of links leads from one to the other.
LEMMA CampaignsAreLinked ==
  ASSUME NEW n \in Nat, DOMAIN db.articles = 1..n
  PROVE  CampaignsLinked
<1> SUFFICES ASSUME NEW order \in Orders, NEW i \in 1..n, NEW j \in 1..n
             PROVE  Labels(Parents(order))[i] = Labels(Parents(order))[j] <=> Linked(i, j)
  BY DEF CampaignsLinked
<1>1. PICK L, f : L = Links /\ f = Parents(order)
  OBVIOUS
<1>2. L \in LinkSets(n)
  BY <1>1, PairsAndLinks
<1>3. f \in Sound(n, L) /\ \A p \in L : Find(f)[p[1]] = Find(f)[p[2]]
  BY <1>1, ParentsLink
<1>4. f \in Forests(n) /\ \A k \in 1..n : Chained(k, Find(f)[k], n, L)
  BY <1>3 DEF Sound
<1>5. PICK root : root = Find(f)
  OBVIOUS
<1>6. root \in [1..n -> 1..n]
  BY <1>4, <1>5, FindRoots
<1>7. Chained(i, j, n, L) <=> Linked(i, j)
  BY <1>1 DEF Linked, Closed, Chained, Respects
<1>8. root[i] = root[j] => Chained(i, j, n, L)
  <2> SUFFICES ASSUME root[i] = root[j] PROVE Chained(i, j, n, L)
    OBVIOUS
  <2>1. Chained(i, root[i], n, L) /\ Chained(j, root[i], n, L) /\ root[i] \in 1..n
    BY <1>4, <1>5, <1>6
  <2>2. Chained(root[i], j, n, L)
    BY <1>2, <2>1, ChainedEquivalence
  <2> QED
    BY <1>2, <2>1, <2>2, ChainedEquivalence
<1>9. Chained(i, j, n, L) => root[i] = root[j]
  <2> DEFINE S == {k \in 1..n : root[k] = root[i]}
  <2>1. Respects(S, L)
    <3>1. \A p \in L : p[1] \in 1..n /\ p[2] \in 1..n /\ root[p[1]] = root[p[2]]
      BY <1>2, <1>3, <1>5 DEF LinkSets
    <3> QED
      BY <3>1 DEF Respects
  <2>2. S \in SUBSET (1..n) /\ i \in S
    OBVIOUS
  <2>3. Chained(i, j, n, L) => j \in S
    <3> HIDE DEF S
    <3> QED BY <2>1, <2>2 DEF Chained
  <2> QED
    BY <2>3
<1>10. Labels(f)[i] = Labels(f)[j] <=> root[i] = root[j]
  BY <1>4, <1>5, LabelsTellRoots
<1> QED
  BY <1>1, <1>7, <1>8, <1>9, <1>10

\* The campaigns of the page are the classes of linked articles, however the
\* pairs happen to be ordered (clustering.py 350-352).
THEOREM CampaignsCorrect == Spec => []CampaignsLinked
<1>1. Spec => []IInv
  BY InitInv, NextInv, PTL DEF Spec
<1>2. IInv => CampaignsLinked
  <2> SUFFICES ASSUME IInv PROVE CampaignsLinked
    OBVIOUS
  <2>1. PICK rows : rows = db.articles
    OBVIOUS
  <2>2. rows \in Seq(Entry)
    BY <2>1 DEF IInv, Stores, Tables, Entry
  <2>3. PICK n \in Nat : DOMAIN rows = 1..n
    BY <2>2
  <2>4. DOMAIN db.articles = 1..n
    BY <2>1, <2>3
  <2> QED
    BY <2>4, CampaignsAreLinked
<1> QED
  BY <1>1, <1>2, PTL
=============================================================================
