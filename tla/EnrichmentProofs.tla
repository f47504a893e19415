--------------------------- MODULE EnrichmentProofs ---------------------------
(***************************************************************************)
(* What holds of the adversary database for any groups, articles, names    *)
(* and indicators: arrays without duplicates, nothing that is somebody     *)
(* else's, one question per alias, and reverts that restore.               *)
(***************************************************************************)
EXTENDS Enrichment, FiniteSetTheorems, SequenceTheorems, WellFoundedInduction, TLAPS

-----------------------------------------------------------------------------
(* Numbers.                                                                *)

\* A nonempty set of naturals has a least member.
LEMMA Least ==
  ASSUME NEW S \in SUBSET Nat, S # {}
  PROVE  \E i \in S : \A j \in S : i <= j
<1> DEFINE R == {ss \in Nat \X Nat : ss[1] < ss[2]}
<1>1. IsWellFoundedOn(R, Nat)
  BY NatLessThanWellFounded DEF OpToRel
<1>2. PICK i \in S : \A j \in S : ~ (<<j, i>> \in R)
  <2> HIDE DEF R
  <2> QED BY <1>1, WFMin
<1>3. \A j \in S : i <= j
  <2> TAKE j \in S
  <2>1. <<j, i>> \in Nat \X Nat /\ <<j, i>>[1] = j /\ <<j, i>>[2] = i
    OBVIOUS
  <2>2. ~(<<j, i>>[1] < <<j, i>>[2])
    BY <1>2, <2>1, Zenon
  <2> QED BY <2>1, <2>2
<1> QED BY <1>3

\* Induction, for a set.
LEMMA AllNaturals ==
  ASSUME NEW X, 0 \in X, \A n \in Nat : n \in X => n + 1 \in X
  PROVE  \A n \in Nat : n \in X
<1> SUFFICES ASSUME Nat \ X # {} PROVE FALSE
  OBVIOUS
<1>1. PICK m \in Nat \ X : \A j \in Nat \ X : m <= j
  BY Least
<1>2. m # 0 /\ m - 1 \in Nat /\ m - 1 \in X
  BY <1>1
<1> QED
  BY <1>1, <1>2

\* A nonempty set of numbers up to n has a greatest member, and Max is it.
LEMMA MaxIsGreatest ==
  ASSUME NEW n \in Nat, NEW S \in SUBSET (0..n), S # {}
  PROVE  Max(S) \in S /\ \A y \in S : y <= Max(S)
<1> DEFINE T == {n - y : y \in S}
<1>1. \A y \in S : n - y \in Nat
  OBVIOUS
<1>2. T \in SUBSET Nat /\ T # {}
  BY <1>1
<1>3. PICK m \in T : \A k \in T : m <= k
  <2> HIDE DEF T
  <2> QED BY <1>2, Least
<1>4. PICK x \in S : m = n - x
  BY <1>3
<1>5. \A y \in S : x >= y
  <2> TAKE y \in S
  <2>1. n - y \in T
    OBVIOUS
  <2> HIDE DEF T
  <2>2. m <= n - y
    BY <1>3, <2>1
  <2> QED
    BY <1>4, <2>2
<1> HIDE DEF T
<1> QED
  BY <1>5 DEF Max

-----------------------------------------------------------------------------
(* Filters.                                                                *)

\* Positions of a sequence can be put in order.
LEMMA PositionsCanBeOrdered ==
  \A n \in Nat : \A I \in SUBSET (1..n) :
    \E s \in [1..Cardinality(I) -> I] : \A i, j \in 1..Cardinality(I) : i < j => s[i] < s[j]
<1> DEFINE Ordered(I) == \E s \in [1..Cardinality(I) -> I] :
                           \A i, j \in 1..Cardinality(I) : i < j => s[i] < s[j]
           X == {n \in Nat : \A I \in SUBSET (1..n) : Ordered(I)}
<1>1. 0 \in X
  <2> SUFFICES ASSUME NEW I \in SUBSET (1..0) PROVE Ordered(I)
    OBVIOUS
  <2>1. I = {} /\ Cardinality(I) = 0
    <3>1. I = {}
      OBVIOUS
    <3> QED
      BY <3>1, FS_EmptySet
  <2>2. [i \in 1..0 |-> i] \in [1..Cardinality(I) -> I]
    BY <2>1
  <2> QED
    BY <2>1, <2>2
<1>2. ASSUME NEW n \in Nat, n \in X PROVE n + 1 \in X
  <2> SUFFICES ASSUME NEW I \in SUBSET (1..(n + 1)) PROVE Ordered(I)
    OBVIOUS
  <2>1. CASE n + 1 \notin I
    <3>1. I \in SUBSET (1..n)
      BY <2>1
    <3> HIDE DEF Ordered
    <3> QED
      BY <1>2, <3>1
  <2>2. CASE n + 1 \in I
    <3> DEFINE J == I \ {n + 1}
               k == Cardinality(J)
    <3>1. J \in SUBSET (1..n) /\ IsFiniteSet(J)
      <4>1. J \in SUBSET (1..n)
        OBVIOUS
      <4>2. IsFiniteSet(1..n)
        BY FS_Interval
      <4> QED
        BY <4>1, <4>2, FS_Subset
    <3>2. k \in Nat /\ I = J \cup {n + 1} /\ n + 1 \notin J
      BY <2>2, <3>1, FS_CardinalityType
    <3>3. Cardinality(I) = k + 1
      <4> HIDE DEF J
      <4> QED BY <3>1, <3>2, FS_AddElement
    <3>4. Ordered(J)
      BY <1>2, <3>1
    <3>5. PICK s \in [1..k -> J] : \A i, j \in 1..k : i < j => s[i] < s[j]
      BY <3>4
    <3> HIDE DEF k
    <3> DEFINE t == [i \in 1..(k + 1) |-> IF i = k + 1 THEN n + 1 ELSE s[i]]
    <3>6. \A i \in 1..k : s[i] \in Nat /\ s[i] < n + 1 /\ i \in 1..(k + 1) /\ i # k + 1
      <4> SUFFICES ASSUME NEW i \in 1..k
                   PROVE  s[i] \in Nat /\ s[i] < n + 1 /\ i \in 1..(k + 1) /\ i # k + 1
        OBVIOUS
      <4>1. s[i] \in J
        BY <3>5
      <4>2. s[i] \in 1..n
        BY <3>1, <4>1
      <4> QED
        BY <3>2, <4>2
    <3>7. t \in [1..(k + 1) -> I]
      BY <3>2, <3>5, <3>6
    <3>8. ASSUME NEW i \in 1..(k + 1), NEW j \in 1..(k + 1), i < j PROVE t[i] < t[j]
      <4>1. i \in 1..k /\ i # k + 1
        BY <3>2, <3>8
      <4>2. CASE j = k + 1
        BY <3>6, <4>1, <4>2
      <4>3. CASE j # k + 1
        <5>1. j \in 1..k
          BY <3>2, <4>3
        <5> QED
          BY <3>5, <3>8, <4>1, <4>3, <5>1
      <4> QED
        BY <4>2, <4>3
    <3> HIDE DEF t
    <3> QED
      BY <3>3, <3>7, <3>8
  <2> QED
    BY <2>1, <2>2
<1>3. \A n \in Nat : n \in X
  <2> HIDE DEF X
  <2> QED BY <1>1, <1>2, AllNaturals
<1> QED
  BY <1>3

LEMMA InOrderIsOrdered ==
  ASSUME NEW n \in Nat, NEW I \in SUBSET (1..n)
  PROVE  /\ Cardinality(I) \in Nat
         /\ InOrder(I) \in [1..Cardinality(I) -> I]
         /\ \A i, j \in 1..Cardinality(I) : i < j => InOrder(I)[i] < InOrder(I)[j]
         /\ \A x \in I : \E i \in 1..Cardinality(I) : InOrder(I)[i] = x
<1> DEFINE k == Cardinality(I)
           s == InOrder(I)
<1>1. IsFiniteSet(I) /\ k \in Nat
  <2>1. IsFiniteSet(1..n)
    BY FS_Interval
  <2>2. IsFiniteSet(I)
    BY <2>1, FS_Subset
  <2> QED
    BY <2>2, FS_CardinalityType
<1>2. s \in [1..k -> I] /\ \A i, j \in 1..k : i < j => s[i] < s[j]
  BY PositionsCanBeOrdered DEF InOrder
<1> HIDE DEF s
<1>3. s \in Injection(1..k, I)
  <2>1. \A i, j \in 1..k : s[i] = s[j] => i = j
    <3> SUFFICES ASSUME NEW i \in 1..k, NEW j \in 1..k, s[i] = s[j] PROVE i = j
      OBVIOUS
    <3>1. s[i] \in Nat /\ i \in Nat /\ j \in Nat
      <4>1. s[i] \in I
        BY <1>2
      <4>2. i \in Nat /\ j \in Nat
        BY <1>1
      <4>3. \A x \in I : x \in Nat
        OBVIOUS
      <4> QED
        BY <4>1, <4>2, <4>3, Zenon
    <3>2. ~(i < j) /\ ~(j < i)
      BY <1>2, <3>1
    <3> QED
      BY <3>1, <3>2
  <2> QED
    BY <1>2, <2>1 DEF Injection, IsInjective
<1>4. Cardinality(1..k) = k
  BY <1>1, FS_Interval
<1>5. s \in Surjection(1..k, I)
  BY <1>1, <1>3, <1>4, FS_Injection
<1> QED
  BY <1>1, <1>2, <1>5 DEF Surjection, s

\* What a filter keeps is what the sequence has of the set, each as often.
LEMMA KeepIsFilter ==
  ASSUME NEW V, NEW s \in Seq(V), NEW S
  PROVE  /\ Keep(s, S) \in Seq(V)
         /\ ToSet(Keep(s, S)) = ToSet(s) \cap S
         /\ IsInjective(s) => IsInjective(Keep(s, S))
<1> DEFINE I == {i \in DOMAIN s : s[i] \in S}
           k == Cardinality(I)
           at == InOrder(I)
<1>1. Len(s) \in Nat /\ DOMAIN s = 1..Len(s) /\ \A i \in 1..Len(s) : s[i] \in V
  OBVIOUS
<1>2. I \in SUBSET (1..Len(s))
  BY <1>1
<1>3. /\ k \in Nat /\ at \in [1..k -> I]
      /\ \A i, j \in 1..k : i < j => at[i] < at[j]
      /\ \A x \in I : \E i \in 1..k : at[i] = x
  <2> HIDE DEF I
  <2> QED BY <1>1, <1>2, InOrderIsOrdered
<1> HIDE DEF k, at
<1>4. Keep(s, S) = [i \in 1..k |-> s[at[i]]]
  BY <1>3 DEF Keep, at
<1>5. \A i \in 1..k : at[i] \in 1..Len(s) /\ s[at[i]] \in V /\ s[at[i]] \in S
  BY <1>1, <1>3
<1>6. Keep(s, S) \in Seq(V)
  BY <1>3, <1>4, <1>5
<1>7. ToSet(Keep(s, S)) = ToSet(s) \cap S
  <2>1. ASSUME NEW x \in ToSet(Keep(s, S)) PROVE x \in ToSet(s) \cap S
    <3>1. PICK i \in 1..k : x = s[at[i]]
      BY <1>4 DEF ToSet
    <3> QED
      BY <1>1, <1>5, <3>1 DEF ToSet
  <2>2. ASSUME NEW x \in ToSet(s) \cap S PROVE x \in ToSet(Keep(s, S))
    <3>1. PICK i \in I : x = s[i]
      BY DEF ToSet
    <3>2. PICK j \in 1..k : at[j] = i
      BY <1>3
    <3> QED
      BY <1>4, <3>1, <3>2 DEF ToSet
  <2> QED
    BY <2>1, <2>2
<1>8. ASSUME IsInjective(s) PROVE IsInjective(Keep(s, S))
  <2> SUFFICES ASSUME NEW i \in 1..k, NEW j \in 1..k, s[at[i]] = s[at[j]] PROVE i = j
    BY <1>4 DEF IsInjective
  <2>1. at[i] = at[j] /\ at[i] \in Nat /\ i \in Nat /\ j \in Nat
    BY <1>1, <1>3, <1>5, <1>8 DEF IsInjective
  <2>2. ~(i < j) /\ ~(j < i)
    BY <1>3, <2>1
  <2> QED
    BY <2>1, <2>2
<1> QED
  BY <1>6, <1>7, <1>8

\* What has no duplicates gains none by what it has not.
LEMMA AppendedIsInjective ==
  ASSUME NEW V, NEW s \in Seq(V), NEW t \in Seq(V), IsInjective(s), IsInjective(t),
         ToSet(s) \cap ToSet(t) = {}
  PROVE  s \o t \in Seq(V) /\ IsInjective(s \o t) /\ ToSet(s \o t) = ToSet(s) \cup ToSet(t)
<1>1. /\ Len(s) \in Nat /\ DOMAIN s = 1..Len(s) /\ \A i \in 1..Len(s) : s[i] \in V
      /\ Len(t) \in Nat /\ DOMAIN t = 1..Len(t) /\ \A i \in 1..Len(t) : t[i] \in V
  OBVIOUS
<1>2. /\ s \o t \in Seq(V) /\ DOMAIN (s \o t) = 1..(Len(s) + Len(t))
      /\ \A i \in 1..(Len(s) + Len(t)) :
           (s \o t)[i] = IF i <= Len(s) THEN s[i] ELSE t[i - Len(s)]
  OBVIOUS
<1>3. IsInjective(s \o t)
  <2> SUFFICES ASSUME NEW i \in 1..(Len(s) + Len(t)), NEW j \in 1..(Len(s) + Len(t)),
                      (s \o t)[i] = (s \o t)[j]
               PROVE  i = j
    BY <1>2 DEF IsInjective
  <2>1. ASSUME NEW a \in 1..Len(s), NEW b \in 1..Len(t) PROVE s[a] # t[b]
    <3>1. s[a] \in ToSet(s) /\ t[b] \in ToSet(t)
      BY <1>1 DEF ToSet
    <3> QED
      BY <3>1
  <2>2. i <= Len(s) => i \in 1..Len(s)
    BY <1>1
  <2>3. j <= Len(s) => j \in 1..Len(s)
    BY <1>1
  <2>4. i > Len(s) => i - Len(s) \in 1..Len(t)
    BY <1>1
  <2>5. j > Len(s) => j - Len(s) \in 1..Len(t)
    BY <1>1
  <2>6. CASE i <= Len(s) /\ j <= Len(s)
    BY <1>1, <1>2, <2>2, <2>3, <2>6 DEF IsInjective
  <2>7. CASE i > Len(s) /\ j > Len(s)
    <3>1. t[i - Len(s)] = t[j - Len(s)]
      BY <1>1, <1>2, <2>7
    <3>2. i - Len(s) = j - Len(s)
      BY <1>1, <2>4, <2>5, <2>7, <3>1 DEF IsInjective
    <3> QED
      BY <1>1, <3>2
  <2>8. CASE i <= Len(s) /\ j > Len(s)
    BY <1>1, <1>2, <2>1, <2>2, <2>5, <2>8
  <2>9. CASE i > Len(s) /\ j <= Len(s)
    BY <1>1, <1>2, <2>1, <2>3, <2>4, <2>9
  <2> QED
    BY <1>1, <2>6, <2>7, <2>8, <2>9
<1>4. ToSet(s \o t) = ToSet(s) \cup ToSet(t)
  <2>1. ASSUME NEW x \in ToSet(s \o t) PROVE x \in ToSet(s) \cup ToSet(t)
    <3>1. PICK i \in 1..(Len(s) + Len(t)) : x = (s \o t)[i]
      BY <1>2 DEF ToSet
    <3>2. CASE i <= Len(s)
      BY <1>1, <1>2, <3>1, <3>2 DEF ToSet
    <3>3. CASE i > Len(s)
      <4>1. i - Len(s) \in 1..Len(t) /\ x = t[i - Len(s)]
        BY <1>1, <1>2, <3>1, <3>3
      <4> QED
        BY <1>1, <4>1 DEF ToSet
    <3> QED
      BY <1>1, <3>2, <3>3
  <2>2. ASSUME NEW x \in ToSet(s) PROVE x \in ToSet(s \o t)
    <3>1. PICK i \in 1..Len(s) : x = s[i]
      BY <1>1 DEF ToSet
    <3>2. i \in 1..(Len(s) + Len(t)) /\ (s \o t)[i] = x
      BY <1>1, <1>2, <3>1
    <3> QED
      BY <1>2, <3>2 DEF ToSet
  <2>3. ASSUME NEW x \in ToSet(t) PROVE x \in ToSet(s \o t)
    <3>1. PICK i \in 1..Len(t) : x = t[i]
      BY <1>1 DEF ToSet
    <3>2. i + Len(s) \in 1..(Len(s) + Len(t)) /\ (s \o t)[i + Len(s)] = x
      BY <1>1, <1>2, <3>1
    <3> QED
      BY <1>2, <3>2 DEF ToSet
  <2> QED
    BY <2>1, <2>2, <2>3
<1> QED
  BY <1>2, <1>3, <1>4

\* A finite set can be listed.
LEMMA Listed ==
  ASSUME NEW S, IsFiniteSet(S)
  PROVE  /\ SetToSeq(S) \in Seq(S) /\ DOMAIN SetToSeq(S) = 1..Len(SetToSeq(S))
         /\ \A x \in S : \E i \in DOMAIN SetToSeq(S) : SetToSeq(S)[i] = x
<1> DEFINE k == Cardinality(S)
           s == SetToSeq(S)
<1>1. k \in Nat /\ \E f \in [1..k -> S] : IsInjective(f)
  <2>1. k \in Nat /\ ExistsBijection(1..k, S)
    BY FS_CardinalityType
  <2> QED
    BY <2>1 DEF ExistsBijection, Bijection, Injection
<1>2. s \in [1..k -> S] /\ IsInjective(s)
  BY <1>1 DEF SetToSeq
<1>3. s \in Injection(1..k, S)
  BY <1>2 DEF Injection
<1>4. s \in Surjection(1..k, S)
  BY <1>1, <1>3, FS_Interval, FS_Injection
<1> HIDE DEF s
<1> QED
  BY <1>1, <1>2, <1>4 DEF Surjection, s

-----------------------------------------------------------------------------
(* The invariant.                                                          *)

\* What a field may hold: no array at all, or one without duplicates.
Held == {Unreadable} \cup {s \in Seq(Items) : IsInjective(s)}

AuditRow == [article : Articles, cell : Cells, action : {"enrich", "revert"},
             before : Held, after : Held]

Types ==
  /\ stored \in [Cells -> Held]
  /\ audit \in Seq(AuditRow)
  /\ proposals \in SUBSET [group : Groups, alias : Names, article : Articles,
                           status : {"pending", "approved", "rejected"}]
  /\ others \in 0..MaxOthers
  /\ past \in [Articles -> [Cells -> Held \cup {Unwritten, Overwritten}]]

\* The rows an article's enrichment of a field has left.
Wrote(a, c) == {i \in DOMAIN audit :
                  audit[i].article = a /\ audit[i].action = "enrich" /\ audit[i].cell = c}

\* What a field held before an article first wrote it is in the article's first
\* row about it, until somebody else writes the field.
PastKnown == \A a \in Articles, c \in Cells :
  /\ past[a][c] = Unwritten <=> Wrote(a, c) = {}
  /\ past[a][c] \notin {Unwritten, Overwritten} =>
       \A i \in Wrote(a, c) : (\A j \in Wrote(a, c) : i <= j) => audit[i].before = past[a][c]

IInv == Types /\ PastKnown /\ ProposedOnce /\ OnlyItsOwn

-----------------------------------------------------------------------------
(* What a field may hold.                                                  *)

LEMMA HeldIsNoMark == Unwritten \notin Held /\ Overwritten \notin Held
<1>1. Unwritten # Unreadable /\ Overwritten # Unreadable
  BY DEF Unwritten, Overwritten, Unreadable
<1>2. ASSUME NEW s \in Seq(Items) PROVE s # Unwritten /\ s # Overwritten
  <2>1. Len(s) = 1 => s[1] \in Items
    OBVIOUS
  <2>2. /\ Len(Unwritten) = 1 /\ Unwritten[1] = "unwritten"
        /\ Len(Overwritten) = 1 /\ Overwritten[1] = "overwritten"
    BY DEF Unwritten, Overwritten
  <2>3. "unwritten" \notin Items /\ "overwritten" \notin Items
    BY EnrichmentAssumption
  <2> QED
    BY <2>1, <2>2, <2>3
<1> QED
  BY <1>1, <1>2 DEF Held

\* Appending to an array what it has not.
LEMMA AppendFresh ==
  ASSUME NEW s \in Seq(Items), NEW t \in Seq(Items), IsInjective(s), IsInjective(t)
  PROVE  /\ s \o Keep(t, ToSet(t) \ ToSet(s)) \in Held
         /\ ToSet(s \o Keep(t, ToSet(t) \ ToSet(s))) = ToSet(s) \cup ToSet(t)
<1> DEFINE u == Keep(t, ToSet(t) \ ToSet(s))
<1>1. u \in Seq(Items) /\ ToSet(u) = ToSet(t) \cap (ToSet(t) \ ToSet(s)) /\ IsInjective(u)
  BY KeepIsFilter
<1> HIDE DEF u
<1>2. s \o u \in Seq(Items) /\ IsInjective(s \o u) /\ ToSet(s \o u) = ToSet(s) \cup ToSet(u)
  BY <1>1, AppendedIsInjective
<1> QED
  BY <1>1, <1>2 DEF Held, u

\* exclusions.py: by bisection, an address in any span is found, since no two
\* spans overlap.
LEMMA BisectionFinds ==
  ASSUME NEW n \in Nat, NEW r \in RentedSpans, n \in r[1]..r[2]
  PROVE  _span_covering(n)
<1>1. r[1] \in Nat /\ r[2] \in Nat /\ r[1] <= n /\ n <= r[2]
  BY EnrichmentAssumption
<1>2. ASSUME NEW t \in RentedSpans, t[1] <= n PROVE t[1] <= r[1]
  <2>1. t[1] \in Nat /\ t[2] \in Nat /\ t[1] <= t[2]
    BY EnrichmentAssumption
  <2>2. t = r \/ r[2] < t[1] \/ t[2] < r[1]
    BY EnrichmentAssumption
  <2> QED
    BY <1>1, <1>2, <2>1, <2>2
<1> QED
  BY <1>1, <1>2 DEF _span_covering

\* Names resolve to groups.
LEMMA ResolvedType ==
  ASSUME Types, NEW n
  PROVE  Resolved(n) \in SUBSET Groups
<1>1. \A p \in proposals : p.group \in Groups
  BY DEF Types
<1> QED
  BY <1>1 DEF Resolved, Matches

LEMMA PastAfterType ==
  ASSUME Types, NEW who, NEW cells
  PROVE  PastAfter(who, cells) \in [Articles -> [Cells -> Held \cup {Unwritten, Overwritten}]]
<1> SUFFICES ASSUME NEW a \in Articles, NEW c \in Cells
             PROVE  PastAfter(who, cells)[a][c] \in Held \cup {Unwritten, Overwritten}
  BY DEF PastAfter
<1>1. stored[c] \in Held /\ past[a][c] \in Held \cup {Unwritten, Overwritten}
  BY DEF Types
<1> QED
  BY <1>1 DEF PastAfter

\* What is appended to the audit.
LEMMA AuditGrows ==
  ASSUME Types, NEW rows \in Seq(AuditRow), audit' = audit \o rows
  PROVE  /\ audit' \in Seq(AuditRow)
         /\ Len(audit) \in Nat /\ DOMAIN audit = 1..Len(audit)
         /\ DOMAIN audit' = 1..(Len(audit) + Len(rows))
         /\ \A i \in 1..Len(audit) : i \in DOMAIN audit' /\ audit'[i] = audit[i]
         /\ \A i \in DOMAIN audit' : i \notin DOMAIN audit => \E j \in DOMAIN rows : audit'[i] = rows[j]
         /\ \A j \in DOMAIN rows : /\ Len(audit) + j \in DOMAIN audit'
                                   /\ audit'[Len(audit) + j] = rows[j]
<1>1. audit \in Seq(AuditRow)
  BY DEF Types
<1>2. /\ Len(audit) \in Nat /\ DOMAIN audit = 1..Len(audit)
      /\ Len(rows) \in Nat /\ DOMAIN rows = 1..Len(rows)
      /\ audit' \in Seq(AuditRow) /\ Len(audit') = Len(audit) + Len(rows)
      /\ DOMAIN audit' = 1..Len(audit')
  BY <1>1
<1>3. \A i \in 1..(Len(audit) + Len(rows)) :
        audit'[i] = IF i <= Len(audit) THEN audit[i] ELSE rows[i - Len(audit)]
  BY <1>1
<1>4. \A i \in DOMAIN audit' : i \notin DOMAIN audit => i - Len(audit) \in DOMAIN rows
  BY <1>2
<1>5. \A i \in DOMAIN audit' : i \notin DOMAIN audit => \E j \in DOMAIN rows : audit'[i] = rows[j]
  BY <1>2, <1>3, <1>4
<1>6. \A j \in DOMAIN rows : /\ Len(audit) + j \in 1..(Len(audit) + Len(rows))
                             /\ ~(Len(audit) + j <= Len(audit))
                             /\ (Len(audit) + j) - Len(audit) = j
  BY <1>2
<1> QED
  BY <1>2, <1>3, <1>5, <1>6

-----------------------------------------------------------------------------
(* The writers that audit nothing.                                         *)

LEMMA OthersKeep ==
  ASSUME IInv, NEW new \in [Cells -> Held], WrittenByOthers(new)
  PROVE  IInv'
<1>1. /\ stored' = new /\ others' = others + 1 /\ others < MaxOthers
      /\ past' = PastAfter(Nobody, {c \in Cells : new[c] # stored[c]})
      /\ UNCHANGED <<audit, proposals>>
  BY DEF WrittenByOthers
<1>2. Types'
  <2>1. others' \in 0..MaxOthers
    BY <1>1, EnrichmentAssumption DEF IInv, Types
  <2>2. past' \in [Articles -> [Cells -> Held \cup {Unwritten, Overwritten}]]
    BY <1>1, PastAfterType DEF IInv
  <2> QED
    BY <1>1, <2>1, <2>2 DEF IInv, Types
<1>3. PastKnown'
  <2> SUFFICES ASSUME NEW a \in Articles, NEW c \in Cells
               PROVE  /\ past'[a][c] = Unwritten <=> Wrote(a, c) = {}
                      /\ past'[a][c] \notin {Unwritten, Overwritten} =>
                           \A i \in Wrote(a, c) :
                             (\A j \in Wrote(a, c) : i <= j) => audit[i].before = past'[a][c]
    BY <1>1 DEF PastKnown, Wrote
  <2>1. a # Nobody /\ Overwritten # Unwritten
    BY EnrichmentAssumption DEF Overwritten, Unwritten
  <2>2. past'[a][c] \in {past[a][c], Overwritten} /\ (past'[a][c] = Unwritten <=> past[a][c] = Unwritten)
    BY <1>1, <2>1 DEF PastAfter
  <2> QED
    BY <2>1, <2>2 DEF IInv, PastKnown
<1>4. ProposedOnce' /\ OnlyItsOwn'
  BY <1>1 DEF IInv, ProposedOnce, OnlyItsOwn
<1> QED
  BY <1>2, <1>3, <1>4 DEF IInv

LEMMA FeedKeeps ==
  ASSUME IInv, NEW c \in Cells, FeedOverwrites(c)
  PROVE  IInv'
<1>1. PICK value \in {<<v>> : v \in FeedValues[c[2]]}
                     \cup {IF c[2] = "btc_addresses" THEN Unreadable ELSE <<>>} :
        WrittenByOthers([stored EXCEPT ![c] = value])
  BY DEF FeedOverwrites
<1>2. value \in Held
  <2>1. ASSUME NEW v \in FeedValues[c[2]], value = <<v>> PROVE value \in Held
    <3>1. c[2] \in Fields
      BY DEF Cells
    <3>3. v \in Items
      <4> DEFINE D(f) == FeedValues[f] \cup (UNION {ToSet(Indicators[a][f]) : a \in Articles})
      <4>1. v \in D(c[2])
        OBVIOUS
      <4> HIDE DEF D
      <4>2. v \in UNION {D(f) : f \in Fields}
        BY <3>1, <4>1
      <4> QED
        BY <4>2 DEF D, Items
    <3>2. <<v>> \in Seq(Items) /\ DOMAIN <<v>> = 1..1
      BY <3>3
    <3> QED
      BY <2>1, <3>2 DEF Held, IsInjective
  <2>2. <<>> \in Held
    BY DEF Held, IsInjective
  <2>3. Unreadable \in Held
    BY DEF Held
  <2> QED
    BY <2>1, <2>2, <2>3
<1>3. [stored EXCEPT ![c] = value] \in [Cells -> Held]
  BY <1>2 DEF IInv, Types
<1> QED
  BY <1>1, <1>3, OthersKeep

\* One family.
LEMMA WithFamilyType ==
  ASSUME NEW state \in [Cells -> Held], NEW g \in Groups, NEW f \in DOMAIN Families
  PROVE  WithFamily(state, g, f) \in [Cells -> Held]
<1> DEFINE c == <<g, "btc_addresses">>
           present == IF state[c] = Unreadable THEN <<>> ELSE state[c]
           u == present \o Keep(Families[f], ToSet(Families[f]) \ ToSet(present))
<1>1. c \in Cells /\ state[c] \in Held
  BY EnrichmentAssumption DEF Cells
<1>2. present \in Seq(Items) /\ IsInjective(present)
  BY <1>1 DEF Held, IsInjective
<1>3. Families[f] \in Seq(Items) /\ IsInjective(Families[f])
  BY EnrichmentAssumption
<1>4. u \in Held
  <2> HIDE DEF present
  <2> QED BY <1>2, <1>3, AppendFresh
<1> HIDE DEF u
<1>5. [state EXCEPT ![c] = IF ToSet(Families[f]) \subseteq ToSet(present) THEN @ ELSE u] \in [Cells -> Held]
  BY <1>1, <1>4
<1> QED
  BY <1>5 DEF WithFamily, u

\* A loop over n steps on states of a set has a result in it.
LEMMA LoopRuns ==
  ASSUME NEW G, NEW base \in G, NEW n \in Nat, NEW step \in [1..n -> [G -> G]]
  PROVE  \E st \in [0..n -> G] : st[0] = base /\ \A i \in 1..n : st[i] = step[i][st[i - 1]]
<1> DEFINE Runs(m) == \E st \in [0..m -> G] : st[0] = base /\ \A i \in 1..m : st[i] = step[i][st[i - 1]]
           X == {m \in Nat : m <= n => Runs(m)}
<1>1. 0 \in X
  <2> DEFINE st == [i \in 0..0 |-> base]
  <2>1. st \in [0..0 -> G] /\ st[0] = base /\ \A i \in 1..0 : st[i] = step[i][st[i - 1]]
    OBVIOUS
  <2> HIDE DEF st
  <2>2. Runs(0)
    BY <2>1
  <2> QED
    BY <2>2
<1>2. ASSUME NEW m \in Nat, m \in X PROVE m + 1 \in X
  <2> SUFFICES ASSUME m + 1 <= n PROVE Runs(m + 1)
    BY <1>2
  <2>1. Runs(m)
    BY <1>2
  <2>2. PICK st \in [0..m -> G] : st[0] = base /\ \A i \in 1..m : st[i] = step[i][st[i - 1]]
    BY <2>1
  <2>3. m \in 0..m /\ m + 1 \in 1..n /\ st[m] \in G /\ step[m + 1][st[m]] \in G
    BY <2>2
  <2> DEFINE new == [i \in 0..(m + 1) |-> IF i = m + 1 THEN step[m + 1][st[m]] ELSE st[i]]
  <2>4. \A i \in 0..(m + 1) : i # m + 1 => i \in 0..m
    OBVIOUS
  <2>5. new \in [0..(m + 1) -> G]
    BY <2>2, <2>3, <2>4
  <2>6. new[0] = base
    BY <2>2
  <2>7. ASSUME NEW i \in 1..(m + 1) PROVE new[i] = step[i][new[i - 1]]
    <3>1. i \in 0..(m + 1) /\ i - 1 \in 0..(m + 1) /\ i - 1 # m + 1
      OBVIOUS
    <3>2. new[i - 1] = st[i - 1]
      BY <3>1
    <3>3. CASE i = m + 1
      BY <3>1, <3>2, <3>3
    <3>4. CASE i # m + 1
      <4>1. i \in 1..m
        BY <3>4
      <4> QED
        BY <2>2, <3>1, <3>2, <3>4, <4>1
    <3> QED
      BY <3>3, <3>4
  <2> HIDE DEF new
  <2> QED
    BY <2>5, <2>6, <2>7
<1>3. n \in X
  <2> HIDE DEF X
  <2> QED BY <1>1, <1>2, AllNaturals
<1> QED
  BY <1>3

\* The loop over the families leaves arrays without duplicates.
LEMMA WithFamiliesType ==
  ASSUME Types, NEW group \in [DOMAIN Families -> Groups \cup {Nobody}]
  PROVE  WithFamilies(group) \in [Cells -> Held]
<1> DEFINE F == {f \in DOMAIN Families : group[f] # Nobody}
           order == SetToSeq(F)
           n == Len(order)
           G == [Cells -> Held]
           step == [i \in 1..n |-> [x \in G |-> WithFamily(x, group[order[i]], order[i])]]
<1>1. n \in Nat /\ \A i \in 1..n : order[i] \in F
  <2>1. IsFiniteSet(F)
    BY EnrichmentAssumption, FS_Subset
  <2>2. order \in Seq(F)
    <3> HIDE DEF F
    <3> QED BY <2>1, Listed
  <2> HIDE DEF F, order
  <2> QED
    BY <2>2
<1>2. \A i \in 1..n : order[i] \in DOMAIN Families /\ group[order[i]] \in Groups
  BY <1>1
<1> HIDE DEF order, F, n
<1>3. step \in [1..n -> [G -> G]]
  BY <1>2, WithFamilyType
<1>4. stored \in G
  BY DEF Types
<1>5. PICK st \in [0..n -> G] : st[0] = stored /\ \A i \in 1..n : st[i] = step[i][st[i - 1]]
  <2>1. n \in Nat
    BY <1>1
  <2> HIDE DEF step, G
  <2>2. \A b \in G, t \in [1..n -> [G -> G]] :
          \E st \in [0..n -> G] : st[0] = b /\ \A i \in 1..n : st[i] = t[i][st[i - 1]]
    BY <2>1, LoopRuns
  <2> QED BY <1>3, <1>4, <2>2
<1> DEFINE IsLoop(s) == s = [i \in 0..n |-> IF i = 0 THEN stored
                                             ELSE WithFamily(s[i - 1], group[order[i]], order[i])]
           state == CHOOSE s : IsLoop(s)
<1>6. IsLoop(st)
  <2>1. ASSUME NEW i \in 0..n, i # 0 PROVE st[i] = WithFamily(st[i - 1], group[order[i]], order[i])
    <3>1. i \in 1..n /\ i - 1 \in 0..n
      BY <1>1, <2>1
    <3>2. st[i - 1] \in G
      BY <1>5, <3>1
    <3> QED
      BY <1>5, <3>1, <3>2
  <2> QED
    BY <1>5, <2>1
<1>7. IsLoop(state)
  <2> HIDE DEF IsLoop
  <2> QED BY <1>6
<1>8. \A s : IsLoop(s) => \A i \in 0..n : s[i] = IF i = 0 THEN stored ELSE WithFamily(s[i - 1], group[order[i]], order[i])
  OBVIOUS
<1> DEFINE X == {i \in Nat : i <= n => state[i] \in G}
<1>9. n \in X
  <2>1. 0 \in X
    <3>1. 0 \in 0..n
      BY <1>1
    <3>2. state[0] = stored
      <4> HIDE DEF state
      <4> QED BY <1>7, <3>1
    <3> HIDE DEF state, G
    <3> QED
      BY <1>4, <3>2
  <2>2. ASSUME NEW i \in Nat, i \in X PROVE i + 1 \in X
    <3> SUFFICES ASSUME i + 1 <= n PROVE state[i + 1] \in G
      BY <2>2
    <3>1. state[i] \in G /\ i + 1 \in 1..n /\ i + 1 \in 0..n /\ i + 1 # 0 /\ (i + 1) - 1 = i
      BY <1>1, <2>2
    <3>2. state[i + 1] = WithFamily(state[i], group[order[i + 1]], order[i + 1])
      <4> HIDE DEF state, G
      <4> QED BY <1>7, <3>1
    <3> HIDE DEF state
    <3> QED
      BY <1>2, <3>1, <3>2, WithFamilyType
  <2> HIDE DEF X
  <2> QED
    BY <1>1, <2>1, <2>2, AllNaturals
<1>10. WithFamilies(group) = state[n]
  BY DEF WithFamilies, order, F, n
<1> QED
  BY <1>1, <1>9, <1>10

LEMMA RansomwhereKeeps ==
  ASSUME IInv, Ransomwhere
  PROVE  IInv'
  BY WithFamiliesType, OthersKeep DEF Ransomwhere, IInv

-----------------------------------------------------------------------------
(* The gate writes to the groups.                                          *)

\* What a write of the gate consists of: for the fields that gain something,
\* what they gain is the article's, and none of somebody else's.
LEMMA WhatIsWritten ==
  ASSUME Types, NEW a \in Articles, NEW auto \in SUBSET Infrastructure(a),
         NEW groups \in SUBSET Groups, NEW values,
         values = [f \in Fields |-> Keep(Indicators[a][f], auto)],
         NEW c \in Written(values, groups)
  PROVE  LET after == stored[c] \o Fresh(c, values[c[2]])
         IN  /\ c \in Cells /\ stored[c] \in Held /\ after \in Held
             /\ ~NothingToCheckAgainst
             /\ \A v \in ToSet(after) \ ToSet(stored[c]) : v \in Infrastructure(a)
<1> DEFINE v == values[c[2]]
           u == Fresh(c, v)
<1>1. c \in Cells /\ c[2] \in Fields /\ stored[c] # Unreadable /\ u # <<>>
  BY DEF Written, Cells
<1>2. stored[c] \in Held /\ stored[c] \in Seq(Items) /\ IsInjective(stored[c])
  BY <1>1 DEF Types, Held
<1>3. v \in Seq(Items) /\ IsInjective(v) /\ ToSet(v) \in SUBSET auto
  <2>1. Indicators[a][c[2]] \in Seq(Items) /\ IsInjective(Indicators[a][c[2]])
    BY <1>1, EnrichmentAssumption
  <2>2. v = Keep(Indicators[a][c[2]], auto)
    BY <1>1
  <2> HIDE DEF v
  <2> QED
    BY <2>1, <2>2, KeepIsFilter
<1> HIDE DEF v
<1>4. stored[c] \o u \in Held /\ ToSet(stored[c] \o u) = ToSet(stored[c]) \cup ToSet(v)
  BY <1>2, <1>3, AppendFresh DEF Fresh
<1>5. \A x \in ToSet(stored[c] \o u) \ ToSet(stored[c]) : x \in Infrastructure(a)
  BY <1>3, <1>4
<1>6. Infrastructure(a) # {}
  <2>1. u \in Seq(Items) /\ ToSet(u) \in SUBSET ToSet(v)
    BY <1>3, KeepIsFilter DEF Fresh
  <2> HIDE DEF u
  <2>2. Len(u) \in Nat /\ Len(u) # 0
    BY <1>1, <2>1, EmptySeq
  <2>3. u[1] \in ToSet(u)
    BY <2>1, <2>2 DEF ToSet
  <2> QED
    BY <1>3, <2>1, <2>3
<1>7. ~NothingToCheckAgainst
  BY <1>6 DEF Infrastructure
<1> QED
  BY <1>1, <1>2, <1>4, <1>5, <1>7 DEF v

\* exclusions.py, on one indicator.
LEMMA NobodyElses ==
  ASSUME NEW a, NEW v \in Infrastructure(a), v \notin Onions
  PROVE  /\ v \notin Platforms
         /\ v \in DOMAIN Address =>
              /\ Address[v] \notin RentedExact
              /\ \A r \in RentedNetworks \cup RentedSpans : Address[v] \notin r[1]..r[2]
<1>1. ~not_the_adversarys(v)
  BY DEF Infrastructure
<1>2. v \notin Platforms /\ (v \in DOMAIN Address => ~covers(Address[v]))
  BY <1>1 DEF not_the_adversarys
<1>3. v \in DOMAIN Address => Address[v] \in Nat
  BY EnrichmentAssumption
<1>4. ASSUME v \in DOMAIN Address, NEW r \in RentedSpans PROVE Address[v] \notin r[1]..r[2]
  BY <1>2, <1>3, <1>4, BisectionFinds DEF covers
<1>5. ASSUME v \in DOMAIN Address, NEW r \in RentedNetworks PROVE Address[v] \notin r[1]..r[2]
  BY <1>2, <1>5 DEF covers
<1> QED
  BY <1>2, <1>4, <1>5 DEF covers

\* Two articles, or two passes, do not put the same alias to a person.
LEMMA NewProposals ==
  ASSUME Types, ProposedOnce, NEW a \in Articles,
         proposals' = proposals \cup
           {[group |-> s[2], alias |-> s[1], article |-> a, status |-> "pending"] :
              s \in {t \in Synonyms(a) : Proposable(t[1], t[2])}}
  PROVE  /\ proposals' \in SUBSET [group : Groups, alias : Names, article : Articles,
                                   status : {"pending", "approved", "rejected"}]
         /\ ProposedOnce'
<1> DEFINE asked == {t \in Synonyms(a) : Proposable(t[1], t[2])}
           row(s) == [group |-> s[2], alias |-> s[1], article |-> a, status |-> "pending"]
<1>1. \A s \in asked : s \in Names \X Groups /\ Proposable(s[1], s[2])
  BY DEF Synonyms
<1>2. \A p \in proposals' : p \in proposals \/ \E s \in asked : p = row(s)
  OBVIOUS
<1>3. \A s \in asked : row(s) \in [group : Groups, alias : Names, article : Articles,
                                   status : {"pending", "approved", "rejected"}]
  BY <1>1
<1>4. ASSUME NEW s \in asked, NEW p \in proposals PROVE ~(p.group = s[2] /\ p.alias = s[1])
  BY <1>1 DEF Proposable
<1> HIDE DEF asked
<1>5. ASSUME NEW p \in proposals', NEW q \in proposals', p.group = q.group, p.alias = q.alias
      PROVE  p = q
  <2>1. CASE p \in proposals /\ q \in proposals
    BY <1>5, <2>1 DEF ProposedOnce
  <2>2. CASE p \in proposals /\ \E s \in asked : q = row(s)
    BY <1>4, <1>5, <2>2
  <2>3. CASE q \in proposals /\ \E s \in asked : p = row(s)
    BY <1>4, <1>5, <2>3
  <2>4. CASE (\E s \in asked : p = row(s)) /\ \E s \in asked : q = row(s)
    BY <1>5, <2>4
  <2> QED
    BY <1>2, <2>1, <2>2, <2>3, <2>4
<1> QED
  BY <1>2, <1>3, <1>5 DEF Types, ProposedOnce

LEMMA EnrichKeeps ==
  ASSUME IInv, NEW a \in Articles, Enrich(a)
  PROVE  IInv'
<1> DEFINE values(auto) == [f \in Fields |-> Keep(Indicators[a][f], auto)]
           groups == UNION {Resolved(actor.name) : actor \in Sketch[a]}
           After(auto, c) == stored[c] \o Fresh(c, values(auto)[c[2]])
<1>1. PICK auto \in SUBSET Infrastructure(a) :
        LET cells == Written(values(auto), groups)
            order == SetToSeq(cells)
        IN  /\ stored' = [c \in Cells |-> IF c \in cells THEN After(auto, c) ELSE stored[c]]
            /\ audit' = audit \o [i \in DOMAIN order |->
                                    Row(a, order[i], "enrich", stored[order[i]], After(auto, order[i]))]
            /\ proposals' = proposals \cup
                 {[group |-> s[2], alias |-> s[1], article |-> a, status |-> "pending"] :
                    s \in {t \in Synonyms(a) : Proposable(t[1], t[2])}}
            /\ past' = PastAfter(a, cells)
            /\ UNCHANGED others
  BY DEF Enrich
<1> DEFINE cells == Written(values(auto), groups)
           order == SetToSeq(cells)
           after(c) == After(auto, c)
           rows == [i \in DOMAIN order |-> Row(a, order[i], "enrich", stored[order[i]], after(order[i]))]
<1>2. Types /\ PastKnown /\ ProposedOnce /\ OnlyItsOwn
  BY DEF IInv
<1>3. groups \in SUBSET Groups
  BY <1>2, ResolvedType
<1>4. \A c \in cells : /\ c \in Cells /\ stored[c] \in Held /\ after(c) \in Held
                       /\ ~NothingToCheckAgainst
                       /\ \A v \in ToSet(after(c)) \ ToSet(stored[c]) : v \in Infrastructure(a)
  <2> DEFINE vs == values(auto)
  <2>1. vs = [f \in Fields |-> Keep(Indicators[a][f], auto)]
    OBVIOUS
  <2> HIDE DEF groups, vs
  <2>2. \A c \in Written(vs, groups) :
          LET aft == stored[c] \o Fresh(c, vs[c[2]])
          IN  /\ c \in Cells /\ stored[c] \in Held /\ aft \in Held
              /\ ~NothingToCheckAgainst
              /\ \A v \in ToSet(aft) \ ToSet(stored[c]) : v \in Infrastructure(a)
    BY <1>2, <1>3, <2>1, WhatIsWritten
  <2> QED
    BY <2>2 DEF vs
<1>5. /\ stored' = [c \in Cells |-> IF c \in cells THEN after(c) ELSE stored[c]]
      /\ audit' = audit \o rows
      /\ past' = PastAfter(a, cells)
  BY <1>1
<1>6. IsFiniteSet(cells)
  <2>1. IsFiniteSet(Groups \X Fields)
    BY EnrichmentAssumption, FS_Product
  <2>2. cells \in SUBSET (Groups \X Fields)
    BY <1>4 DEF Cells
  <2> QED
    BY <2>1, <2>2, FS_Subset
<1> HIDE DEF cells, after
<1>7. /\ order \in Seq(cells) /\ DOMAIN order = 1..Len(order)
      /\ \A c \in cells : \E i \in DOMAIN order : order[i] = c
  BY <1>6, Listed
<1> HIDE DEF order
<1>8. /\ \A i \in DOMAIN order : order[i] \in cells
      /\ Len(order) \in Nat /\ DOMAIN rows = 1..Len(order)
      /\ \A i \in DOMAIN rows : rows[i] = Row(a, order[i], "enrich", stored[order[i]], after(order[i]))
  BY <1>7
<1>9. \A i \in DOMAIN rows : \E c \in cells : rows[i] = Row(a, c, "enrich", stored[c], after(c))
  BY <1>7, <1>8
<1>10. \A c \in cells : \E i \in DOMAIN rows : rows[i] = Row(a, c, "enrich", stored[c], after(c))
  BY <1>7, <1>8
<1>11. \A c \in cells : Row(a, c, "enrich", stored[c], after(c)) \in AuditRow
  BY <1>4 DEF Row, AuditRow
<1>12. rows \in Seq(AuditRow)
  BY <1>8, <1>9, <1>11
<1> HIDE DEF rows
<1>13. /\ audit' \in Seq(AuditRow) /\ DOMAIN audit = 1..Len(audit) /\ Len(audit) \in Nat
       /\ DOMAIN audit' = 1..(Len(audit) + Len(rows))
       /\ \A i \in 1..Len(audit) : i \in DOMAIN audit' /\ audit'[i] = audit[i]
       /\ \A i \in DOMAIN audit' : i \notin DOMAIN audit => \E j \in DOMAIN rows : audit'[i] = rows[j]
       /\ \A j \in DOMAIN rows : Len(audit) + j \in DOMAIN audit' /\ audit'[Len(audit) + j] = rows[j]
  BY <1>2, <1>5, <1>12, AuditGrows
<1>14. \A i \in DOMAIN audit' : i \notin DOMAIN audit =>
         \E c \in cells : audit'[i] = Row(a, c, "enrich", stored[c], after(c))
  BY <1>9, <1>13
<1>15. \A c \in cells : \E i \in DOMAIN audit' : audit'[i] = Row(a, c, "enrich", stored[c], after(c))
  BY <1>10, <1>13
<1>16. Types' /\ ProposedOnce'
  <2>1. stored' \in [Cells -> Held]
    BY <1>2, <1>4, <1>5 DEF Types
  <2>2. past' \in [Articles -> [Cells -> Held \cup {Unwritten, Overwritten}]]
    BY <1>2, <1>5, PastAfterType
  <2>3. /\ proposals' \in SUBSET [group : Groups, alias : Names, article : Articles,
                                  status : {"pending", "approved", "rejected"}]
        /\ ProposedOnce'
    BY <1>1, <1>2, NewProposals
  <2>4. others' \in 0..MaxOthers
    BY <1>1, <1>2 DEF Types
  <2> QED
    BY <1>13, <2>1, <2>2, <2>3, <2>4 DEF Types
<1>17. OnlyItsOwn'
  <2> SUFFICES ASSUME NEW i \in DOMAIN audit', audit'[i].action = "enrich"
               PROVE  /\ ~NothingToCheckAgainst
                      /\ \A v \in ToSet(audit'[i].after) \ ToSet(audit'[i].before) : v \in Onions \/
                           /\ v \notin Platforms
                           /\ v \in DOMAIN Address =>
                                /\ Address[v] \notin RentedExact
                                /\ \A r \in RentedNetworks \cup RentedSpans : Address[v] \notin r[1]..r[2]
    BY DEF OnlyItsOwn, NothingToCheckAgainst
  <2>1. CASE i \in DOMAIN audit
    <3>1. audit'[i] = audit[i]
      BY <1>13, <2>1
    <3> QED
      BY <1>2, <2>1, <3>1 DEF OnlyItsOwn
  <2>2. CASE i \notin DOMAIN audit
    <3>1. PICK c \in cells : audit'[i] = Row(a, c, "enrich", stored[c], after(c))
      BY <1>14, <2>2
    <3>2. audit'[i].after = after(c) /\ audit'[i].before = stored[c]
      BY <3>1 DEF Row
    <3> QED
      BY <1>4, <3>2, NobodyElses
  <2> QED
    BY <2>1, <2>2
<1>18. PastKnown'
  <2> SUFFICES ASSUME NEW b \in Articles, NEW c \in Cells
               PROVE  /\ past'[b][c] = Unwritten <=> Wrote(b, c)' = {}
                      /\ past'[b][c] \notin {Unwritten, Overwritten} =>
                           \A i \in Wrote(b, c)' :
                             (\A j \in Wrote(b, c)' : i <= j) => audit'[i].before = past'[b][c]
    BY DEF PastKnown
  <2>1. \A i \in DOMAIN audit : i \in Wrote(b, c)' <=> i \in Wrote(b, c)
    BY <1>13 DEF Wrote
  <2>2. \A i \in Wrote(b, c)' : i \notin DOMAIN audit =>
          b = a /\ c \in cells /\ audit'[i].before = stored[c]
    <3> SUFFICES ASSUME NEW i \in Wrote(b, c)', i \notin DOMAIN audit
                 PROVE  b = a /\ c \in cells /\ audit'[i].before = stored[c]
      OBVIOUS
    <3>1. PICK d \in cells : audit'[i] = Row(a, d, "enrich", stored[d], after(d))
      BY <1>14 DEF Wrote
    <3>2. d = c /\ a = b
      BY <3>1 DEF Wrote, Row
    <3> QED
      BY <3>1, <3>2 DEF Row
  <2>3. Overwritten # Unwritten /\ stored[c] \notin {Unwritten, Overwritten}
    BY <1>2, HeldIsNoMark DEF Types, Overwritten, Unwritten
  <2>4. \A i \in Wrote(b, c)' : i \in DOMAIN audit' /\ i \in Nat
    BY <1>13 DEF Wrote
  <2>5. \A i \in Wrote(b, c) : i \in DOMAIN audit /\ audit'[i] = audit[i] /\ i \in Wrote(b, c)'
    BY <1>13, <2>1 DEF Wrote
  <2>6. /\ past[b][c] = Unwritten <=> Wrote(b, c) = {}
        /\ past[b][c] \notin {Unwritten, Overwritten} =>
             \A i \in Wrote(b, c) : (\A j \in Wrote(b, c) : i <= j) => audit[i].before = past[b][c]
    BY <1>2 DEF PastKnown
  <2>7. CASE b # a \/ c \notin cells
    <3>1. Wrote(b, c)' = Wrote(b, c)
      BY <2>1, <2>2, <2>5, <2>7
    <3>2. \/ past'[b][c] = past[b][c]
          \/ past'[b][c] = Overwritten /\ past[b][c] # Unwritten
      BY <1>5, <2>7 DEF PastAfter
    <3> QED
      BY <2>3, <2>5, <2>6, <3>1, <3>2
  <2>8. CASE b = a /\ c \in cells
    <3>1. past'[b][c] = IF past[b][c] = Unwritten THEN stored[c] ELSE past[b][c]
      BY <1>5, <2>8 DEF PastAfter
    <3>2. PICK n \in DOMAIN audit' : audit'[n] = Row(a, c, "enrich", stored[c], after(c))
      BY <1>15, <2>8
    <3>3. n \in Wrote(b, c)'
      BY <2>8, <3>2 DEF Wrote, Row
    <3>4. CASE past[b][c] = Unwritten
      <4>1. Wrote(b, c) = {}
        BY <2>6, <3>4
      <4>2. \A i \in Wrote(b, c)' : audit'[i].before = stored[c]
        BY <2>1, <2>2, <4>1
      <4> QED
        BY <2>3, <3>1, <3>3, <3>4, <4>2
    <3>5. CASE past[b][c] # Unwritten
      <4>1. PICK k \in Wrote(b, c) : TRUE
        BY <2>6, <3>5
      <4>2. ASSUME NEW i \in Wrote(b, c)', \A j \in Wrote(b, c)' : i <= j
            PROVE  i \in Wrote(b, c) /\ \A j \in Wrote(b, c) : i <= j
        <5>1. i <= k /\ i \in DOMAIN audit' /\ k \in DOMAIN audit
          BY <2>4, <2>5, <4>1, <4>2
        <5>2. i \in DOMAIN audit
          BY <1>13, <5>1
        <5> QED
          BY <2>1, <2>5, <4>2, <5>2
      <4> QED
        BY <2>5, <2>6, <3>1, <3>3, <3>5, <4>2
    <3> QED
      BY <3>4, <3>5
  <2> QED
    BY <2>7, <2>8
<1> QED
  BY <1>16, <1>17, <1>18 DEF IInv

-----------------------------------------------------------------------------
(* An article's enrichment is taken back.                                  *)

Rows(a) == {i \in DOMAIN audit : audit[i].article = a /\ audit[i].action = "enrich"}

\* revert.py: all the article's rows, each once, the newest first.
LEMMA NewestFirstOrder ==
  ASSUME Types, NEW a \in Articles
  PROVE  /\ Len(NewestFirst(a)) \in Nat /\ DOMAIN NewestFirst(a) = 1..Len(NewestFirst(a))
         /\ \A i \in 1..Len(NewestFirst(a)) : NewestFirst(a)[i] \in Rows(a)
         /\ \A i, j \in 1..Len(NewestFirst(a)) : i < j => NewestFirst(a)[i] > NewestFirst(a)[j]
         /\ \A x \in Rows(a) : \E i \in 1..Len(NewestFirst(a)) : NewestFirst(a)[i] = x
<1> DEFINE s == InOrder(Rows(a))
           k == Cardinality(Rows(a))
<1>1. Len(audit) \in Nat /\ Rows(a) \in SUBSET (1..Len(audit))
  BY DEF Types, Rows
<1>2. /\ k \in Nat /\ s \in [1..k -> Rows(a)]
      /\ \A i, j \in 1..k : i < j => s[i] < s[j]
      /\ \A x \in Rows(a) : \E i \in 1..k : s[i] = x
  BY <1>1, InOrderIsOrdered
<1>3. RowsOf(a) = s
  BY DEF RowsOf, Rows
<1> HIDE DEF s, k
<1>4. Len(s) = k
  BY <1>2
<1>5. NewestFirst(a) = [i \in 1..k |-> s[(k - i) + 1]]
  BY <1>3, <1>4 DEF NewestFirst, Reverse
<1>6. \A i \in 1..k : (k - i) + 1 \in 1..k
  BY <1>2
<1>7. Len(NewestFirst(a)) = k /\ DOMAIN NewestFirst(a) = 1..k
  BY <1>2, <1>5
<1>8. \A i \in 1..k : NewestFirst(a)[i] \in Rows(a)
  BY <1>2, <1>5, <1>6
<1>9. ASSUME NEW i \in 1..k, NEW j \in 1..k, i < j PROVE NewestFirst(a)[i] > NewestFirst(a)[j]
  <2>1. (k - j) + 1 < (k - i) + 1
    BY <1>2, <1>9
  <2>2. s[(k - j) + 1] < s[(k - i) + 1]
    BY <1>2, <1>6, <2>1
  <2> QED
    BY <1>5, <2>2
<1>10. ASSUME NEW x \in Rows(a) PROVE \E i \in 1..k : NewestFirst(a)[i] = x
  <2>1. PICK i \in 1..k : s[i] = x
    BY <1>2
  <2>2. (k - i) + 1 \in 1..k /\ (k - ((k - i) + 1)) + 1 = i
    BY <1>2
  <2> QED
    BY <1>5, <2>1, <2>2
<1> QED
  BY <1>2, <1>7, <1>8, <1>9, <1>10

LEMMA AuditRows ==
  ASSUME Types
  PROVE  \A i \in DOMAIN audit : audit[i].cell \in Cells /\ audit[i].before \in Held
<1>1. \A i \in DOMAIN audit : audit[i] \in AuditRow
  BY DEF Types
<1> QED
  BY <1>1 DEF AuditRow

\* What a field holds while the rows are written back.
LEMMA WrittenBackType ==
  ASSUME Types, NEW a \in Articles, NEW n \in 0..Len(NewestFirst(a)), NEW c \in Cells
  PROVE  WrittenBack(NewestFirst(a), n, c) \in Held
<1> DEFINE rows == NewestFirst(a)
           wrote == {i \in 1..n : audit[rows[i]].cell = c}
<1>1. Len(rows) \in Nat /\ \A i \in 1..Len(rows) : rows[i] \in Rows(a)
  BY NewestFirstOrder
<1>2. \A i \in DOMAIN audit : audit[i].before \in Held
  BY AuditRows
<1>3. ASSUME wrote # {} PROVE audit[rows[Max(wrote)]].before \in Held
  <2>1. n \in Nat /\ wrote \in SUBSET (0..n)
    BY <1>1
  <2>2. Max(wrote) \in wrote
    <3> HIDE DEF wrote
    <3> QED BY <1>3, <2>1, MaxIsGreatest
  <2>3. Max(wrote) \in 1..Len(rows)
    BY <1>1, <2>2
  <2>4. rows[Max(wrote)] \in DOMAIN audit
    BY <1>1, <2>3 DEF Rows
  <2> QED
    BY <1>2, <2>4
<1> HIDE DEF rows
<1> QED
  BY <1>3 DEF WrittenBack, Types, rows

\* And in the end: what the article's first row about it found.
LEMMA WrittenBackAll ==
  ASSUME Types, NEW a \in Articles, NEW c \in Cells
  PROVE  LET held == WrittenBack(NewestFirst(a), Len(NewestFirst(a)), c)
         IN  /\ Wrote(a, c) = {} => held = stored[c]
             /\ Wrote(a, c) # {} =>
                  \E i \in Wrote(a, c) : (\A j \in Wrote(a, c) : i <= j) /\ held = audit[i].before
<1> DEFINE rows == NewestFirst(a)
           n == Len(rows)
           wrote == {i \in 1..n : audit[rows[i]].cell = c}
<1>1. /\ n \in Nat
      /\ \A i \in 1..n : rows[i] \in Rows(a)
      /\ \A i, j \in 1..n : i < j => rows[i] > rows[j]
      /\ \A x \in Rows(a) : \E i \in 1..n : rows[i] = x
  BY NewestFirstOrder
<1>2. \A x \in Rows(a) : x \in Nat
  BY DEF Rows, Types
<1>3. Wrote(a, c) = {x \in Rows(a) : audit[x].cell = c}
  BY DEF Wrote, Rows
<1> HIDE DEF rows, n
<1>4. WrittenBack(NewestFirst(a), Len(NewestFirst(a)), c)
        = IF wrote = {} THEN stored[c] ELSE audit[rows[Max(wrote)]].before
  BY DEF WrittenBack, rows, n
<1>5. CASE Wrote(a, c) = {}
  <2>1. wrote = {}
    BY <1>1, <1>3, <1>5
  <2> QED
    BY <1>4, <1>5, <2>1
<1>6. CASE Wrote(a, c) # {}
  <2>1. wrote # {}
    BY <1>1, <1>3, <1>6
  <2>2. wrote \in SUBSET (0..n)
    BY <1>1
  <2>3. Max(wrote) \in wrote /\ \A y \in wrote : y <= Max(wrote)
    <3> HIDE DEF wrote
    <3> QED BY <1>1, <2>1, <2>2, MaxIsGreatest
  <2> DEFINE m == Max(wrote)
  <2>4. m \in 1..n /\ audit[rows[m]].cell = c /\ \A y \in wrote : y <= m
    BY <2>3
  <2> HIDE DEF m
  <2>5. rows[m] \in Wrote(a, c)
    BY <1>1, <1>3, <2>4
  <2>6. ASSUME NEW x \in Wrote(a, c) PROVE rows[m] <= x
    <3>1. PICK i \in 1..n : rows[i] = x
      BY <1>1, <1>3
    <3>2. i \in wrote
      BY <1>3, <3>1
    <3>3. i <= m
      BY <2>4, <3>2
    <3>4. x \in Nat /\ rows[m] \in Nat
      BY <1>2, <1>3, <2>5
    <3> QED
      BY <1>1, <2>4, <3>1, <3>3, <3>4
  <2> QED
    BY <1>4, <1>6, <2>1, <2>5, <2>6 DEF m
<1> QED
  BY <1>5, <1>6

LEMMA RevertKeeps ==
  ASSUME IInv, NEW a \in Articles, Revert(a)
  PROVE  IInv'
<1> DEFINE rows == NewestFirst(a)
           back(n, c) == WrittenBack(rows, n, c)
           new == [i \in DOMAIN rows |->
                     LET r == audit[rows[i]]
                     IN  Row(a, r.cell, "revert", back(i - 1, r.cell), r.before)]
<1>1. Types /\ PastKnown /\ ProposedOnce /\ OnlyItsOwn
  BY DEF IInv
<1>2. /\ stored' = [c \in Cells |-> back(Len(rows), c)]
      /\ audit' = audit \o new
      /\ past' = PastAfter(a, {c \in Cells : stored'[c] # stored[c]})
      /\ UNCHANGED <<proposals, others>>
  BY DEF Revert
<1>3. /\ Len(rows) \in Nat /\ DOMAIN rows = 1..Len(rows)
      /\ \A i \in 1..Len(rows) : rows[i] \in Rows(a)
  BY <1>1, NewestFirstOrder
<1>4. \A n \in 0..Len(rows), c \in Cells : back(n, c) \in Held
  BY <1>1, WrittenBackType
<1>5. \A c \in Cells : Wrote(a, c) = {} => back(Len(rows), c) = stored[c]
  BY <1>1, WrittenBackAll
<1> HIDE DEF rows, back
<1>6. \A i \in DOMAIN audit : audit[i].cell \in Cells /\ audit[i].before \in Held
  BY <1>1, AuditRows
<1>7. \A i \in 1..Len(rows) : new[i] \in AuditRow /\ new[i].action = "revert"
  <2> SUFFICES ASSUME NEW i \in 1..Len(rows) PROVE new[i] \in AuditRow /\ new[i].action = "revert"
    OBVIOUS
  <2> DEFINE r == audit[rows[i]]
  <2>1. r.cell \in Cells /\ r.before \in Held
    BY <1>3, <1>6 DEF Rows
  <2>2. i - 1 \in 0..Len(rows)
    BY <1>3
  <2>3. back(i - 1, r.cell) \in Held
    BY <1>4, <2>1, <2>2
  <2>4. new[i] = Row(a, r.cell, "revert", back(i - 1, r.cell), r.before)
    BY <1>3
  <2> HIDE DEF r, new
  <2> QED
    BY <2>1, <2>3, <2>4 DEF Row, AuditRow
<1>8. new \in Seq(AuditRow) /\ DOMAIN new = 1..Len(rows)
  <2>1. DOMAIN new = 1..Len(rows)
    BY <1>3
  <2> QED
    BY <1>3, <1>7, <2>1
<1> HIDE DEF new
<1>9. /\ audit' \in Seq(AuditRow) /\ DOMAIN audit = 1..Len(audit)
      /\ \A i \in 1..Len(audit) : i \in DOMAIN audit' /\ audit'[i] = audit[i]
      /\ \A i \in DOMAIN audit' : i \notin DOMAIN audit => \E j \in DOMAIN new : audit'[i] = new[j]
  BY <1>1, <1>2, <1>8, AuditGrows
<1>10. \A i \in DOMAIN audit' : audit'[i].action = "enrich" => i \in DOMAIN audit /\ audit'[i] = audit[i]
  BY <1>7, <1>8, <1>9
<1>11. Types'
  <2>1. stored' \in [Cells -> Held]
    BY <1>2, <1>3, <1>4
  <2>2. past' \in [Articles -> [Cells -> Held \cup {Unwritten, Overwritten}]]
    BY <1>1, <1>2, PastAfterType
  <2> QED
    BY <1>1, <1>2, <1>9, <2>1, <2>2 DEF Types
<1>12. PastKnown'
  <2> SUFFICES ASSUME NEW b \in Articles, NEW c \in Cells
               PROVE  /\ past'[b][c] = Unwritten <=> Wrote(b, c)' = {}
                      /\ past'[b][c] \notin {Unwritten, Overwritten} =>
                           \A i \in Wrote(b, c)' :
                             (\A j \in Wrote(b, c)' : i <= j) => audit'[i].before = past'[b][c]
    BY DEF PastKnown
  <2>1. Wrote(b, c)' = Wrote(b, c) /\ \A i \in Wrote(b, c) : audit'[i] = audit[i]
    BY <1>9, <1>10 DEF Wrote
  <2>2. Overwritten # Unwritten
    BY DEF Overwritten, Unwritten
  <2>3. /\ past[b][c] = Unwritten <=> Wrote(b, c) = {}
        /\ past[b][c] \notin {Unwritten, Overwritten} =>
             \A i \in Wrote(b, c) : (\A j \in Wrote(b, c) : i <= j) => audit[i].before = past[b][c]
    BY <1>1 DEF PastKnown
  <2>4. stored'[c] # stored[c] => Wrote(a, c) # {}
    BY <1>2, <1>5
  <2>5. \/ past'[b][c] = past[b][c]
        \/ past'[b][c] = Overwritten /\ past[b][c] # Unwritten
    BY <1>2, <2>3, <2>4 DEF PastAfter
  <2> QED
    BY <2>1, <2>2, <2>3, <2>5
<1>13. ProposedOnce'
  BY <1>1, <1>2 DEF ProposedOnce
<1>14. OnlyItsOwn'
  BY <1>1, <1>10 DEF OnlyItsOwn, NothingToCheckAgainst
<1> QED
  BY <1>11, <1>12, <1>13, <1>14 DEF IInv

-----------------------------------------------------------------------------
\* A person decides.
LEMMA ReviewKeeps ==
  ASSUME IInv, NEW p \in proposals, NEW status \in {"approved", "rejected"}, Review(p, status)
  PROVE  IInv'
<1> DEFINE q == [p EXCEPT !.status = status]
<1>1. proposals' = (proposals \ {p}) \cup {q} /\ UNCHANGED <<stored, audit, others, past>>
  BY DEF Review
<1>2. p \in [group : Groups, alias : Names, article : Articles,
             status : {"pending", "approved", "rejected"}]
  BY DEF IInv, Types
<1>3. /\ q \in [group : Groups, alias : Names, article : Articles,
                status : {"pending", "approved", "rejected"}]
      /\ q.group = p.group /\ q.alias = p.alias
  BY <1>2
<1> HIDE DEF q
<1>4. Types' /\ OnlyItsOwn' /\ PastKnown'
  BY <1>1, <1>3 DEF IInv, Types, OnlyItsOwn, PastKnown, Wrote
<1>5. ProposedOnce'
  BY <1>1, <1>3 DEF IInv, ProposedOnce
<1> QED
  BY <1>4, <1>5 DEF IInv

LEMMA EnrichmentInit == Init => IInv
<1> SUFFICES ASSUME Init PROVE IInv
  OBVIOUS
<1>1. <<>> \in Held /\ <<>> \in Seq(AuditRow)
  BY DEF Held, IsInjective
<1>2. Types
  BY <1>1, EnrichmentAssumption DEF Init, Types
<1>3. PastKnown
  <2>1. \A a \in Articles, c \in Cells : Wrote(a, c) = {} /\ past[a][c] = Unwritten
    BY DEF Init, Wrote
  <2> QED
    BY <2>1 DEF PastKnown
<1>4. ProposedOnce /\ OnlyItsOwn
  BY DEF Init, ProposedOnce, OnlyItsOwn
<1> QED
  BY <1>2, <1>3, <1>4 DEF IInv

LEMMA EnrichmentStep == IInv /\ [Next]_vars => IInv'
<1> SUFFICES ASSUME IInv, [Next]_vars PROVE IInv'
  OBVIOUS
<1>1. CASE UNCHANGED vars
  BY <1>1 DEF vars, IInv, Types, PastKnown, Wrote, ProposedOnce, OnlyItsOwn
<1>2. CASE \E a \in Articles : Enrich(a) \/ Revert(a)
  BY <1>2, EnrichKeeps, RevertKeeps
<1>3. CASE \E p \in proposals, s \in {"approved", "rejected"} : Review(p, s)
  BY <1>3, ReviewKeeps
<1>4. CASE \E c \in Cells : FeedOverwrites(c)
  BY <1>4, FeedKeeps
<1>5. CASE Ransomwhere
  BY <1>5, RansomwhereKeeps
<1> QED
  BY <1>1, <1>2, <1>3, <1>4, <1>5 DEF Next

LEMMA EnrichmentInvariant == Spec => []IInv
  BY EnrichmentInit, EnrichmentStep, PTL DEF Spec

-----------------------------------------------------------------------------
(* The theorems.                                                           *)

\* The types of the variables, and no array ever holds an item twice, whoever
\* appended to it and however often (apply.py, ransomwhere.py).
THEOREM TypeCorrect == Spec => []TypeOK
<1>1. IInv => TypeOK
  <2> SUFFICES ASSUME IInv PROVE TypeOK
    OBVIOUS
  <2>1. \A c \in Cells : stored[c] \in Held
    BY DEF IInv, Types
  <2>2. \A i \in DOMAIN audit : audit[i] \in AuditRow
    BY DEF IInv, Types
  <2> QED
    BY <2>1, <2>2 DEF IInv, Types, TypeOK, Held, AuditRow
<1> QED
  BY <1>1, EnrichmentInvariant, PTL

\* exclusions.py, gate.py: no article appends what somebody else publishes as
\* theirs or rents out, whatever the published ranges and the indicators.
THEOREM AppendsOnlyItsOwn == Spec => []OnlyItsOwn
<1>1. IInv => OnlyItsOwn
  BY DEF IInv
<1> QED
  BY <1>1, EnrichmentInvariant, PTL

\* apply.py: a person is asked once about an alias.
THEOREM AsksOnce == Spec => []ProposedOnce
<1>1. IInv => ProposedOnce
  BY DEF IInv
<1> QED
  BY <1>1, EnrichmentInvariant, PTL

\* revert.py: a revert restores what the article found before it first wrote,
\* however many passes wrote since.
THEOREM RevertsRestore == Spec => RevertRestores
<1>1. ASSUME IInv, NEW a \in Articles, Revert(a), NEW c \in Cells,
             past[a][c] \notin {Unwritten, Overwritten}
      PROVE  stored'[c] = past[a][c]
  <2>1. Wrote(a, c) # {}
    BY <1>1 DEF IInv, PastKnown
  <2>2. stored'[c] = WrittenBack(NewestFirst(a), Len(NewestFirst(a)), c)
    BY <1>1 DEF Revert
  <2>3. PICK i \in Wrote(a, c) : (\A j \in Wrote(a, c) : i <= j) /\ stored'[c] = audit[i].before
    BY <1>1, <2>1, <2>2, WrittenBackAll DEF IInv
  <2> QED
    BY <1>1, <2>3 DEF IInv, PastKnown
<1>2. IInv => [\A a \in Articles : Revert(a) =>
                 \A c \in Cells : past[a][c] \notin {Unwritten, Overwritten} => stored'[c] = past[a][c]]_vars
  BY <1>1
<1> QED
  BY <1>2, EnrichmentInvariant, PTL DEF RevertRestores
=============================================================================
