----------------------------- MODULE FindingsProofs ----------------------------
(***************************************************************************)
(* What holds of the findings.  Of grounding, for any bodies, indicators,  *)
(* catalogues and answers: what is stored stands in the body that was read *)
(* and what stands in it is not refused.  Of the gate, for every set of    *)
(* articles, every analysis, every tuning and every number of gatings and  *)
(* interventions.                                                          *)
(***************************************************************************)
EXTENDS Grounding, ConfidenceGate, SequenceTheorems, WellFoundedInduction, TLAPS

-----------------------------------------------------------------------------
(* Numbers, and loops.                                                     *)

\* A nonempty set of naturals has a least member.
LEMMA Least ==
  ASSUME NEW S \in SUBSET Nat, S # {}
  PROVE  \E i \in S : \A j \in S : i <= j
<1> DEFINE R == {ss \in Nat \X Nat : ss[1] < ss[2]}
<1>1. IsWellFoundedOn(R, Nat)
  BY NatLessThanWellFounded DEF OpToRel
<1>2. PICK i \in S : \A j \in S : ~ (<<j, i>> \in R)
  <2> HIDE DEF R
  <2> QED BY <1>1, WFMin
<1>3. \A j \in S : i <= j
  <2> TAKE j \in S
  <2>1. <<j, i>> \in Nat \X Nat /\ <<j, i>>[1] = j /\ <<j, i>>[2] = i
    OBVIOUS
  <2>2. ~(<<j, i>>[1] < <<j, i>>[2])
    BY <1>2, <2>1, Zenon
  <2> QED BY <2>1, <2>2
<1> QED BY <1>3

\* Induction, for a set.
LEMMA AllNaturals ==
  ASSUME NEW X, 0 \in X, \A n \in Nat : n \in X => n + 1 \in X
  PROVE  \A n \in Nat : n \in X
<1> SUFFICES ASSUME Nat \ X # {} PROVE FALSE
  OBVIOUS
<1>1. PICK m \in Nat \ X : \A j \in Nat \ X : m <= j
  BY Least
<1>2. m # 0 /\ m - 1 \in Nat /\ m - 1 \in X
  BY <1>1
<1> QED
  BY <1>1, <1>2

\* A loop over n steps on states of a set has a result in it.
LEMMA LoopRuns ==
  ASSUME NEW G, NEW base \in G, NEW n \in Nat, NEW step \in [1..n -> [G -> G]]
  PROVE  \E st \in [0..n -> G] : st[0] = base /\ \A i \in 1..n : st[i] = step[i][st[i - 1]]
<1> DEFINE Runs(m) == \E st \in [0..m -> G] : st[0] = base /\ \A i \in 1..m : st[i] = step[i][st[i - 1]]
           X == {m \in Nat : m <= n => Runs(m)}
<1>1. 0 \in X
  <2> DEFINE st == [i \in 0..0 |-> base]
  <2>1. st \in [0..0 -> G] /\ st[0] = base /\ \A i \in 1..0 : st[i] = step[i][st[i - 1]]
    OBVIOUS
  <2> HIDE DEF st
  <2>2. Runs(0)
    BY <2>1
  <2> QED
    BY <2>2
<1>2. ASSUME NEW m \in Nat, m \in X PROVE m + 1 \in X
  <2> SUFFICES ASSUME m + 1 <= n PROVE Runs(m + 1)
    BY <1>2
  <2>1. Runs(m)
    BY <1>2
  <2>2. PICK st \in [0..m -> G] : st[0] = base /\ \A i \in 1..m : st[i] = step[i][st[i - 1]]
    BY <2>1
  <2>3. m \in 0..m /\ m + 1 \in 1..n /\ st[m] \in G /\ step[m + 1][st[m]] \in G
    BY <2>2
  <2> DEFINE new == [i \in 0..(m + 1) |-> IF i = m + 1 THEN step[m + 1][st[m]] ELSE st[i]]
  <2>4. \A i \in 0..(m + 1) : i # m + 1 => i \in 0..m
    OBVIOUS
  <2>5. new \in [0..(m + 1) -> G]
    BY <2>2, <2>3, <2>4
  <2>6. new[0] = base
    BY <2>2
  <2>7. ASSUME NEW i \in 1..(m + 1) PROVE new[i] = step[i][new[i - 1]]
    <3>1. i \in 0..(m + 1) /\ i - 1 \in 0..(m + 1) /\ i - 1 # m + 1
      OBVIOUS
    <3>2. new[i - 1] = st[i - 1]
      BY <3>1
    <3>3. CASE i = m + 1
      BY <3>1, <3>2, <3>3
    <3>4. CASE i # m + 1
      <4>1. i \in 1..m
        BY <3>4
      <4> QED
        BY <2>2, <3>1, <3>2, <3>4, <4>1
    <3> QED
      BY <3>3, <3>4
  <2> HIDE DEF new
  <2> QED
    BY <2>5, <2>6, <2>7
<1>3. n \in X
  <2> HIDE DEF X
  <2> QED BY <1>1, <1>2, AllNaturals
<1> QED
  BY <1>3


\* The same, of every loop.
RunsLoop(st, G, base, n, step) ==
  st \in [0..n -> G] /\ st[0] = base /\ \A i \in 1..n : st[i] = step[i][st[i - 1]]
Steps(G, n) == [1..n -> [G -> G]]

LEMMA LoopsRun ==
  \A G, n, base, step : n \in Nat /\ base \in G /\ step \in Steps(G, n) =>
    \E st : RunsLoop(st, G, base, n, step)
<1> SUFFICES ASSUME NEW G, NEW n \in Nat, NEW base \in G, NEW step \in [1..n -> [G -> G]]
             PROVE  \E st : RunsLoop(st, G, base, n, step)
  BY DEF Steps
<1>1. PICK st \in [0..n -> G] : st[0] = base /\ \A i \in 1..n : st[i] = step[i][st[i - 1]]
  BY LoopRuns
<1> QED
  BY <1>1 DEF RunsLoop

\* Positions have a first and a last.
LEMMA MinIsFirst ==
  ASSUME NEW S \in SUBSET Nat, S # {}
  PROVE  Min(S) \in S /\ \A j \in S : Min(S) <= j
<1> DEFINE IsMin(x) == x \in S /\ \A y \in S : x =< y
<1>1. \E x : IsMin(x)
  BY Least
<1>2. IsMin(CHOOSE x : IsMin(x))
  <2> HIDE DEF IsMin
  <2> QED BY <1>1
<1>3. Min(S) = CHOOSE x : IsMin(x)
  BY DEF Min
<1> QED
  BY <1>2, <1>3

LEMMA MaxIsLast ==
  ASSUME NEW n \in Nat, NEW S \in SUBSET (1..n), S # {}
  PROVE  Max(S) \in S
<1> DEFINE IsMax(x) == x \in S /\ \A y \in S : x >= y
           T == {n - y : y \in S}
<1>1. T \in SUBSET Nat /\ T # {}
  <2>1. \A y \in S : n - y \in Nat
    OBVIOUS
  <2>2. PICK y \in S : TRUE
    OBVIOUS
  <2>3. n - y \in T
    OBVIOUS
  <2> QED BY <2>1, <2>3
<1>2. PICK m \in T : \A k \in T : m <= k
  <2> HIDE DEF T
  <2> QED BY <1>1, Least
<1>3. PICK x \in S : m = n - x
  BY <1>2
<1>4. \A y \in S : x >= y
  <2> TAKE y \in S
  <2>1. n - y \in T
    OBVIOUS
  <2> QED BY <1>2, <1>3, <2>1
<1>5. \E z : IsMax(z)
  BY <1>4
<1>6. IsMax(CHOOSE z : IsMax(z))
  <2> HIDE DEF IsMax
  <2> QED BY <1>5
<1>7. Max(S) = CHOOSE z : IsMax(z)
  BY DEF Max
<1> QED
  BY <1>6, <1>7

\* What satisfies a loop's equations is its result, and stays in the set.
LEMMA LoopStays ==
  \A G, n, base, step, up :
    /\ n \in Nat /\ base \in G /\ step \in Steps(G, n) /\ up[0] = base
    /\ \A i \in 1..n : up[i - 1] \in G => up[i] = step[i][up[i - 1]]
    => \A i \in 0..n : up[i] \in G
<1> SUFFICES ASSUME NEW G, NEW n \in Nat, NEW base \in G, NEW step \in Steps(G, n), NEW up, up[0] = base,
                    \A i \in 1..n : up[i - 1] \in G => up[i] = step[i][up[i - 1]]
             PROVE  \A i \in 0..n : up[i] \in G
  OBVIOUS
<1> DEFINE X == {i \in Nat : i <= n => up[i] \in G}
<1>1. 0 \in X
  OBVIOUS
<1>2. ASSUME NEW i \in Nat, i \in X PROVE i + 1 \in X
  <2> SUFFICES ASSUME i + 1 <= n PROVE up[i + 1] \in G
    OBVIOUS
  <2>1. i + 1 \in 1..n /\ (i + 1) - 1 = i /\ up[i] \in G
    BY <1>2
  <2>2. up[i + 1] = step[i + 1][up[i]]
    BY <2>1
  <2> QED BY <2>1, <2>2 DEF Steps
<1>3. \A i \in Nat : i \in X
  <2> HIDE DEF X
  <2> QED BY <1>1, <1>2, AllNaturals
<1> QED BY <1>3

-----------------------------------------------------------------------------
(* The normal text, and the way back.                                      *)

Place == [char : Characters, at : Nat \ {0}]

\* One more character of the body.
Emitted(n, raw, i) ==
  IF raw[i] = Invisible THEN n
  ELSE IF raw[i] # Blank /\ ~IsMarker(raw, i)
       THEN Append(n, [char |-> refang(raw[i]), at |-> i])
       ELSE IF n = <<>> \/ Last(n).char = Blank THEN n
       ELSE Append(n, [char |-> Blank, at |-> i])

\* The places of a text go forward, and no further than i.
Forward(n, i) == /\ \A k \in DOMAIN n : n[k].at <= i
                 /\ \A k, l \in DOMAIN n : k < l => n[k].at < n[l].at

\* Each character emitted has a place in the body.
LEMMA EmittedIsPlaces ==
  ASSUME NEW n \in Seq(Place), NEW raw \in Text, NEW i \in 1..Len(raw)
  PROVE  Emitted(n, raw, i) \in Seq(Place)
<1>1. Len(raw) \in Nat /\ raw[i] \in Characters /\ refang(raw[i]) \in Characters /\ Blank \in Characters
  BY DEF Text, Characters, refang
<1>2. i \in Nat \ {0}
  BY <1>1
<1>3. [char |-> refang(raw[i]), at |-> i] \in Place /\ [char |-> Blank, at |-> i] \in Place
  BY <1>1, <1>2 DEF Place
<1> HIDE DEF Place
<1> QED BY <1>3 DEF Emitted

\* It comes after those emitted before.
LEMMA EmittedGoesForward ==
  ASSUME NEW n \in Seq(Place), NEW raw, NEW i \in Nat, Forward(n, i)
  PROVE  Forward(Emitted(n, raw, i + 1), i + 1)
<1>1. \A k \in DOMAIN n : k \in 1..Len(n) /\ n[k].at \in Nat /\ n[k].at <= i
  <2>1. \A k \in DOMAIN n : k \in 1..Len(n) /\ n[k] \in Place
    OBVIOUS
  <2>2. \A p \in Place : p.at \in Nat
    BY DEF Place
  <2> QED BY <2>1, <2>2 DEF Forward
<1>2. Forward(n, i + 1)
  BY <1>1 DEF Forward
<1>3. ASSUME NEW c PROVE Forward(Append(n, [char |-> c, at |-> i + 1]), i + 1)
  <2> DEFINE m == Append(n, [char |-> c, at |-> i + 1])
  <2>1. Len(n) \in Nat /\ DOMAIN m = 1..(Len(n) + 1) /\ \A k \in 1..Len(n) : k \in DOMAIN n /\ m[k] = n[k]
    OBVIOUS
  <2>2. m[Len(n) + 1].at = i + 1
    OBVIOUS
  <2> HIDE DEF m
  <2>3. \A k \in DOMAIN m : m[k].at <= i + 1
    BY <1>1, <2>1, <2>2
  <2>4. ASSUME NEW k \in DOMAIN m, NEW l \in DOMAIN m, k < l PROVE m[k].at < m[l].at
    <3>1. k \in 1..Len(n)
      BY <2>1, <2>4
    <3>2. CASE l = Len(n) + 1
      BY <1>1, <2>1, <2>2, <3>1, <3>2
    <3>3. CASE l # Len(n) + 1
      <4>1. l \in 1..Len(n)
        BY <2>1, <3>3
      <4> QED BY <2>1, <2>4, <3>1, <4>1 DEF Forward
    <3> QED BY <3>2, <3>3
  <2> QED BY <2>3, <2>4 DEF Forward, m
<1> QED BY <1>2, <1>3 DEF Emitted

\* The normal text is a sequence of places that go forward.
LEMMA NormalIs ==
  ASSUME NEW raw \in Text
  PROVE  Normal(raw) \in Seq(Place) /\ Forward(Normal(raw), Len(raw))
<1> DEFINE m == Len(raw)
           IsLoop(s) == s = [i \in 0..m |-> IF i = 0 THEN <<>> ELSE Emitted(s[i - 1], raw, i)]
           up == CHOOSE s : IsLoop(s)
           step == [i \in 1..m |-> [n \in Seq(Place) |-> Emitted(n, raw, i)]]
<1>1. m \in Nat
  BY DEF Text
<1>2. <<>> \in Seq(Place)
  OBVIOUS
<1>3. step \in Steps(Seq(Place), m)
  BY EmittedIsPlaces DEF Steps
<1> HIDE DEF m
<1>4. PICK s : RunsLoop(s, Seq(Place), <<>>, m, step)
  <2> HIDE DEF step
  <2> QED BY <1>1, <1>2, <1>3, LoopsRun, Zenon
<1>5. IsLoop(s)
  <2>1. s \in [0..m -> Seq(Place)] /\ s[0] = <<>> /\ \A i \in 1..m : s[i] = step[i][s[i - 1]]
    <3> HIDE DEF step
    <3> QED BY <1>4 DEF RunsLoop
  <2>2. ASSUME NEW i \in 0..m, i # 0 PROVE s[i] = Emitted(s[i - 1], raw, i)
    <3>1. i \in 1..m /\ i - 1 \in 0..m
      BY <1>1, <2>2
    <3> QED BY <2>1, <3>1
  <2> QED BY <2>1, <2>2
<1>6. IsLoop(up)
  <2> HIDE DEF IsLoop
  <2> QED BY <1>5
<1>7. Normal(raw) = up[m]
  BY DEF Normal, Emitted, m, up, IsLoop
<1> HIDE DEF up
<1>8. \A i \in 0..m : up[i] = IF i = 0 THEN <<>> ELSE Emitted(up[i - 1], raw, i)
  BY <1>6
<1> HIDE DEF IsLoop
<1>9. up[0] = <<>> /\ \A i \in 1..m : up[i] = Emitted(up[i - 1], raw, i)
  <2>1. 0 \in 0..m /\ \A i \in 1..m : i \in 0..m /\ i # 0
    BY <1>1
  <2> QED BY <1>8, <2>1
<1>10. \A i \in 0..m : up[i] \in Seq(Place)
  <2>1. \A i \in 1..m : up[i - 1] \in Seq(Place) => up[i] = step[i][up[i - 1]]
    BY <1>9
  <2> HIDE DEF step
  <2> QED BY <1>1, <1>2, <1>3, <1>9, <2>1, LoopStays, Zenon
<1> DEFINE X == {i \in Nat : i <= m => Forward(up[i], i)}
<1>11. 0 \in X
  BY <1>9 DEF Forward
<1>12. ASSUME NEW i \in Nat, i \in X PROVE i + 1 \in X
  <2> SUFFICES ASSUME i + 1 <= m PROVE Forward(up[i + 1], i + 1)
    OBVIOUS
  <2>1. i \in 0..m /\ i + 1 \in 1..m /\ (i + 1) - 1 = i /\ Forward(up[i], i)
    BY <1>1, <1>12
  <2>2. up[i + 1] = Emitted(up[i], raw, i + 1)
    BY <1>9, <2>1
  <2> QED BY <1>10, <2>1, <2>2, EmittedGoesForward
<1>13. \A i \in Nat : i \in X
  <2> HIDE DEF X
  <2> QED BY <1>11, <1>12, AllNaturals
<1> QED BY <1>1, <1>7, <1>10, <1>13 DEF m

\* Its characters are a text of the same length.
LEMMA CharsIs ==
  ASSUME NEW n \in Seq(Place)
  PROVE  Chars(n) \in Text /\ Len(Chars(n)) = Len(n) /\ DOMAIN Chars(n) = DOMAIN n
<1>1. \A p \in Place : p.char \in Characters
  BY DEF Place
<1>2. Len(n) \in Nat /\ DOMAIN n = 1..Len(n) /\ \A i \in DOMAIN n : n[i] \in Place
  OBVIOUS
<1>3. Chars(n) \in [1..Len(n) -> Characters]
  BY <1>1, <1>2 DEF Chars
<1>4. Chars(n) \in Seq(Characters)
  BY <1>2, <1>3
<1> QED BY <1>2, <1>3, <1>4 DEF Text

\* A stripped text is a text.
LEMMA StripIs ==
  ASSUME NEW t \in Text
  PROVE  strip(t) \in Text
<1> DEFINE solid == {i \in DOMAIN t : t[i] # Blank}
<1>1. Len(t) \in Nat /\ DOMAIN t = 1..Len(t) /\ \A i \in DOMAIN t : t[i] \in Characters
  BY DEF Text
<1>2. CASE solid = {}
  BY <1>2 DEF strip, Text
<1>3. CASE solid # {}
  <2>1. solid \in SUBSET (1..Len(t)) /\ solid \in SUBSET Nat
    BY <1>1
  <2>2. Min(solid) \in 1..Len(t) /\ Max(solid) \in 1..Len(t)
    <3> HIDE DEF solid
    <3>1. Min(solid) \in solid
      BY <1>3, <2>1, MinIsFirst
    <3>2. Max(solid) \in solid
      BY <1>1, <1>3, <2>1, MaxIsLast
    <3> QED BY <2>1, <3>1, <3>2
  <2>3. strip(t) = SubSeq(t, Min(solid), Max(solid))
    BY <1>3 DEF strip
  <2> HIDE DEF solid
  <2>4. Min(solid) \in Int /\ Max(solid) \in Int /\ \A i \in Min(solid)..Max(solid) : t[i] \in Characters
    BY <1>1, <2>2
  <2>5. SubSeq(t, Min(solid), Max(solid)) \in Seq(Characters)
    BY <2>4, SubSeqProperties
  <2> QED BY <2>3, <2>5 DEF Text
<1> QED BY <1>2, <1>3

\* So is what is looked for.
LEMMA NeedleIs ==
  ASSUME NEW raw \in Text
  PROVE  Needle(raw) \in Text
<1>1. Normal(strip(raw)) \in Seq(Place)
  BY StripIs, NormalIs
<1>2. Chars(Normal(strip(raw))) \in Text
  BY <1>1, CharsIs
<1> QED BY <1>2, StripIs DEF Needle

-----------------------------------------------------------------------------
(* The pieces of a quotation.                                              *)

Piece == [done : Seq(Text), piece : Text]
NoPiece == [done |-> <<>>, piece |-> <<>>]
ClosedPiece(s) == IF strip(s.piece) = <<>> THEN s.done ELSE Append(s.done, s.piece)
CutPiece(s, c) == IF c = Ellipsis THEN [done |-> ClosedPiece(s), piece |-> <<>>]
                  ELSE [done |-> s.done, piece |-> Append(s.piece, c)]

\* Cutting at one character more.
LEMMA CutIsPiece ==
  ASSUME NEW s \in Piece, NEW c \in Characters
  PROVE  CutPiece(s, c) \in Piece /\ ClosedPiece(s) \in Seq(Text)
<1>1. s.done \in Seq(Text) /\ s.piece \in Text
  BY DEF Piece
<1>2. Append(s.done, s.piece) \in Seq(Text)
  BY <1>1
<1>3. Append(s.piece, c) \in Text /\ <<>> \in Text
  BY <1>1 DEF Text
<1>4. ClosedPiece(s) \in Seq(Text)
  BY <1>1, <1>2 DEF ClosedPiece
<1>5. \A d \in Seq(Text), p \in Text : [done |-> d, piece |-> p] \in Piece
  BY DEF Piece
<1> QED BY <1>1, <1>3, <1>4, <1>5 DEF CutPiece

\* A quotation is cut into texts.
LEMMA SegmentsIs ==
  ASSUME NEW quote \in Text
  PROVE  Segments(quote) \in Seq(Text)
<1> DEFINE m == Len(quote)
           IsLoop(s) == s = [i \in 0..m |-> IF i = 0 THEN NoPiece ELSE CutPiece(s[i - 1], quote[i])]
           up == CHOOSE s : IsLoop(s)
           step == [i \in 1..m |-> [s \in Piece |-> CutPiece(s, quote[i])]]
<1>1. m \in Nat /\ \A i \in 1..m : quote[i] \in Characters
  BY DEF Text
<1>2. NoPiece \in Piece
  BY DEF NoPiece, Piece, Text
<1>3. step \in Steps(Piece, m)
  BY <1>1, CutIsPiece DEF Steps
<1> HIDE DEF m
<1>4. PICK s : RunsLoop(s, Piece, NoPiece, m, step)
  <2> HIDE DEF step
  <2> QED BY <1>1, <1>2, <1>3, LoopsRun, Zenon
<1>5. IsLoop(s)
  <2>1. s \in [0..m -> Piece] /\ s[0] = NoPiece /\ \A i \in 1..m : s[i] = step[i][s[i - 1]]
    <3> HIDE DEF step
    <3> QED BY <1>4 DEF RunsLoop
  <2>2. ASSUME NEW i \in 0..m, i # 0 PROVE s[i] = CutPiece(s[i - 1], quote[i])
    <3>1. i \in 1..m /\ i - 1 \in 0..m
      BY <1>1, <2>2
    <3> QED BY <2>1, <3>1
  <2> QED BY <2>1, <2>2
<1>6. IsLoop(up)
  <2> HIDE DEF IsLoop
  <2> QED BY <1>5
<1>7. Segments(quote) = ClosedPiece(up[m])
  BY DEF Segments, CutPiece, ClosedPiece, NoPiece, m, up, IsLoop
<1> HIDE DEF up
<1>8. \A i \in 0..m : up[i] = IF i = 0 THEN NoPiece ELSE CutPiece(up[i - 1], quote[i])
  BY <1>6
<1> HIDE DEF IsLoop
<1>9. up[0] = NoPiece /\ \A i \in 1..m : up[i] = CutPiece(up[i - 1], quote[i])
  <2>1. 0 \in 0..m /\ \A i \in 1..m : i \in 0..m /\ i # 0
    BY <1>1
  <2> QED BY <1>8, <2>1
<1>10. \A i \in 0..m : up[i] \in Piece
  <2>1. \A i \in 1..m : up[i - 1] \in Piece => up[i] = step[i][up[i - 1]]
    BY <1>9
  <2> HIDE DEF step
  <2> QED BY <1>1, <1>2, <1>3, <1>9, <2>1, LoopStays, Zenon
<1>11. up[m] \in Piece
  BY <1>1, <1>10
<1> QED BY <1>7, <1>11, CutIsPiece, Ellipsis \in Characters DEF Characters

-----------------------------------------------------------------------------
(* Where a quotation stands: the leftmost place of each piece after the    *)
(* one before misses nothing.                                              *)

Located(f, segment, n) ==
  LET t == Chars(n)
      needle == Needle(segment)
      places == OnEdges(needle, t, f.resume)
      at     == Min(places)
  IN  IF ~f.ok \/ needle = <<>> \/ places = {} THEN [f EXCEPT !.ok = FALSE]
      ELSE [ok |-> TRUE, resume |-> Resume(at, needle),
            from |-> IF f.from = 0 THEN n[at].at ELSE f.from,
            to   |-> n[at + Len(needle) - 1].at]

Search == [ok : BOOLEAN, resume : Nat \ {0}, from : Nat, to : Nat]
SearchStart == [ok |-> TRUE, resume |-> 1, from |-> 0, to |-> 0]

NeedleOf(quote, i) == Needle(Segments(quote)[i])

\* The first i pieces of a quotation, placed in t one after the other.
PlacedTo(place, quote, t, i) ==
  \A j \in 1..i : /\ NeedleOf(quote, j) # <<>>
                  /\ WholeWords(NeedleOf(quote, j), t, place[j])
                  /\ j > 1 => place[j] >= place[j - 1] + Len(NeedleOf(quote, j - 1))

Alike(p, q, i) == \A j \in 1..i : p[j] = q[j]

\* The search remembers the beginning and the end of a placing.
Remembers(f, place, quote, n, i) ==
  /\ f.resume = place[i] + Len(NeedleOf(quote, i)) /\ place[1] < f.resume
  /\ f.resume - 1 \in DOMAIN n
  /\ f.from = n[place[1]].at /\ f.to = n[f.resume - 1].at

\* The search so far: it stands after a placing of the first i pieces, and no
\* placing of them ends before it; there is none when it has failed.
Sought(f, quote, n, i) ==
  /\ f.ok => IF i = 0 THEN f = SearchStart
             ELSE \E place \in [1..i -> DOMAIN n] : /\ PlacedTo(place, quote, Chars(n), i)
                                                    /\ Remembers(f, place, quote, n, i)
  /\ \A p \in [1..i -> DOMAIN n] : PlacedTo(p, quote, Chars(n), i) =>
       f.ok /\ (i > 0 => f.resume <= p[i] + Len(NeedleOf(quote, i)))

\* A word's edges, said in two ways.
LEMMA EdgesAreWords ==
  ASSUME NEW t \in Text, NEW needle \in Text, NEW from \in Nat \ {0}, NEW k
  PROVE  k \in OnEdges(needle, t, from) <=> k \in DOMAIN t /\ k >= from /\ WholeWords(needle, t, k)
<1>1. Len(t) \in Nat /\ DOMAIN t = 1..Len(t)
  BY DEF Text
<1>2. k \in from..Len(t) <=> k \in DOMAIN t /\ k >= from
  BY <1>1
<1>3. (~_extends_word(t, k - 1) /\ ~_extends_word(t, k + Len(needle)))
      <=> \A j \in {k - 1, k + Len(needle)} \cap DOMAIN t : t[j] \notin Letters
  BY DEF _extends_word
<1> QED BY <1>2, <1>3 DEF OnEdges, WholeWords

\* The next place of a needle, when there is one, and where it ends.
LEMMA NextPlace ==
  ASSUME NEW n \in Seq(Place), NEW needle \in Text, needle # <<>>, NEW from \in Nat \ {0},
         OnEdges(needle, Chars(n), from) # {}
  PROVE  LET at == Min(OnEdges(needle, Chars(n), from))
         IN  /\ at \in DOMAIN n /\ at >= from /\ WholeWords(needle, Chars(n), at)
             /\ Len(needle) \in Nat \ {0} /\ at + Len(needle) - 1 \in DOMAIN n
             /\ \A k \in DOMAIN n : k >= from /\ WholeWords(needle, Chars(n), k) => at <= k
<1> DEFINE t == Chars(n)
           places == OnEdges(needle, t, from)
           at == Min(places)
<1>1. t \in Text /\ Len(t) = Len(n) /\ DOMAIN t = DOMAIN n
  BY CharsIs
<1>2. Len(n) \in Nat /\ DOMAIN n = 1..Len(n) /\ Len(needle) \in Nat \ {0}
  BY DEF Text
<1> HIDE DEF t
<1>3. \A k : k \in places <=> k \in DOMAIN n /\ k >= from /\ WholeWords(needle, t, k)
  BY <1>1, EdgesAreWords
<1>4. places \in SUBSET Nat /\ places # {}
  BY <1>2, <1>3 DEF t
<1> HIDE DEF places
<1>5. at \in places /\ \A k \in places : at <= k
  BY <1>4, MinIsFirst
<1> HIDE DEF at
<1>6. at \in 1..Len(n) /\ Occurs(needle, t, at)
  BY <1>2, <1>3, <1>5 DEF WholeWords
<1>7. at + Len(needle) - 1 \in DOMAIN n
  BY <1>1, <1>2, <1>6 DEF Occurs
<1> QED BY <1>2, <1>3, <1>5, <1>7 DEF at, places, t

\* A search goes on from where it stands.
LEMMA LocatedIs ==
  ASSUME NEW f \in Search, NEW segment \in Text, NEW n \in Seq(Place)
  PROVE  Located(f, segment, n) \in Search
<1> DEFINE needle == Needle(segment)
           places == OnEdges(needle, Chars(n), f.resume)
           at == Min(places)
<1>1. f.ok \in BOOLEAN /\ f.resume \in Nat \ {0} /\ f.from \in Nat /\ f.to \in Nat
  BY DEF Search
<1>2. CASE ~f.ok \/ needle = <<>> \/ places = {}
  <2>1. Located(f, segment, n) = [f EXCEPT !.ok = FALSE]
    BY <1>2 DEF Located
  <2> QED BY <2>1 DEF Search
<1>3. CASE ~(~f.ok \/ needle = <<>> \/ places = {})
  <2>1. needle \in Text
    BY NeedleIs
  <2>2. Located(f, segment, n) = [ok |-> TRUE, resume |-> Resume(at, needle),
                                  from |-> IF f.from = 0 THEN n[at].at ELSE f.from,
                                  to   |-> n[at + Len(needle) - 1].at]
    BY <1>3 DEF Located
  <2> HIDE DEF needle
  <2>3. at \in DOMAIN n /\ Len(needle) \in Nat \ {0} /\ at + Len(needle) - 1 \in DOMAIN n
    BY <1>1, <1>3, <2>1, NextPlace
  <2> HIDE DEF at
  <2>4. \A p \in Place : p.at \in Nat
    BY DEF Place
  <2>5. \A k \in DOMAIN n : n[k] \in Place /\ k \in Nat \ {0}
    OBVIOUS
  <2>6. n[at].at \in Nat /\ n[at + Len(needle) - 1].at \in Nat /\ Resume(at, needle) \in Nat \ {0}
    BY <2>3, <2>4, <2>5 DEF Resume
  <2> QED BY <1>1, <2>2, <2>6 DEF Search
<1> QED BY <1>2, <1>3

\* Placing one piece more: the pieces before it are placed as well.
LEMMA PlacedBefore ==
  \A quote, D, t, i, p : i \in Nat /\ p \in [1..(i + 1) -> D] /\ PlacedTo(p, quote, t, i + 1) =>
    \E q \in [1..i -> D] : PlacedTo(q, quote, t, i) /\ Alike(q, p, i)
<1> SUFFICES ASSUME NEW quote, NEW D, NEW t, NEW i \in Nat, NEW p \in [1..(i + 1) -> D],
                    PlacedTo(p, quote, t, i + 1)
             PROVE  \E q \in [1..i -> D] : PlacedTo(q, quote, t, i) /\ Alike(q, p, i)
  OBVIOUS
<1> DEFINE q == [j \in 1..i |-> p[j]]
<1>1. \A j \in 1..i : j \in 1..(i + 1) /\ (j > 1 => j - 1 \in 1..i)
  OBVIOUS
<1>2. q \in [1..i -> D] /\ \A j \in 1..i : q[j] = p[j]
  BY <1>1
<1> HIDE DEF q
<1>3. PlacedTo(q, quote, t, i)
  BY <1>1, <1>2 DEF PlacedTo
<1>4. Alike(q, p, i)
  BY <1>2 DEF Alike
<1> QED BY <1>2, <1>3, <1>4

\* A place for the next piece, after those before it.
Continues(k, D, q, quote, t, i) ==
  /\ q \in [1..i -> D] /\ PlacedTo(q, quote, t, i) /\ k \in D
  /\ NeedleOf(quote, i + 1) # <<>> /\ WholeWords(NeedleOf(quote, i + 1), t, k)
  /\ i > 0 => k >= q[i] + Len(NeedleOf(quote, i))

Continued(p, k, D, q, quote, t, i) ==
  p \in [1..(i + 1) -> D] /\ PlacedTo(p, quote, t, i + 1) /\ p[i + 1] = k /\ Alike(p, q, i)

\* One piece more can be placed after those before it.
LEMMA PlacedAfter ==
  \A quote, D, t, i, q, k : i \in Nat /\ Continues(k, D, q, quote, t, i) =>
    \E p : Continued(p, k, D, q, quote, t, i)
<1> SUFFICES ASSUME NEW quote, NEW D, NEW t, NEW i \in Nat, NEW q, NEW k, Continues(k, D, q, quote, t, i)
             PROVE  \E p : Continued(p, k, D, q, quote, t, i)
  OBVIOUS
<1>0. /\ q \in [1..i -> D] /\ PlacedTo(q, quote, t, i) /\ k \in D
      /\ NeedleOf(quote, i + 1) # <<>> /\ WholeWords(NeedleOf(quote, i + 1), t, k)
      /\ i > 0 => k >= q[i] + Len(NeedleOf(quote, i))
  BY DEF Continues
<1> DEFINE p == [j \in 1..(i + 1) |-> IF j = i + 1 THEN k ELSE q[j]]
<1>1. \A j \in 1..(i + 1) : j # i + 1 => j \in 1..i
  OBVIOUS
<1>2. \A j \in 1..i : j \in 1..(i + 1) /\ j # i + 1
  OBVIOUS
<1>3. p \in [1..(i + 1) -> D] /\ p[i + 1] = k /\ \A j \in 1..i : p[j] = q[j]
  BY <1>0, <1>1, <1>2
<1> HIDE DEF p
<1>4. ASSUME NEW j \in 1..(i + 1)
      PROVE  /\ NeedleOf(quote, j) # <<>> /\ WholeWords(NeedleOf(quote, j), t, p[j])
             /\ j > 1 => p[j] >= p[j - 1] + Len(NeedleOf(quote, j - 1))
  <2>1. CASE j = i + 1
    <3>1. j > 1 => i > 0 /\ i \in 1..i /\ j - 1 = i
      BY <2>1
    <3> QED BY <1>0, <1>3, <2>1, <3>1
  <2>2. CASE j # i + 1
    <3>1. j \in 1..i /\ (j > 1 => j - 1 \in 1..i)
      BY <2>2
    <3> QED BY <1>0, <1>3, <3>1 DEF PlacedTo
  <2> QED BY <2>1, <2>2
<1>5. PlacedTo(p, quote, t, i + 1) /\ Alike(p, q, i)
  BY <1>3, <1>4 DEF PlacedTo, Alike
<1> QED BY <1>3, <1>5 DEF Continued

\* One piece more: the search still stands after the leftmost placing.
LEMMA LocatedSeeks ==
  ASSUME NEW quote \in Text, NEW n \in Seq(Place), NEW i \in Nat, i + 1 <= Len(Segments(quote)),
         NEW f \in Search, Sought(f, quote, n, i)
  PROVE  Sought(Located(f, Segments(quote)[i + 1], n), quote, n, i + 1)
<1> DEFINE t == Chars(n)
           segment == Segments(quote)[i + 1]
           needle == NeedleOf(quote, i + 1)
           places == OnEdges(needle, t, f.resume)
           at == Min(places)
           g == Located(f, segment, n)
           D == DOMAIN n
<1> SUFFICES Sought(g, quote, n, i + 1)
  OBVIOUS
<1>1. /\ Segments(quote) \in Seq(Text) /\ segment \in Text /\ needle \in Text
      /\ \A j \in 1..i : NeedleOf(quote, j) \in Text
  <2>1. Segments(quote) \in Seq(Text)
    BY SegmentsIs
  <2>2. \A j \in 1..(i + 1) : Segments(quote)[j] \in Text
    BY <2>1
  <2>3. \A j \in 1..(i + 1) : NeedleOf(quote, j) \in Text
    BY <2>2, NeedleIs DEF NeedleOf
  <2> QED BY <2>1, <2>2, <2>3
<1>2. t \in Text /\ Len(t) = Len(n) /\ DOMAIN t = D /\ D = 1..Len(n) /\ Len(n) \in Nat /\ Len(needle) \in Nat
  BY <1>1, CharsIs DEF Text
<1>3. f.ok \in BOOLEAN /\ f.resume \in Nat \ {0} /\ f.from \in Nat /\ f.to \in Nat
  BY DEF Search
<1>4. needle = Needle(segment)
  BY DEF NeedleOf
\* Whatever placing there is, the next piece stands in it where it is looked for.
<1>5. ASSUME NEW p \in [1..(i + 1) -> D], PlacedTo(p, quote, t, i + 1)
      PROVE  f.ok /\ needle # <<>> /\ p[i + 1] \in places /\ p[i + 1] \in D
             /\ p[i + 1] >= f.resume /\ WholeWords(needle, t, p[i + 1])
  <2>1. PICK q \in [1..i -> D] : PlacedTo(q, quote, t, i) /\ Alike(q, p, i)
    <3> HIDE DEF D, t
    <3> QED BY <1>5, PlacedBefore, Zenon
  <2>2. f.ok /\ (i > 0 => f.resume <= q[i] + Len(NeedleOf(quote, i)))
    BY <2>1 DEF Sought
  <2>3. i + 1 \in 1..(i + 1) /\ p[i + 1] \in D
    OBVIOUS
  <2>4. /\ needle # <<>> /\ WholeWords(needle, t, p[i + 1])
        /\ i + 1 > 1 => p[i + 1] >= p[(i + 1) - 1] + Len(NeedleOf(quote, (i + 1) - 1))
    BY <1>5, <2>3 DEF PlacedTo
  <2>5. p[i + 1] >= f.resume
    <3>1. CASE i = 0
      BY <1>2, <2>2, <2>3, <3>1 DEF Sought, SearchStart
    <3>2. CASE i # 0
      <4>1. i \in 1..i /\ (i + 1) - 1 = i /\ i + 1 > 1 /\ i > 0
        BY <3>2
      <4>2. q[i] = p[i] /\ p[i] \in D /\ Len(NeedleOf(quote, i)) \in Nat
        BY <1>1, <2>1, <4>1 DEF Text, Alike
      <4> HIDE DEF D
      <4> QED BY <1>2, <1>3, <2>2, <2>3, <2>4, <4>1, <4>2
    <3> QED BY <3>1, <3>2
  <2>6. p[i + 1] \in places
    BY <1>1, <1>2, <1>3, <2>3, <2>4, <2>5, EdgesAreWords
  <2> QED BY <2>2, <2>3, <2>4, <2>5, <2>6
<1>6. CASE ~f.ok \/ needle = <<>> \/ places = {}
  <2>1. g = [f EXCEPT !.ok = FALSE]
    BY <1>4, <1>6 DEF Located
  <2>2. ~g.ok
    BY <2>1 DEF Search
  <2>3. \A p \in [1..(i + 1) -> D] : ~PlacedTo(p, quote, t, i + 1)
    <3> HIDE DEF g, places, needle, D, t
    <3> QED BY <1>5, <1>6
  <2> HIDE DEF g
  <2> QED BY <2>2, <2>3 DEF Sought
<1>7. CASE ~(~f.ok \/ needle = <<>> \/ places = {})
  <2>1. g = [ok |-> TRUE, resume |-> Resume(at, needle),
             from |-> IF f.from = 0 THEN n[at].at ELSE f.from,
             to   |-> n[at + Len(needle) - 1].at]
    BY <1>4, <1>7 DEF Located
  <2>2. /\ at \in DOMAIN n /\ at >= f.resume /\ WholeWords(needle, t, at)
        /\ Len(needle) \in Nat \ {0} /\ at + Len(needle) - 1 \in DOMAIN n
        /\ \A k \in DOMAIN n : k >= f.resume /\ WholeWords(needle, t, k) => at <= k
    <3> HIDE DEF needle
    <3> QED BY <1>1, <1>3, <1>7, NextPlace
  <2>3. needle # <<>> /\ f.ok
    BY <1>7
  <2> HIDE DEF at, places, g
  <2>4. /\ g.ok /\ g.resume = at + Len(needle) /\ g.from = IF f.from = 0 THEN n[at].at ELSE f.from
        /\ g.to = n[at + Len(needle) - 1].at
    BY <2>1 DEF Resume
  <2>5. g.resume - 1 = at + Len(needle) - 1 /\ at < g.resume
    BY <2>2, <2>4, <1>2
  <2>6. \A k \in DOMAIN n : n[k].at \in Nat \ {0}
    <3>1. \A x \in Place : x.at \in Nat \ {0}
      BY DEF Place
    <3> QED BY <3>1
  <2>7. \E p \in [1..(i + 1) -> D] : PlacedTo(p, quote, t, i + 1) /\ Remembers(g, p, quote, n, i + 1)
    <3>1. CASE i = 0
      <4>1. f = SearchStart
        BY <2>3, <3>1 DEF Sought
      <4>2. f.from = 0
        BY <4>1 DEF SearchStart
      <4>3. PICK q \in [1..i -> D] : TRUE
        <5>1. [j \in 1..i |-> 0] \in [1..i -> D]
          BY <3>1
        <5> QED BY <5>1
      <4>4. PlacedTo(q, quote, t, i)
        BY <3>1 DEF PlacedTo
      <4>5. PICK p \in [1..(i + 1) -> D] : PlacedTo(p, quote, t, i + 1) /\ p[i + 1] = at
        <5>1. i > 0 => at >= q[i] + Len(NeedleOf(quote, i))
          BY <3>1
        <5>2. at \in D
          BY <2>2
        <5>3. NeedleOf(quote, i + 1) # <<>> /\ WholeWords(NeedleOf(quote, i + 1), t, at)
          BY <2>2, <2>3
        <5> HIDE DEF D, t, needle
        <5>4. Continues(at, D, q, quote, t, i)
          BY <4>4, <5>1, <5>2, <5>3 DEF Continues
        <5>5. PICK p : Continued(p, at, D, q, quote, t, i)
          BY <5>4, PlacedAfter, Zenon
        <5> QED BY <5>5 DEF Continued
      <4>6. Remembers(g, p, quote, n, i + 1)
        BY <2>2, <2>4, <2>5, <3>1, <4>2, <4>5 DEF Remembers
      <4> QED BY <4>5, <4>6
    <3>2. CASE i # 0
      <4>1. PICK q \in [1..i -> D] : PlacedTo(q, quote, t, i) /\ Remembers(f, q, quote, n, i)
        BY <2>3, <3>2 DEF Sought
      <4>2. i > 0 /\ 1 \in 1..i
        BY <3>2
      <4>3. /\ f.resume = q[i] + Len(NeedleOf(quote, i)) /\ q[1] < f.resume /\ f.from = n[q[1]].at
            /\ q[1] \in DOMAIN n
        BY <4>1, <4>2 DEF Remembers
      <4>4. PICK p \in [1..(i + 1) -> D] : /\ PlacedTo(p, quote, t, i + 1) /\ p[i + 1] = at
                                           /\ Alike(p, q, i)
        <5>1. i > 0 => at >= q[i] + Len(NeedleOf(quote, i))
          BY <2>2, <4>3
        <5>2. at \in D
          BY <2>2
        <5>3. NeedleOf(quote, i + 1) # <<>> /\ WholeWords(NeedleOf(quote, i + 1), t, at)
          BY <2>2, <2>3
        <5> HIDE DEF D, t, needle
        <5>4. Continues(at, D, q, quote, t, i)
          BY <4>1, <5>1, <5>2, <5>3 DEF Continues
        <5>5. PICK p : Continued(p, at, D, q, quote, t, i)
          BY <5>4, PlacedAfter, Zenon
        <5> QED BY <5>5 DEF Continued
      <4>5. p[1] = q[1] /\ f.from # 0
        BY <2>6, <4>2, <4>3, <4>4 DEF Alike
      <4>6. p[1] < g.resume
        BY <1>2, <1>3, <2>2, <2>5, <2>4, <4>3, <4>5
      <4>7. Remembers(g, p, quote, n, i + 1)
        BY <2>2, <2>4, <2>5, <4>3, <4>4, <4>5, <4>6 DEF Remembers
      <4> QED BY <4>4, <4>7
    <3> QED BY <3>1, <3>2
  <2>8. ASSUME NEW p \in [1..(i + 1) -> D], PlacedTo(p, quote, t, i + 1)
        PROVE  g.resume <= p[i + 1] + Len(NeedleOf(quote, i + 1))
    <3>1. at <= p[i + 1] /\ p[i + 1] \in Nat /\ at \in Nat
      BY <1>2, <1>5, <2>2, <2>8
    <3> QED BY <1>2, <2>4, <3>1
  <2>9. i + 1 # 0
    OBVIOUS
  <2> HIDE DEF needle
  <2> QED BY <2>4, <2>7, <2>8, <2>9 DEF Sought
<1> QED BY <1>6, <1>7

\* find_quote's search, to its end.
LEMMA SearchEnds ==
  ASSUME NEW raw \in Text, NEW quote \in Text
  PROVE  \E end \in Search : /\ Sought(end, quote, Normal(raw), Len(Segments(quote)))
                             /\ find_quote(raw, quote) = IF end.ok THEN [from |-> end.from, to |-> end.to]
                                                         ELSE Nothing
<1> DEFINE m == Len(Segments(quote))
           n == Normal(raw)
           d == Segments(quote)
           IsLoop(s) == s = [i \in 0..m |-> IF i = 0 THEN SearchStart ELSE Located(s[i - 1], d[i], n)]
           up == CHOOSE s : IsLoop(s)
           step == [i \in 1..m |-> [s \in Search |-> Located(s, d[i], n)]]
<1>1. m \in Nat /\ \A i \in 1..m : d[i] \in Text
  <2>1. Segments(quote) \in Seq(Text)
    BY SegmentsIs
  <2> QED BY <2>1
<1>2. SearchStart \in Search
  BY DEF SearchStart, Search
<1>3. n \in Seq(Place)
  BY NormalIs
<1>4. step \in Steps(Search, m)
  <2> HIDE DEF m, n, d
  <2> QED BY <1>1, <1>3, LocatedIs DEF Steps
<1>5. find_quote(raw, quote) = IF up[m].ok THEN [from |-> up[m].from, to |-> up[m].to] ELSE Nothing
  BY DEF find_quote, Located, SearchStart, m, n, d, up, IsLoop
<1> HIDE DEF m, n, d
<1>6. PICK s : RunsLoop(s, Search, SearchStart, m, step)
  <2> HIDE DEF step
  <2> QED BY <1>1, <1>2, <1>4, LoopsRun, Zenon
<1>7. IsLoop(s)
  <2>1. s \in [0..m -> Search] /\ s[0] = SearchStart /\ \A i \in 1..m : s[i] = step[i][s[i - 1]]
    <3> HIDE DEF step
    <3> QED BY <1>6 DEF RunsLoop
  <2>2. ASSUME NEW i \in 0..m, i # 0 PROVE s[i] = Located(s[i - 1], d[i], n)
    <3>1. i \in 1..m /\ i - 1 \in 0..m
      BY <1>1, <2>2
    <3> QED BY <2>1, <3>1
  <2> QED BY <2>1, <2>2
<1>8. IsLoop(up)
  <2> HIDE DEF IsLoop
  <2> QED BY <1>7
<1> HIDE DEF up
<1>9. \A i \in 0..m : up[i] = IF i = 0 THEN SearchStart ELSE Located(up[i - 1], d[i], n)
  BY <1>8
<1> HIDE DEF IsLoop
<1>10. up[0] = SearchStart /\ \A i \in 1..m : up[i] = Located(up[i - 1], d[i], n)
  <2>1. 0 \in 0..m /\ \A i \in 1..m : i \in 0..m /\ i # 0
    BY <1>1
  <2> QED BY <1>9, <2>1
<1>11. \A i \in 0..m : up[i] \in Search
  <2>1. \A i \in 1..m : up[i - 1] \in Search => up[i] = step[i][up[i - 1]]
    BY <1>10
  <2> HIDE DEF step
  <2> QED BY <1>1, <1>2, <1>4, <1>10, <2>1, LoopStays, Zenon
<1> DEFINE X == {i \in Nat : i <= m => Sought(up[i], quote, n, i)}
<1>12. 0 \in X
  <2>1. Sought(SearchStart, quote, n, 0)
    BY DEF Sought, SearchStart
  <2> QED BY <1>10, <2>1
<1>13. ASSUME NEW i \in Nat, i \in X PROVE i + 1 \in X
  <2> SUFFICES ASSUME i + 1 <= m PROVE Sought(up[i + 1], quote, n, i + 1)
    OBVIOUS
  <2>1. i \in 0..m /\ i + 1 \in 1..m /\ (i + 1) - 1 = i /\ Sought(up[i], quote, n, i)
    BY <1>1, <1>13
  <2>2. up[i + 1] = Located(up[i], d[i + 1], n)
    BY <1>10, <2>1
  <2>3. up[i] \in Search
    BY <1>11, <2>1
  <2>4. i + 1 <= Len(Segments(quote))
    BY DEF m
  <2>5. Sought(Located(up[i], Segments(quote)[i + 1], n), quote, n, i + 1)
    BY <1>3, <2>1, <2>3, <2>4, LocatedSeeks
  <2> QED BY <2>2, <2>5 DEF d
<1>14. \A i \in Nat : i \in X
  <2> HIDE DEF X
  <2> QED BY <1>12, <1>13, AllNaturals
<1>15. up[m] \in Search /\ Sought(up[m], quote, n, m)
  BY <1>1, <1>11, <1>14
<1> QED BY <1>5, <1>15 DEF m, n

\* The reference's placings are those of all the pieces.
LEMMA PlacingsAre ==
  ASSUME NEW quote \in Text, NEW t \in Text, NEW place
  PROVE  place \in Placings(quote, t)
         <=> place \in [1..Len(Segments(quote)) -> DOMAIN t] /\ PlacedTo(place, quote, t, Len(Segments(quote)))
<1> DEFINE m == Len(Segments(quote))
           needles == [i \in DOMAIN Segments(quote) |-> Needle(Segments(quote)[i])]
           Stands(i) == /\ needles[i] # <<>>
                        /\ WholeWords(needles[i], t, place[i])
                        /\ i > 1 => place[i] >= place[i - 1] + Len(needles[i - 1])
           StandsHere(j) == /\ NeedleOf(quote, j) # <<>>
                            /\ WholeWords(NeedleOf(quote, j), t, place[j])
                            /\ j > 1 => place[j] >= place[j - 1] + Len(NeedleOf(quote, j - 1))
<1>1. m \in Nat /\ DOMAIN Segments(quote) = 1..m
  BY SegmentsIs
<1>2. DOMAIN needles = 1..m /\ \A i \in 1..m : needles[i] = NeedleOf(quote, i)
  BY <1>1 DEF NeedleOf
<1>3. place \in Placings(quote, t) <=> place \in [DOMAIN needles -> DOMAIN t] /\ \A i \in DOMAIN needles : Stands(i)
  BY DEF Placings
<1>4. PlacedTo(place, quote, t, m) <=> \A j \in 1..m : StandsHere(j)
  BY DEF PlacedTo
<1> HIDE DEF m, needles
<1>5. \A i \in 1..m : Stands(i) <=> StandsHere(i)
  <2> TAKE i \in 1..m
  <2>1. i > 1 => i - 1 \in 1..m
    BY <1>1
  <2> QED BY <1>2, <2>1
<1> HIDE DEF Stands, StandsHere
<1>6. place \in Placings(quote, t) <=> place \in [1..m -> DOMAIN t] /\ \A i \in 1..m : Stands(i)
  BY <1>2, <1>3
<1> QED BY <1>4, <1>5, <1>6 DEF m

\* A quotation is found when its pieces can be placed, and where they are.
LEMMA FoundWherePlaced ==
  ASSUME NEW raw \in Text, NEW quote \in Text, find_quote(raw, quote) # Nothing
  PROVE  LET n == Normal(raw)
             span == find_quote(raw, quote)
             last == Len(Segments(quote))
             tail == Needle(Segments(quote)[last])
         IN  /\ \E place \in Placings(quote, Chars(n)) :
                  n[place[1]].at = span.from /\ n[place[last] + Len(tail) - 1].at = span.to
             /\ span.from \in 1..span.to /\ span.to <= Len(raw)
<1> DEFINE n == Normal(raw)
           t == Chars(n)
           m == Len(Segments(quote))
           span == find_quote(raw, quote)
<1>1. n \in Seq(Place) /\ Forward(n, Len(raw)) /\ Len(raw) \in Nat
  BY NormalIs DEF Text
<1>2. t \in Text /\ DOMAIN t = DOMAIN n
  BY <1>1, CharsIs
<1>3. m \in Nat
  BY SegmentsIs
<1>4. PICK end \in Search : /\ Sought(end, quote, n, m)
                            /\ span = IF end.ok THEN [from |-> end.from, to |-> end.to] ELSE Nothing
  BY SearchEnds
<1>5. end.ok /\ span = [from |-> end.from, to |-> end.to]
  BY <1>4
<1>6. m # 0
  BY <1>4, <1>5 DEF Sought, SearchStart, Nothing
<1> HIDE DEF m, span
<1>7. PICK place \in [1..m -> DOMAIN n] : PlacedTo(place, quote, t, m) /\ Remembers(end, place, quote, n, m)
  BY <1>4, <1>5, <1>6 DEF Sought
<1>8. place \in Placings(quote, t)
  <2> HIDE DEF t, n
  <2> QED BY <1>2, <1>7, PlacingsAre DEF m
<1>9. /\ end.resume = place[m] + Len(NeedleOf(quote, m)) /\ place[1] < end.resume
      /\ end.resume - 1 \in DOMAIN n /\ place[1] \in DOMAIN n
      /\ span.from = n[place[1]].at /\ span.to = n[end.resume - 1].at
  BY <1>3, <1>5, <1>6, <1>7 DEF Remembers
<1> HIDE DEF n
<1>10. \A k \in DOMAIN n : k \in Nat /\ n[k].at \in Nat \ {0} /\ n[k].at <= Len(raw)
  <2>1. \A x \in Place : x.at \in Nat \ {0}
    BY DEF Place
  <2>2. \A k \in DOMAIN n : k \in Nat /\ n[k] \in Place
    BY <1>1
  <2> QED BY <1>1, <2>1, <2>2 DEF Forward
<1>11. span.from \in 1..span.to /\ span.to <= Len(raw)
  <2>1. place[1] <= end.resume - 1
    BY <1>9, <1>10, end.resume \in Nat DEF Search
  <2>2. n[place[1]].at <= n[end.resume - 1].at
    <3>1. CASE place[1] = end.resume - 1
      BY <1>9, <1>10, <3>1
    <3>2. CASE place[1] < end.resume - 1
      BY <1>1, <1>9, <1>10, <3>2 DEF Forward
    <3> QED BY <1>9, <1>10, <2>1, <3>1, <3>2
  <2> QED BY <1>9, <1>10, <2>2
<1>12. n[place[m] + Len(Needle(Segments(quote)[m])) - 1].at = span.to
  <2>1. NeedleOf(quote, m) = Needle(Segments(quote)[m])
    BY DEF NeedleOf
  <2>2. end.resume - 1 = place[m] + Len(NeedleOf(quote, m)) - 1
    <3>1. Segments(quote)[m] \in Text
      BY <1>3, <1>6, SegmentsIs DEF m
    <3>2. Len(NeedleOf(quote, m)) \in Nat
      BY <3>1, NeedleIs DEF NeedleOf, Text
    <3>3. place[m] \in Nat /\ end.resume \in Nat
      BY <1>3, <1>6, <1>10 DEF Search
    <3> QED BY <1>9, <3>2, <3>3
  <2>3. span.to = n[place[m] + Len(NeedleOf(quote, m)) - 1].at
    BY <1>9, <2>2, Zenon
  <2> QED BY <2>1, <2>3, Zenon
<1> QED BY <1>8, <1>9, <1>11, <1>12 DEF n, m, span

\* The greedy search is complete.
LEMMA FoundIfPlaced ==
  ASSUME NEW raw \in Text, NEW quote \in Text, Segments(quote) # <<>>,
         NEW place \in Placings(quote, Chars(Normal(raw)))
  PROVE  find_quote(raw, quote) # Nothing
<1> DEFINE n == Normal(raw)
           m == Len(Segments(quote))
<1>1. n \in Seq(Place) /\ Chars(n) \in Text /\ DOMAIN Chars(n) = DOMAIN n
  BY NormalIs, CharsIs
<1>2. m \in Nat \ {0}
  BY SegmentsIs
<1>3. place \in [1..m -> DOMAIN n] /\ PlacedTo(place, quote, Chars(n), m)
  <2> HIDE DEF n
  <2>1. place \in Placings(quote, Chars(n))
    BY DEF n
  <2> QED BY <1>1, <2>1, PlacingsAre
<1>4. PICK end \in Search : /\ Sought(end, quote, n, m)
                            /\ find_quote(raw, quote) = IF end.ok THEN [from |-> end.from, to |-> end.to]
                                                        ELSE Nothing
  BY SearchEnds
<1> HIDE DEF m, n
<1>5. end.ok
  BY <1>3, <1>4 DEF Sought
<1>6. PICK q \in [1..m -> DOMAIN n] : Remembers(end, q, quote, n, m)
  BY <1>2, <1>4, <1>5 DEF Sought
<1>7. end.from = n[q[1]].at /\ q[1] \in DOMAIN n
  BY <1>2, <1>6 DEF Remembers
<1>8. end.from # 0
  <2>1. \A x \in Place : x.at # 0
    BY DEF Place
  <2> QED BY <1>1, <1>7, <2>1
<1> QED BY <1>4, <1>5, <1>8 DEF Nothing

-----------------------------------------------------------------------------
(* What the article itself contains.                                       *)

\* What the scan finds stands in the body as whole words, where the row says.
LEMMA ScannedStands ==
  ASSUME NEW raw \in Text, NEW r \in scan(raw)
  PROVE  LET n == Normal(raw)
         IN  /\ r.value \in WellFormed /\ r.from \in 1..r.to /\ r.to <= Len(raw)
             /\ \E k \in DOMAIN Chars(n) : /\ WholeWords(r.value, Chars(n), k)
                                           /\ n[k].at = r.from /\ n[k + Len(r.value) - 1].at = r.to
<1> DEFINE n == Normal(raw)
           t == Chars(n)
<1>1. PICK v \in WellFormed : /\ Matches(v, t) # {}
                              /\ r = [value |-> v, from |-> n[Min(Matches(v, t))].at,
                                      to |-> n[Min(Matches(v, t)) + Len(v) - 1].at]
  BY DEF scan
<1>2. n \in Seq(Place) /\ Forward(n, Len(raw)) /\ Len(raw) \in Nat
  BY NormalIs DEF Text
<1>3. t \in Text /\ Len(t) = Len(n) /\ DOMAIN t = DOMAIN n /\ DOMAIN n = 1..Len(n) /\ Len(n) \in Nat
  BY <1>2, CharsIs
<1>4. Len(v) \in Nat \ {0}
  BY GroundingAssumption
<1> HIDE DEF n, t
<1>5. PICK k \in Matches(v, t) : k = Min(Matches(v, t))
  <2>1. Matches(v, t) \in SUBSET Nat
    BY <1>3 DEF Matches
  <2> QED BY <1>1, <2>1, MinIsFirst
<1>6. /\ k \in DOMAIN n /\ k \in Nat /\ Occurs(v, t, k)
      /\ k > 1 => t[k - 1] \notin Letters
      /\ k + Len(v) <= Len(t) => t[k + Len(v)] \notin Letters
  BY <1>3, <1>5 DEF Matches
<1>7. WholeWords(v, t, k)
  <2>1. \A j \in {k - 1, k + Len(v)} \cap DOMAIN t : t[j] \notin Letters
    <3> TAKE j \in {k - 1, k + Len(v)} \cap DOMAIN t
    <3>1. CASE j = k - 1
      BY <1>3, <1>6, <3>1
    <3>2. CASE j = k + Len(v)
      BY <1>3, <1>6, <3>2
    <3> QED BY <3>1, <3>2
  <2> QED BY <1>6, <2>1 DEF WholeWords
<1>8. k + Len(v) - 1 \in DOMAIN n /\ k <= k + Len(v) - 1
  BY <1>3, <1>4, <1>6 DEF Occurs
<1>9. \A l \in DOMAIN n : n[l].at \in Nat \ {0} /\ n[l].at <= Len(raw)
  <2>1. \A x \in Place : x.at \in Nat \ {0}
    BY DEF Place
  <2>2. \A l \in DOMAIN n : n[l] \in Place
    BY <1>2
  <2> QED BY <1>2, <2>1, <2>2 DEF Forward
<1>10. n[k].at <= n[k + Len(v) - 1].at
  <2>1. PICK l : l = k + Len(v) - 1
    OBVIOUS
  <2>2. l \in DOMAIN n /\ k <= l /\ l \in Nat
    BY <1>3, <1>8, <2>1
  <2>3. n[k].at <= n[l].at
    BY <1>2, <1>6, <1>9, <2>2 DEF Forward
  <2> QED BY <2>1, <2>3
<1>11. r.value = v /\ r.from = n[k].at /\ r.to = n[k + Len(v) - 1].at
  BY <1>1, <1>5
<1>12. r.from \in 1..r.to /\ r.to <= Len(raw)
  BY <1>6, <1>8, <1>9, <1>10, <1>11
<1> QED BY <1>3, <1>6, <1>7, <1>11, <1>12 DEF n, t

\* Each indicator once.
LEMMA ScannedOnce ==
  ASSUME NEW raw, NEW r \in scan(raw), NEW s \in scan(raw), r.value = s.value
  PROVE  r = s
<1> DEFINE n == Normal(raw)
           Row(v) == [value |-> v, from |-> n[Min(Matches(v, Chars(n)))].at,
                      to |-> n[Min(Matches(v, Chars(n))) + Len(v) - 1].at]
<1>1. \A x \in scan(raw) : \E v : x = Row(v)
  BY DEF scan
<1>2. \A x \in scan(raw) : x = Row(x.value)
  <2> TAKE x \in scan(raw)
  <2>1. PICK v : x = Row(v)
    BY <1>1
  <2>2. x.value = v
    BY <2>1
  <2> QED BY <2>1, <2>2
<1> HIDE DEF Row
<1> QED BY <1>2

-----------------------------------------------------------------------------
(* What is stored was read from a body.                                    *)

Mapping == [technique : Techniques, quote : Text]
Row == [technique : Techniques, from : Nat, to : Nat, quote : Text]

\* Each row is where its quote is found in b.
Anchored(kept, b) ==
  \A i \in DOMAIN kept : /\ find_quote(b, kept[i].quote) # Nothing
                         /\ kept[i].from = find_quote(b, kept[i].quote).from
                         /\ kept[i].to = find_quote(b, kept[i].quote).to

OneEach(kept) == \A i, j \in DOMAIN kept : kept[i].technique = kept[j].technique => i = j

KeptFrom(b) == {kept \in Seq(Row) : Len(kept) <= MAX_TTPS /\ Anchored(kept, b) /\ OneEach(kept)}

GroundingInv ==
  /\ body \in Bodies /\ bundle \in Bundles /\ read \in [iocs : Bodies, ttps : Bodies]
  /\ iocs \subseteq scan(read.iocs)
  /\ ttps \in KeptFrom(read.ttps)
  /\ diamond \subseteq Quotes

\* An id denotes one live technique at most.
LEMMA ResolvedIsLive ==
  ASSUME bundle \in Bundles, NEW id
  PROVE  resolve(id) \subseteq Techniques /\ \A x, y \in resolve(id) : x = y
<1>1. bundle.live \subseteq Techniques
  BY GroundingAssumption
<1>2. \E h : resolve(id) = {h} \cap bundle.live
  BY DEF resolve
<1> QED BY <1>1, <1>2

\* One mapping more leaves every row anchored, and each technique once.
LEMMA MappedKeeps ==
  ASSUME body \in Bodies, bundle \in Bundles, NEW kept \in KeptFrom(body), NEW mapping \in Mapping
  PROVE  Mapped(kept, mapping) \in KeptFrom(body)
<1> DEFINE span == find_quote(body, mapping.quote)
           technique == CHOOSE t \in resolve(mapping.technique) : TRUE
           row == [technique |-> technique, from |-> span.from, to |-> span.to, quote |-> mapping.quote]
           more == Append(kept, row)
<1>1. CASE Mapped(kept, mapping) = kept
  BY <1>1
<1>2. CASE Mapped(kept, mapping) # kept
  <2>1. /\ Mapped(kept, mapping) = more /\ ~(Len(kept) >= MAX_TTPS) /\ resolve(mapping.technique) # {}
        /\ span # Nothing /\ ~Seen(kept, mapping)
    BY <1>2 DEF Mapped
  <2>2. body \in Text /\ mapping.quote \in Text
    BY GroundingAssumption DEF Mapping
  <2>3. technique \in resolve(mapping.technique) /\ technique \in Techniques
    BY <2>1, ResolvedIsLive
  <2>4. span.from \in Nat /\ span.to \in Nat
    <3>1. span.from \in 1..span.to /\ span.to <= Len(body) /\ Len(body) \in Nat
      BY <2>1, <2>2, FoundWherePlaced DEF Text
    <3>2. PICK end \in Search : span = IF end.ok THEN [from |-> end.from, to |-> end.to] ELSE Nothing
      BY <2>2, SearchEnds
    <3> HIDE DEF span
    <3>3. span.from \in Nat /\ span.to \in Nat
      BY <2>1, <3>2 DEF Search
    <3> QED BY <3>3
  <2> HIDE DEF span, technique
  <2>5. row \in Row
    BY <2>2, <2>3, <2>4 DEF Row
  <2>6. kept \in Seq(Row) /\ Len(kept) \in Nat /\ Len(kept) <= MAX_TTPS /\ Anchored(kept, body) /\ OneEach(kept)
    BY DEF KeptFrom
  <2>7. /\ row.technique = technique /\ row.from = span.from /\ row.to = span.to
        /\ row.quote = mapping.quote
    OBVIOUS
  <2> HIDE DEF row
  <2>8. /\ more \in Seq(Row) /\ Len(more) = Len(kept) + 1 /\ DOMAIN more = 1..(Len(kept) + 1)
        /\ more[Len(kept) + 1] = row /\ \A i \in 1..Len(kept) : i \in DOMAIN kept /\ more[i] = kept[i]
    BY <2>5, <2>6
  <2> HIDE DEF more
  <2>9. Len(more) <= MAX_TTPS
    BY <2>1, <2>6, <2>8, GroundingAssumption
  <2>10. \A i \in DOMAIN more : i # Len(kept) + 1 => i \in 1..Len(kept)
    BY <2>6, <2>8
  <2>11. Anchored(more, body)
    <3> SUFFICES ASSUME NEW i \in DOMAIN more
                 PROVE  /\ find_quote(body, more[i].quote) # Nothing
                        /\ more[i].from = find_quote(body, more[i].quote).from
                        /\ more[i].to = find_quote(body, more[i].quote).to
      BY DEF Anchored
    <3>1. CASE i = Len(kept) + 1
      BY <2>1, <2>7, <2>8, <3>1 DEF span
    <3>2. CASE i # Len(kept) + 1
      <4>1. i \in DOMAIN kept /\ more[i] = kept[i]
        BY <2>8, <2>10, <3>2
      <4> QED BY <2>6, <4>1 DEF Anchored
    <3> QED BY <3>1, <3>2
  <2>12. OneEach(more)
    <3>1. \A i \in DOMAIN kept : kept[i].technique # technique
      BY <2>1, <2>3 DEF Seen
    <3> SUFFICES ASSUME NEW i \in DOMAIN more, NEW j \in DOMAIN more, more[i].technique = more[j].technique
                 PROVE  i = j
      BY DEF OneEach
    <3>2. CASE i # Len(kept) + 1 /\ j # Len(kept) + 1
      <4>1. i \in DOMAIN kept /\ j \in DOMAIN kept /\ more[i] = kept[i] /\ more[j] = kept[j]
        BY <2>8, <2>10, <3>2
      <4> QED BY <2>6, <4>1 DEF OneEach
    <3>3. CASE i = Len(kept) + 1 /\ j # Len(kept) + 1
      <4>1. j \in DOMAIN kept /\ more[j] = kept[j]
        BY <2>8, <2>10, <3>3
      <4> QED BY <2>7, <2>8, <3>1, <3>3, <4>1
    <3>4. CASE i # Len(kept) + 1 /\ j = Len(kept) + 1
      <4>1. i \in DOMAIN kept /\ more[i] = kept[i]
        BY <2>8, <2>10, <3>4
      <4> QED BY <2>7, <2>8, <3>1, <3>4, <4>1
    <3> QED BY <3>2, <3>3, <3>4
  <2> QED BY <2>1, <2>8, <2>9, <2>11, <2>12 DEF KeptFrom
<1> QED BY <1>1, <1>2

\* So does an answer, one mapping after the other.
LEMMA GroundTtpsKeeps ==
  ASSUME body \in Bodies, bundle \in Bundles, NEW answer \in TtpAnswers, GroundTtps(answer)
  PROVE  ttps' \in KeptFrom(body)
<1> DEFINE m == Len(answer)
           G == KeptFrom(body)
           IsLoop(s) == s = [i \in 0..m |-> IF i = 0 THEN <<>> ELSE Mapped(s[i - 1], answer[i])]
           up == CHOOSE s : IsLoop(s)
           step == [i \in 1..m |-> [kept \in G |-> Mapped(kept, answer[i])]]
<1>1. m \in Nat /\ \A i \in 1..m : answer[i] \in Mapping
  <2>1. answer \in Seq(Mapping)
    BY GroundingAssumption DEF Mapping
  <2> QED BY <2>1
<1>2. <<>> \in G
  BY GroundingAssumption DEF KeptFrom, Anchored, OneEach
<1>3. step \in Steps(G, m)
  <2> HIDE DEF m
  <2>1. \A i \in 1..m, kept \in G : Mapped(kept, answer[i]) \in G
    BY <1>1, MappedKeeps
  <2> HIDE DEF G
  <2> QED BY <2>1 DEF Steps
<1>4. ttps' = up[m]
  BY DEF GroundTtps, m, up, IsLoop
<1> HIDE DEF m, G
<1>5. PICK s : RunsLoop(s, G, <<>>, m, step)
  <2> HIDE DEF step
  <2> QED BY <1>1, <1>2, <1>3, LoopsRun, Zenon
<1>6. IsLoop(s)
  <2>1. s \in [0..m -> G] /\ s[0] = <<>> /\ \A i \in 1..m : s[i] = step[i][s[i - 1]]
    <3> HIDE DEF step
    <3> QED BY <1>5 DEF RunsLoop
  <2>2. ASSUME NEW i \in 0..m, i # 0 PROVE s[i] = Mapped(s[i - 1], answer[i])
    <3>1. i \in 1..m /\ i - 1 \in 0..m
      BY <1>1, <2>2
    <3> QED BY <2>1, <3>1
  <2> QED BY <2>1, <2>2
<1>7. IsLoop(up)
  <2> HIDE DEF IsLoop
  <2> QED BY <1>6
<1> HIDE DEF up
<1>8. \A i \in 0..m : up[i] = IF i = 0 THEN <<>> ELSE Mapped(up[i - 1], answer[i])
  BY <1>7
<1> HIDE DEF IsLoop
<1>9. up[0] = <<>> /\ \A i \in 1..m : up[i] = Mapped(up[i - 1], answer[i])
  <2>1. 0 \in 0..m /\ \A i \in 1..m : i \in 0..m /\ i # 0
    BY <1>1
  <2> QED BY <1>8, <2>1
<1>10. \A i \in 0..m : up[i] \in G
  <2>1. \A i \in 1..m : up[i - 1] \in G => up[i] = step[i][up[i - 1]]
    BY <1>9
  <2> HIDE DEF step
  <2> QED BY <1>1, <1>2, <1>3, <1>9, <2>1, LoopStays, Zenon
<1> QED BY <1>1, <1>4, <1>10 DEF G

\* A model selects among what the scan found, it never adds.
LEMMA SelectedIsScanned == \A p : Selected(p) \subseteq scan(body)
  BY DEF Selected

\* The quotations a model may give, one by one.
LEMMA QuotesAre ==
  \A q : q \in Quotes <=> \/ \E answer \in TtpAnswers : \E i \in DOMAIN answer : q = answer[i].quote
                          \/ q \in UNION Diamonds
<1> DEFINE Of(answer) == {answer[i].quote : i \in DOMAIN answer}
<1>1. \A q, answer : q \in Of(answer) <=> \E i \in DOMAIN answer : q = answer[i].quote
  OBVIOUS
<1>2. Quotes = (UNION {Of(answer) : answer \in TtpAnswers}) \cup (UNION Diamonds)
  BY DEF Quotes
<1> HIDE DEF Of
<1>3. \A q : q \in Quotes <=> \/ q \in UNION {Of(answer) : answer \in TtpAnswers}
                               \/ q \in UNION Diamonds
  BY <1>2, Zenon
<1>4. \A q : q \in UNION {Of(answer) : answer \in TtpAnswers} <=> \E answer \in TtpAnswers : q \in Of(answer)
  BY Zenon
<1> QED BY <1>1, <1>3, <1>4, Zenon

\* Nothing is stored at first.
LEMMA GroundingStarts == GroundingInit => GroundingInv
<1> SUFFICES ASSUME GroundingInit PROVE GroundingInv
  OBVIOUS
<1>1. <<>> \in KeptFrom(read.ttps)
  BY GroundingAssumption DEF KeptFrom, Anchored, OneEach
<1> QED BY <1>1 DEF GroundingInit, GroundingInv

\* Each step keeps it: a table is written from the body of that moment, and
\* what replaces the body leaves the tables and what they were read from.
LEMMA GroundingStep == GroundingInv /\ [GroundingNext]_groundingVars => GroundingInv'
<1> SUFFICES ASSUME GroundingInv, [GroundingNext]_groundingVars PROVE GroundingInv'
  OBVIOUS
<1>0. /\ body \in Bodies /\ bundle \in Bundles /\ read \in [iocs : Bodies, ttps : Bodies]
      /\ iocs \subseteq scan(read.iocs) /\ ttps \in KeptFrom(read.ttps) /\ diamond \subseteq Quotes
  BY DEF GroundingInv
<1>1. ASSUME NEW answer \in IocAnswers, GroundIocs(answer) PROVE GroundingInv'
  <2>1. iocs' \subseteq scan(body)
    BY <1>1, SelectedIsScanned DEF GroundIocs
  <2>2. read' \in [iocs : Bodies, ttps : Bodies] /\ read'.iocs = body /\ read'.ttps = read.ttps
    BY <1>0, <1>1 DEF GroundIocs
  <2>3. UNCHANGED <<body, bundle, ttps, diamond>>
    BY <1>1 DEF GroundIocs
  <2> QED BY <1>0, <2>1, <2>2, <2>3 DEF GroundingInv
<1>2. ASSUME NEW answer \in TtpAnswers, GroundTtps(answer) PROVE GroundingInv'
  <2>1. ttps' \in KeptFrom(body)
    BY <1>0, <1>2, GroundTtpsKeeps
  <2>2. read' \in [iocs : Bodies, ttps : Bodies] /\ read'.ttps = body /\ read'.iocs = read.iocs
    BY <1>0, <1>2 DEF GroundTtps
  <2>3. UNCHANGED <<body, bundle, iocs, diamond>>
    BY <1>2 DEF GroundTtps
  <2> QED BY <1>0, <2>1, <2>2, <2>3 DEF GroundingInv
<1>3. ASSUME NEW answer \in Sketches, _ground_sketch(answer) PROVE GroundingInv'
  BY <1>0, <1>3 DEF _ground_sketch, GroundingInv
<1>4. ASSUME NEW answer \in Diamonds, _ground_diamond(answer) PROVE GroundingInv'
  <2>1. diamond' \subseteq Quotes
    <3>1. diamond' \subseteq answer
      BY <1>4 DEF _ground_diamond
    <3>2. answer \subseteq UNION Diamonds
      BY <1>4
    <3> QED BY <3>1, <3>2, QuotesAre
  <2> QED BY <1>0, <1>4, <2>1 DEF _ground_diamond, GroundingInv
<1>5. ASSUME NEW b \in Bodies, ReplaceBody(b) PROVE GroundingInv'
  BY <1>0, <1>5 DEF ReplaceBody, GroundingInv
<1>6. ASSUME NEW b \in Bundles, NewBundle(b) PROVE GroundingInv'
  BY <1>0, <1>6 DEF NewBundle, GroundingInv
<1>7. CASE UNCHANGED groundingVars
  BY <1>0, <1>7 DEF groundingVars, GroundingInv
<1> QED
  BY <1>1, <1>2, <1>3, <1>4, <1>5, <1>6, <1>7 DEF GroundingNext

LEMMA GroundingHolds == GroundingSpec => []GroundingInv
  BY GroundingStarts, GroundingStep, PTL DEF GroundingSpec

LEMMA QuotesAreTexts == Quotes \subseteq Text
<1>1. UNION Diamonds \subseteq Text
  BY GroundingAssumption
<1>2. ASSUME NEW answer \in TtpAnswers, NEW i \in DOMAIN answer PROVE answer[i].quote \in Text
  <2>1. answer \in Seq(Mapping)
    BY GroundingAssumption DEF Mapping
  <2>2. answer[i] \in Mapping
    BY <2>1
  <2> QED BY <2>2 DEF Mapping
<1> QED BY <1>1, <1>2, QuotesAre

LEMMA BodiesAreTexts == Bodies \subseteq Text
  BY GroundingAssumption

\* The types; every span lies in the body it was read from; an indicator is
\* stored once, and a technique once under its live id, within the cap: for
\* any bodies, indicators, bundles and answers.
THEOREM GroundingTypeCorrect == GroundingSpec => []GroundingTypeOK
<1>1. GroundingInv => GroundingTypeOK
  <2> SUFFICES ASSUME GroundingInv PROVE GroundingTypeOK
    OBVIOUS
  <2>0. /\ body \in Bodies /\ bundle \in Bundles /\ read \in [iocs : Bodies, ttps : Bodies]
        /\ iocs \subseteq scan(read.iocs) /\ ttps \in KeptFrom(read.ttps) /\ diamond \subseteq Quotes
    BY DEF GroundingInv
  <2>1. read.iocs \in Text /\ read.ttps \in Text
    BY <2>0, BodiesAreTexts
  <2>2. ASSUME NEW r \in iocs
        PROVE  r.value \in WellFormed /\ r.from \in 1..r.to /\ r.to <= Len(read.iocs)
    BY <2>0, <2>1, ScannedStands
  <2>3. \A r, s \in iocs : r.value = s.value => r = s
    BY <2>0, ScannedOnce
  <2>4. ttps \in Seq(Row) /\ Len(ttps) <= MAX_TTPS /\ Anchored(ttps, read.ttps) /\ OneEach(ttps)
    BY <2>0 DEF KeptFrom
  <2>5. ASSUME NEW i \in DOMAIN ttps
        PROVE  /\ ttps[i].technique \in Techniques
               /\ ttps[i].from \in 1..ttps[i].to /\ ttps[i].to <= Len(read.ttps)
    <3>1. ttps[i] \in Row
      BY <2>4
    <3>2. ttps[i].technique \in Techniques /\ ttps[i].quote \in Text
      BY <3>1 DEF Row
    <3>3. /\ find_quote(read.ttps, ttps[i].quote) # Nothing
          /\ ttps[i].from = find_quote(read.ttps, ttps[i].quote).from
          /\ ttps[i].to = find_quote(read.ttps, ttps[i].quote).to
      BY <2>4 DEF Anchored
    <3>4. LET span == find_quote(read.ttps, ttps[i].quote)
          IN  span.from \in 1..span.to /\ span.to <= Len(read.ttps)
      BY <2>1, <3>2, <3>3, FoundWherePlaced
    <3> QED BY <3>2, <3>3, <3>4
  <2> QED BY <2>0, <2>2, <2>3, <2>4, <2>5 DEF GroundingTypeOK, OneEach
<1> QED
  BY <1>1, GroundingHolds, PTL

\* A stored span shows what it stands for (tables.py, span_start and span_end):
\* as long as the body is the one that was read, whole words of it, the pieces
\* of an elided quotation in their order, from the first to the last.
THEOREM SpansShowTheirQuotes == GroundingSpec => []SpansQuote
<1>1. GroundingInv => SpansQuote
  <2> SUFFICES ASSUME GroundingInv PROVE SpansQuote
    OBVIOUS
  <2> DEFINE n == Normal(body)
             t == Chars(n)
  <2>0. body \in Text /\ iocs \subseteq scan(read.iocs) /\ ttps \in KeptFrom(read.ttps)
    BY BodiesAreTexts DEF GroundingInv
  <2>1. ASSUME read.iocs = body, NEW r \in iocs
        PROVE  \E k \in DOMAIN t : /\ WholeWords(r.value, t, k)
                                   /\ n[k].at = r.from /\ n[k + Len(r.value) - 1].at = r.to
    BY <2>0, <2>1, ScannedStands
  <2>2. ASSUME read.ttps = body, NEW i \in DOMAIN ttps
        PROVE  \E place \in Placings(ttps[i].quote, t) :
                 LET last == Len(Segments(ttps[i].quote))
                     tail == Needle(Segments(ttps[i].quote)[last])
                 IN  n[place[1]].at = ttps[i].from /\ n[place[last] + Len(tail) - 1].at = ttps[i].to
    <3>1. ttps \in Seq(Row) /\ Anchored(ttps, body)
      BY <2>0, <2>2 DEF KeptFrom
    <3>2. ttps[i] \in Row
      BY <3>1
    <3>3. ttps[i].quote \in Text
      BY <3>2 DEF Row
    <3>4. /\ find_quote(body, ttps[i].quote) # Nothing
          /\ ttps[i].from = find_quote(body, ttps[i].quote).from
          /\ ttps[i].to = find_quote(body, ttps[i].quote).to
      BY <3>1 DEF Anchored
    <3> QED BY <2>0, <3>3, <3>4, FoundWherePlaced
  <2> QED BY <2>1, <2>2 DEF SpansQuote
<1> QED
  BY <1>1, GroundingHolds, PTL

\* find_quote never goes back, and need not: whatever the body and the
\* quotation, it refuses only what cannot be placed, and finds only what can.
THEOREM RefusesOnlyTheAbsent == GroundingSpec => []RefusedOnlyIfAbsent
<1>1. GroundingInv => RefusedOnlyIfAbsent
  <2> SUFFICES ASSUME GroundingInv, NEW quote \in Quotes, Segments(quote) # <<>>
               PROVE  Found(quote) <=> Placings(quote, Chars(Normal(body))) # {}
    BY DEF RefusedOnlyIfAbsent
  <2>1. body \in Text /\ quote \in Text
    BY BodiesAreTexts, QuotesAreTexts DEF GroundingInv
  <2>2. ASSUME Found(quote) PROVE Placings(quote, Chars(Normal(body))) # {}
    <3>1. find_quote(body, quote) # Nothing
      BY <2>2 DEF Found
    <3>2. PICK place \in Placings(quote, Chars(Normal(body))) : TRUE
      BY <2>1, <3>1, FoundWherePlaced
    <3> QED BY <3>2
  <2>3. ASSUME NEW place \in Placings(quote, Chars(Normal(body))) PROVE Found(quote)
    BY <2>1, FoundIfPlaced DEF Found
  <2> QED BY <2>2, <2>3
<1> QED
  BY <1>1, GroundingHolds, PTL

-----------------------------------------------------------------------------
(* Arithmetic. *)

\* A sum of scores divided by its weights is a score, for the four sums the
\* kinds have.
LEMMA WeightedOnScale ==
  ASSUME NEW x \in Scores, NEW y \in Scores, NEW z \in Scores, NEW w \in Scores
  PROVE  /\ (4 * x + 3 * y + 2 * z + 0 * w) \div 9 \in Scores
         /\ (4 * x + 3 * y + 2 * z + 1 * w) \div 10 \in Scores
         /\ (0 * x + 3 * y + 0 * z + 0 * w) \div 3 \in Scores
         /\ (4 * x + 3 * y + 0 * z + 0 * w) \div 7 \in Scores
<1>1. x \in Int /\ y \in Int /\ z \in Int /\ w \in Int
      /\ 0 <= x /\ x <= 1000 /\ 0 <= y /\ y <= 1000 /\ 0 <= z /\ z <= 1000 /\ 0 <= w /\ w <= 1000
  BY DEF Scores
<1>2. (4 * x + 3 * y + 2 * z + 0 * w) \div 9 \in Scores
  <2> DEFINE sum == 4 * x + 3 * y + 2 * z + 0 * w
  <2>1. sum \in Int /\ 0 <= sum /\ sum <= 9000
    BY <1>1
  <2> HIDE DEF sum
  <2>2. sum \div 9 \in Scores
    BY <2>1 DEF Scores
  <2> QED BY <2>2 DEF sum
<1>3. (4 * x + 3 * y + 2 * z + 1 * w) \div 10 \in Scores
  <2> DEFINE sum == 4 * x + 3 * y + 2 * z + 1 * w
  <2>1. sum \in Int /\ 0 <= sum /\ sum <= 10000
    BY <1>1
  <2> HIDE DEF sum
  <2>2. sum \div 10 \in Scores
    BY <2>1 DEF Scores
  <2> QED BY <2>2 DEF sum
<1>4. (0 * x + 3 * y + 0 * z + 0 * w) \div 3 \in Scores
  <2> DEFINE sum == 0 * x + 3 * y + 0 * z + 0 * w
  <2>1. sum \in Int /\ 0 <= sum /\ sum <= 3000
    BY <1>1
  <2> HIDE DEF sum
  <2>2. sum \div 3 \in Scores
    BY <2>1 DEF Scores
  <2> QED BY <2>2 DEF sum
<1>5. (4 * x + 3 * y + 0 * z + 0 * w) \div 7 \in Scores
  <2> DEFINE sum == 4 * x + 3 * y + 0 * z + 0 * w
  <2>1. sum \in Int /\ 0 <= sum /\ sum <= 7000
    BY <1>1
  <2> HIDE DEF sum
  <2>2. sum \div 7 \in Scores
    BY <2>1 DEF Scores
  <2> QED BY <2>2 DEF sum
<1> QED BY <1>2, <1>3, <1>4, <1>5

\* The composite of every kind stays on the scale of its measurements
\* (composite.py:211-213): the weights that remain are the ones divided by.
LEMMA CompositeOnScale ==
  ASSUME NEW c, NEW k \in Kinds,
         \A n \in {"anchor", "critic", "schema", "self"} : c[n] \in Measured
  PROVE  composite(c, NotApplicable[k]) \in Scores
<1> DEFINE value(n) == IF c[n] = Missing THEN Neutral ELSE c[n]
<1>1. /\ value("anchor") \in Scores /\ value("critic") \in Scores
      /\ value("schema") \in Scores /\ value("self") \in Scores
  BY DEF Measured, Scores, Missing, Neutral
<1>2. CASE k = "ioc"
  <2>1. WeightOf("anchor", NotApplicable[k]) = 4 /\ WeightOf("critic", NotApplicable[k]) = 3
        /\ WeightOf("schema", NotApplicable[k]) = 2 /\ WeightOf("self", NotApplicable[k]) = 0
    BY <1>2 DEF WeightOf, Weight, NotApplicable
  <2>2. composite(c, NotApplicable[k])
          = (4 * value("anchor") + 3 * value("critic") + 2 * value("schema") + 0 * value("self")) \div 9
    BY <2>1 DEF composite
  <2> HIDE DEF value
  <2> QED BY <2>2, <1>1, WeightedOnScale
<1>3. CASE k = "ttp"
  <2>1. WeightOf("anchor", NotApplicable[k]) = 4 /\ WeightOf("critic", NotApplicable[k]) = 3
        /\ WeightOf("schema", NotApplicable[k]) = 2 /\ WeightOf("self", NotApplicable[k]) = 1
    BY <1>3 DEF WeightOf, Weight, NotApplicable
  <2>2. composite(c, NotApplicable[k])
          = (4 * value("anchor") + 3 * value("critic") + 2 * value("schema") + 1 * value("self")) \div 10
    BY <2>1 DEF composite
  <2> HIDE DEF value
  <2> QED BY <2>2, <1>1, WeightedOnScale
<1>4. CASE k = "narrative"
  <2>1. WeightOf("anchor", NotApplicable[k]) = 0 /\ WeightOf("critic", NotApplicable[k]) = 3
        /\ WeightOf("schema", NotApplicable[k]) = 0 /\ WeightOf("self", NotApplicable[k]) = 0
    BY <1>4 DEF WeightOf, Weight, NotApplicable
  <2>2. composite(c, NotApplicable[k])
          = (0 * value("anchor") + 3 * value("critic") + 0 * value("schema") + 0 * value("self")) \div 3
    BY <2>1 DEF composite
  <2> HIDE DEF value
  <2> QED BY <2>2, <1>1, WeightedOnScale
<1>5. CASE k = "sketch"
  <2>1. WeightOf("anchor", NotApplicable[k]) = 4 /\ WeightOf("critic", NotApplicable[k]) = 3
        /\ WeightOf("schema", NotApplicable[k]) = 0 /\ WeightOf("self", NotApplicable[k]) = 0
    BY <1>5 DEF WeightOf, Weight, NotApplicable
  <2>2. composite(c, NotApplicable[k])
          = (4 * value("anchor") + 3 * value("critic") + 0 * value("schema") + 0 * value("self")) \div 7
    BY <2>1 DEF composite
  <2> HIDE DEF value
  <2> QED BY <2>2, <1>1, WeightedOnScale
<1> QED BY <1>2, <1>3, <1>4, <1>5 DEF Kinds

\* A score lies among the measurements its kind has, and reaches the greatest
\* only if all of them do.
Spans(c, k, raw) ==
  LET value(n) == IF c[n] = Missing THEN Neutral ELSE c[n]
      signals  == DOMAIN Weight \ NotApplicable[k]
  IN  /\ \E n \in signals : value(n) <= raw
      /\ (\E n \in signals : raw < value(n)) \/ (\A n \in signals : raw = value(n))

\* Weights that are positive make an average of what they weigh.
LEMMA WeightedSpans ==
  ASSUME NEW p \in Scores, NEW q \in Scores, NEW r \in Scores, NEW s \in Scores
  PROVE  /\ LET m == (4 * p + 3 * q + 2 * r + 1 * s) \div 10
            IN  /\ p <= m \/ q <= m \/ r <= m \/ s <= m
                /\ (m < p \/ m < q \/ m < r \/ m < s) \/ (m = p /\ m = q /\ m = r /\ m = s)
         /\ LET m == (4 * p + 3 * q + 2 * r + 0 * s) \div 9
            IN  /\ p <= m \/ q <= m \/ r <= m
                /\ (m < p \/ m < q \/ m < r) \/ (m = p /\ m = q /\ m = r)
         /\ LET m == (4 * p + 3 * q + 0 * r + 0 * s) \div 7
            IN  /\ p <= m \/ q <= m
                /\ (m < p \/ m < q) \/ (m = p /\ m = q)
         /\ (0 * p + 3 * q + 0 * r + 0 * s) \div 3 = q
<1>1. p \in Int /\ q \in Int /\ r \in Int /\ s \in Int
  BY DEF Scores
<1> DEFINE ten == 4 * p + 3 * q + 2 * r + 1 * s
           nine == 4 * p + 3 * q + 2 * r + 0 * s
           seven == 4 * p + 3 * q + 0 * r + 0 * s
<1>2. LET m == ten \div 10
      IN  /\ p <= m \/ q <= m \/ r <= m \/ s <= m
          /\ (m < p \/ m < q \/ m < r \/ m < s) \/ (m = p /\ m = q /\ m = r /\ m = s)
  BY <1>1
<1>3. LET m == nine \div 9
      IN  /\ p <= m \/ q <= m \/ r <= m
          /\ (m < p \/ m < q \/ m < r) \/ (m = p /\ m = q /\ m = r)
  BY <1>1
<1>4. LET m == seven \div 7
      IN  /\ p <= m \/ q <= m
          /\ (m < p \/ m < q) \/ (m = p /\ m = q)
  BY <1>1
<1>5. (0 * p + 3 * q + 0 * r + 0 * s) \div 3 = q
  BY <1>1
<1> QED BY <1>2, <1>3, <1>4, <1>5

LEMMA CompositeSpans ==
  ASSUME NEW c, NEW k \in Kinds,
         \A n \in {"anchor", "critic", "schema", "self"} : c[n] \in Measured
  PROVE  Spans(c, k, composite(c, NotApplicable[k]))
<1> DEFINE value(n) == IF c[n] = Missing THEN Neutral ELSE c[n]
           raw == composite(c, NotApplicable[k])
<1>1. /\ value("anchor") \in Scores /\ value("critic") \in Scores
      /\ value("schema") \in Scores /\ value("self") \in Scores
  BY DEF Measured, Scores, Missing, Neutral
<1>2. DOMAIN Weight = {"anchor", "critic", "schema", "self"}
  BY DEF Weight
<1>3. CASE k = "ioc"
  <2>1. WeightOf("anchor", NotApplicable[k]) = 4 /\ WeightOf("critic", NotApplicable[k]) = 3
        /\ WeightOf("schema", NotApplicable[k]) = 2 /\ WeightOf("self", NotApplicable[k]) = 0
        /\ DOMAIN Weight \ NotApplicable[k] = {"anchor", "critic", "schema"}
    BY <1>2, <1>3 DEF WeightOf, Weight, NotApplicable
  <2>2. raw = (4 * value("anchor") + 3 * value("critic") + 2 * value("schema") + 0 * value("self")) \div 9
    BY <2>1 DEF composite
  <2>3. Spans(c, k, raw) <=>
          /\ value("anchor") <= raw \/ value("critic") <= raw \/ value("schema") <= raw
          /\ (raw < value("anchor") \/ raw < value("critic") \/ raw < value("schema")) \/ (raw = value("anchor") /\ raw = value("critic") /\ raw = value("schema"))
    BY <2>1 DEF Spans
  <2> HIDE DEF value, raw
  <2>4. LET m == (4 * value("anchor") + 3 * value("critic") + 2 * value("schema") + 0 * value("self")) \div 9
        IN  /\ value("anchor") <= m \/ value("critic") <= m \/ value("schema") <= m
            /\ (m < value("anchor") \/ m < value("critic") \/ m < value("schema")) \/ (m = value("anchor") /\ m = value("critic") /\ m = value("schema"))
    BY <1>1, WeightedSpans
  <2> QED BY <2>2, <2>3, <2>4 DEF raw
<1>4. CASE k = "ttp"
  <2>1. WeightOf("anchor", NotApplicable[k]) = 4 /\ WeightOf("critic", NotApplicable[k]) = 3
        /\ WeightOf("schema", NotApplicable[k]) = 2 /\ WeightOf("self", NotApplicable[k]) = 1
        /\ DOMAIN Weight \ NotApplicable[k] = {"anchor", "critic", "schema", "self"}
    BY <1>2, <1>4 DEF WeightOf, Weight, NotApplicable
  <2>2. raw = (4 * value("anchor") + 3 * value("critic") + 2 * value("schema") + 1 * value("self")) \div 10
    BY <2>1 DEF composite
  <2>3. Spans(c, k, raw) <=>
          /\ value("anchor") <= raw \/ value("critic") <= raw \/ value("schema") <= raw \/ value("self") <= raw
          /\ (raw < value("anchor") \/ raw < value("critic") \/ raw < value("schema") \/ raw < value("self")) \/ (raw = value("anchor") /\ raw = value("critic") /\ raw = value("schema") /\ raw = value("self"))
    BY <2>1 DEF Spans
  <2> HIDE DEF value, raw
  <2>4. LET m == (4 * value("anchor") + 3 * value("critic") + 2 * value("schema") + 1 * value("self")) \div 10
        IN  /\ value("anchor") <= m \/ value("critic") <= m \/ value("schema") <= m \/ value("self") <= m
            /\ (m < value("anchor") \/ m < value("critic") \/ m < value("schema") \/ m < value("self")) \/ (m = value("anchor") /\ m = value("critic") /\ m = value("schema") /\ m = value("self"))
    BY <1>1, WeightedSpans
  <2> QED BY <2>2, <2>3, <2>4 DEF raw
<1>5. CASE k = "narrative"
  <2>1. WeightOf("anchor", NotApplicable[k]) = 0 /\ WeightOf("critic", NotApplicable[k]) = 3
        /\ WeightOf("schema", NotApplicable[k]) = 0 /\ WeightOf("self", NotApplicable[k]) = 0
        /\ DOMAIN Weight \ NotApplicable[k] = {"critic"}
    BY <1>2, <1>5 DEF WeightOf, Weight, NotApplicable
  <2>2. raw = (0 * value("anchor") + 3 * value("critic") + 0 * value("schema") + 0 * value("self")) \div 3
    BY <2>1 DEF composite
  <2>3. Spans(c, k, raw) <=>
          value("critic") <= raw /\ (raw < value("critic") \/ raw = value("critic"))
    BY <2>1 DEF Spans
  <2> HIDE DEF value, raw
  <2>4. value("critic") \in Int
    BY <1>1 DEF Scores
  <2>5. raw = value("critic")
    BY <2>2, <1>1, WeightedSpans
  <2> QED BY <2>3, <2>4, <2>5 DEF raw
<1>6. CASE k = "sketch"
  <2>1. WeightOf("anchor", NotApplicable[k]) = 4 /\ WeightOf("critic", NotApplicable[k]) = 3
        /\ WeightOf("schema", NotApplicable[k]) = 0 /\ WeightOf("self", NotApplicable[k]) = 0
        /\ DOMAIN Weight \ NotApplicable[k] = {"anchor", "critic"}
    BY <1>2, <1>6 DEF WeightOf, Weight, NotApplicable
  <2>2. raw = (4 * value("anchor") + 3 * value("critic") + 0 * value("schema") + 0 * value("self")) \div 7
    BY <2>1 DEF composite
  <2>3. Spans(c, k, raw) <=>
          /\ value("anchor") <= raw \/ value("critic") <= raw
          /\ (raw < value("anchor") \/ raw < value("critic")) \/ (raw = value("anchor") /\ raw = value("critic"))
    BY <2>1 DEF Spans
  <2> HIDE DEF value, raw
  <2>4. LET m == (4 * value("anchor") + 3 * value("critic") + 0 * value("schema") + 0 * value("self")) \div 7
        IN  /\ value("anchor") <= m \/ value("critic") <= m
            /\ (m < value("anchor") \/ m < value("critic")) \/ (m = value("anchor") /\ m = value("critic"))
    BY <1>1, WeightedSpans
  <2> QED BY <2>2, <2>3, <2>4 DEF raw
<1> QED BY <1>3, <1>4, <1>5, <1>6 DEF Kinds

\* The axes only take away: the total is a score (grading.py:197-199).
LEMMA TotalOnScale ==
  ASSUME NEW raw \in Scores, NEW g, NEW info
  PROVE  apply_axes(raw, g, info) \in Scores
<1>1. Factor(SourceFactors, g) \in 0..100
  BY DEF Factor, SourceFactors
<1>2. Factor(InfoFactors, info) \in 0..100
  BY DEF Factor, InfoFactors
<1> DEFINE f == Factor(SourceFactors, g)
           h == Factor(InfoFactors, info)
           once == raw * f
           twice == once * h
<1> HIDE DEF f, h
<1>3. raw \in Int /\ 0 <= raw /\ raw <= 1000 /\ f \in Int /\ 0 <= f /\ f <= 100
      /\ h \in Int /\ 0 <= h /\ h <= 100
  BY <1>1, <1>2 DEF Scores, f, h
<1>4. once \in Int /\ 0 <= once /\ once <= 100000
  BY <1>3
<1> HIDE DEF once
<1>5. twice \in Int /\ 0 <= twice /\ twice <= 10000000
  BY <1>3, <1>4
<1> HIDE DEF twice
<1>6. apply_axes(raw, g, info) = twice \div 10000
  BY DEF apply_axes, twice, once, f, h
<1> QED BY <1>5, <1>6 DEF Scores

\* A local run is held to floors at least as high (thresholds.py:15-19).
LEMMA LiftRaises ==
  ASSUME NEW floor \in Scores, NEW t \in Tuning
  PROVE  /\ Lifted(floor, t, FALSE) \in Scores /\ Lifted(floor, t, TRUE) \in Scores
         /\ Lifted(floor, t, FALSE) <= Lifted(floor, t, TRUE)
<1> DEFINE lift == t.lift
           low == Lifted(floor, t, FALSE)
           high == Lifted(floor, t, TRUE)
<1>1. lift \in Scores
  BY DEF Tuning
<1>2. low = IF floor + 0 > 1000 THEN 1000 ELSE floor + 0
  BY DEF Lifted
<1>3. high = IF floor + lift > 1000 THEN 1000 ELSE floor + lift
  BY DEF Lifted
<1> HIDE DEF lift, low, high
<1>4. low \in Scores /\ high \in Scores /\ low <= high
  BY <1>1, <1>2, <1>3 DEF Scores
<1> QED BY <1>4 DEF low, high

\* The lift never lowers a floor.
LEMMA LiftedAbove ==
  ASSUME NEW floor \in Scores, NEW t \in Tuning, NEW localRun \in BOOLEAN
  PROVE  Lifted(floor, t, localRun) \in Scores /\ floor <= Lifted(floor, t, localRun)
<1> DEFINE lift == IF localRun THEN t.lift ELSE 0
           lifted == Lifted(floor, t, localRun)
<1>1. lift \in Scores
  BY DEF Tuning, Scores
<1>2. lifted = IF floor + lift > 1000 THEN 1000 ELSE floor + lift
  BY DEF Lifted
<1> HIDE DEF lift, lifted
<1>3. lifted \in Scores /\ floor <= lifted
  BY <1>1, <1>2 DEF Scores
<1> QED BY <1>3 DEF lifted

-----------------------------------------------------------------------------
(* What is scored. *)

\* Every measurement of a finding is a score or missing.
LEMMA ComponentsMeasured ==
  ASSUME TypeOK, NEW a \in Articles, Analysed(a), NEW k \in Kinds
  PROVE  \A n \in {"anchor", "critic", "schema", "self"} : Components(a, k)[n] \in Measured
<1>1. analysis[a] \in Analysis
  BY DEF TypeOK, Analysed
<1>2. /\ analysis[a].critic \in Measured
      /\ analysis[a].context \in Measured
      /\ k # "narrative" => analysis[a].anchor[k] \in Measured
  BY <1>1 DEF Analysis, Measured, Scores, Kinds
<1>3. k \in Rows => confidence[a][k] \in Measured
  BY DEF TypeOK
<1>4. k = "ttp" => k \in Rows
  BY DEF Rows
<1>5. Missing \in Measured
  BY DEF Measured
<1> DEFINE stored == IF k \in Rows THEN confidence[a][k] ELSE Missing
<1>6. stored \in Measured
  BY <1>3, <1>5
<1>7. Components(a, k) = Measurements(k, analysis[a], stored)
  BY DEF Components
<1> HIDE DEF stored
<1> QED BY <1>2, <1>5, <1>6, <1>7 DEF Measurements

\* What is scored is a verdict (gate.py:148-172).
LEMMA ScoredIsVerdict ==
  ASSUME TypeOK, NEW a \in Articles, Analysed(a), NEW k \in Kinds, NEW localRun \in BOOLEAN
  PROVE  /\ Scored(a, k, localRun) \in Verdict
         /\ Scored(a, k, localRun).raw = composite(Components(a, k), NotApplicable[k])
         /\ Scored(a, k, localRun).info = InfoGrade(a, k)
         /\ Scored(a, k, localRun).critic = analysis[a].critic
         /\ Scored(a, k, localRun).decision
              = decide(composite(Components(a, k), NotApplicable[k]), grade[Source[a]], InfoGrade(a, k),
                       Lifted(tuning.floor[k], tuning, localRun), Lifted(tuning.overall, tuning, localRun))
<1> DEFINE raw == composite(Components(a, k), NotApplicable[k])
           total == apply_axes(raw, grade[Source[a]], InfoGrade(a, k))
           answer == decide(raw, grade[Source[a]], InfoGrade(a, k),
                            Lifted(tuning.floor[k], tuning, localRun), Lifted(tuning.overall, tuning, localRun))
<1>1. raw \in Scores
  BY ComponentsMeasured, CompositeOnScale
<1>2. total \in Scores
  BY <1>1, TotalOnScale
<1>3. InfoGrade(a, k) \in InfoGrades
  BY DEF InfoGrade, InfoGrades
<1>4. analysis[a].critic \in Measured
  BY DEF TypeOK, Analysed, Analysis
<1>5. answer \in Decisions
  BY DEF decide, Decisions
<1>6. Scored(a, k, localRun) =
        [kind |-> "verdict", raw |-> raw, total |-> total, info |-> InfoGrade(a, k),
         critic |-> analysis[a].critic, decision |-> answer]
  BY DEF Scored, VerdictOn
<1> HIDE DEF raw, total, answer
<1>7. Scored(a, k, localRun) \in Verdict
  BY <1>1, <1>2, <1>3, <1>4, <1>5, <1>6 DEF Verdict
<1>8. /\ Scored(a, k, localRun).raw = raw
      /\ Scored(a, k, localRun).info = InfoGrade(a, k)
      /\ Scored(a, k, localRun).critic = analysis[a].critic
      /\ Scored(a, k, localRun).decision = answer
  BY <1>6
<1> QED BY <1>7, <1>8 DEF raw, answer

\* Whatever passes on a local model passes on the others.
LEMMA LocalPassesAnyway ==
  ASSUME TypeOK, NEW a \in Articles, Analysed(a), NEW k \in Kinds,
         Scored(a, k, TRUE).decision = "auto"
  PROVE  Scored(a, k, FALSE).decision = "auto"
<1> DEFINE raw == composite(Components(a, k), NotApplicable[k])
           veto == unjudgeable(grade[Source[a]], InfoGrade(a, k))
           floorT == Lifted(tuning.floor[k], tuning, TRUE)
           floorF == Lifted(tuning.floor[k], tuning, FALSE)
           overallT == Lifted(tuning.overall, tuning, TRUE)
           overallF == Lifted(tuning.overall, tuning, FALSE)
<1>1. tuning \in Tuning /\ tuning.floor[k] \in Scores /\ tuning.overall \in Scores
  BY GateAssumption DEF TypeOK, Tuning
<1>2. raw \in Scores
  BY ComponentsMeasured, CompositeOnScale
<1>3. floorF \in Scores /\ floorT \in Scores /\ floorF <= floorT
      /\ overallF \in Scores /\ overallT \in Scores /\ overallF <= overallT
  BY <1>1, LiftRaises
<1>4. ~(veto \/ raw < floorT \/ raw < overallT)
  BY ScoredIsVerdict DEF decide
<1>5. Scored(a, k, FALSE).decision
        = IF veto \/ raw < floorF \/ raw < overallF THEN "staged" ELSE "auto"
  BY ScoredIsVerdict DEF decide
<1> HIDE DEF raw, veto, floorT, floorF, overallT, overallF
<1>6. ~(veto \/ raw < floorF \/ raw < overallF)
  BY <1>2, <1>3, <1>4 DEF Scores
<1> QED BY <1>5, <1>6

-----------------------------------------------------------------------------
(* Types. *)

LEMMA TypeInit == Init => TypeOK
<1> SUFFICES ASSUME Init PROVE TypeOK
  OBVIOUS
<1>1. grade \in [Sources -> SourceGrades]
  BY GateAssumption DEF Init, SourceGrades
<1>2. confidence \in [Articles -> [Rows -> Measured]]
  BY DEF Init, Measured
<1>3. staged \in [Articles -> [Kinds -> Verdict \cup {None}]]
  BY DEF Init
<1>4. gatings \in 0..MaxGatings /\ changes \in 0..MaxChanges
  BY GateAssumption DEF Init
<1>5. tuning \in Tunings
  BY GateAssumption DEF Init
<1> QED BY <1>1, <1>2, <1>3, <1>4, <1>5 DEF Init, TypeOK

\* An intervention counts itself.
LEMMA ChangesBounded ==
  ASSUME TypeOK, Intervene
  PROVE  changes' \in 0..MaxChanges
BY GateAssumption DEF TypeOK, Intervene

LEMMA TypeAnalyse ==
  ASSUME TypeOK, NEW a \in Articles, Analyse(a)
  PROVE  TypeOK'
<1> PICK found \in Analyses :
      /\ analysis' = [analysis EXCEPT ![a] = found]
      /\ confidence' = [confidence EXCEPT ![a].ttp = IF "ttp" \in found.held THEN found.self ELSE Missing]
  BY DEF Analyse
<1>1. found \in Analysis
  BY GateAssumption
<1>2. analysis' \in [Articles -> Analysis \cup {None}]
  BY <1>1 DEF TypeOK
<1> DEFINE self == IF "ttp" \in found.held THEN found.self ELSE Missing
<1>3. self \in Measured
  BY <1>1 DEF Analysis, Measured
<1>4. confidence' = [confidence EXCEPT ![a] = [confidence[a] EXCEPT !["ttp"] = self]]
  OBVIOUS
<1> HIDE DEF self
<1>5. confidence' \in [Articles -> [Rows -> Measured]]
  BY <1>3, <1>4 DEF TypeOK, Rows
<1>6. verified' \subseteq Articles
  BY DEF Analyse, TypeOK
<1> QED BY <1>2, <1>5, <1>6 DEF Analyse, TypeOK

\* A restyle changes the judge's verdict and the sketch's survival only.
LEMMA RestyledKeeps ==
  ASSUME NEW old \in Analysis, NEW found \in Analysis
  PROVE  /\ Restyled(old, found) \in Analysis
         /\ Restyled(old, found).held = old.held
         /\ Restyled(old, found).anchor["ioc"] = old.anchor["ioc"]
         /\ Restyled(old, found).context = old.context
<1> DEFINE anchor == [old.anchor EXCEPT !["sketch"] = found.anchor["sketch"]]
<1>1. /\ old.anchor \in [{"ioc", "ttp", "sketch"} -> Measured]
      /\ found.anchor \in [{"ioc", "ttp", "sketch"} -> Measured]
      /\ found.critic \in Measured
  BY DEF Analysis
<1>2. anchor \in [{"ioc", "ttp", "sketch"} -> Measured] /\ anchor["ioc"] = old.anchor["ioc"]
  BY <1>1
<1>3. Restyled(old, found) = [old EXCEPT !.critic = found.critic, !.anchor = anchor]
  BY DEF Restyled
<1> HIDE DEF anchor
<1>4. Restyled(old, found) = [held |-> old.held, anchor |-> anchor, critic |-> found.critic,
                              context |-> old.context, self |-> old.self]
  <2>1. old = [held |-> old.held, anchor |-> old.anchor, critic |-> old.critic,
               context |-> old.context, self |-> old.self]
    BY DEF Analysis
  <2> QED BY <1>3, <2>1
<1>5. old.held \in {h \in SUBSET Kinds : {"narrative", "sketch"} \subseteq h}
      /\ old.context \in {0, 1000} /\ old.self \in Scores
  BY DEF Analysis
<1> QED BY <1>1, <1>2, <1>4, <1>5 DEF Analysis

LEMMA TypeVerifyAgain ==
  ASSUME TypeOK, NEW a \in Articles, VerifyAgain(a)
  PROVE  TypeOK'
<1> PICK found \in Analyses : analysis' = [analysis EXCEPT ![a] = Restyled(analysis[a], found)]
  BY DEF VerifyAgain
<1>1. found \in Analysis /\ analysis[a] \in Analysis
  BY GateAssumption DEF VerifyAgain, TypeOK, Analysed
<1>2. Restyled(analysis[a], found) \in Analysis
  BY <1>1, RestyledKeeps
<1>3. analysis' \in [Articles -> Analysis \cup {None}]
  BY <1>2 DEF TypeOK
<1>4. verified' \subseteq Articles
  BY DEF VerifyAgain, TypeOK
<1> QED BY <1>3, <1>4 DEF VerifyAgain, TypeOK

LEMMA TypeGate ==
  ASSUME TypeOK, NEW a \in Articles, Analysed(a), NEW localRun \in BOOLEAN, Gate(a, localRun)
  PROVE  TypeOK'
<1> DEFINE verdicts == [k \in Kinds |-> IF k \in Held(a) THEN Scored(a, k, localRun) ELSE None]
           scores == [k \in Rows |-> IF k \in Held(a) THEN verdicts[k].total ELSE confidence[a][k]]
<1>1. verdicts \in [Kinds -> Verdict \cup {None}]
  BY ScoredIsVerdict
<1>2. \A k \in Rows : k \in Held(a) => verdicts[k].total \in Measured
  <2> TAKE k \in Rows
  <2> HAVE k \in Held(a)
  <2>1. k \in Kinds
    BY DEF Rows, Kinds
  <2>2. Scored(a, k, localRun) \in Verdict
    BY <2>1, ScoredIsVerdict
  <2>3. verdicts[k] = Scored(a, k, localRun)
    BY <2>1
  <2> HIDE DEF verdicts
  <2> QED BY <2>2, <2>3 DEF Verdict, Measured
<1>3. staged' = [staged EXCEPT ![a] = verdicts]
  BY DEF Gate
<1>4. confidence' = [confidence EXCEPT ![a] = scores]
  BY DEF Gate
<1> HIDE DEF verdicts
<1>5. scores \in [Rows -> Measured]
  BY <1>2 DEF TypeOK
<1> HIDE DEF scores
<1>6. staged' \in [Articles -> [Kinds -> Verdict \cup {None}]]
  BY <1>1, <1>3 DEF TypeOK
<1>7. confidence' \in [Articles -> [Rows -> Measured]]
  BY <1>4, <1>5 DEF TypeOK
<1>8. promoted' \subseteq Articles
  BY DEF Gate, TypeOK
<1>9. gatings' \in 0..MaxGatings
  BY GateAssumption DEF Gate, TypeOK
<1> QED BY <1>6, <1>7, <1>8, <1>9 DEF Gate, TypeOK

LEMMA TypeIntervention ==
  ASSUME TypeOK, \/ \E a \in Articles : ClearProse(a) \/ NameArrives(a)
                 \/ \E s \in Sources, g \in Grades : Regrade(s, g)
                 \/ \E t \in Tunings : Retune(t)
  PROVE  TypeOK'
<1>1. ASSUME NEW a \in Articles, ClearProse(a) PROVE TypeOK'
  <2>1. verified' \subseteq Articles /\ Intervene
    BY <1>1 DEF ClearProse, TypeOK
  <2> QED BY <1>1, <2>1, ChangesBounded DEF ClearProse, TypeOK
<1>2. ASSUME NEW a \in Articles, NameArrives(a) PROVE TypeOK'
  <2>1. known' \subseteq Articles /\ Intervene
    BY <1>2 DEF NameArrives, TypeOK
  <2> QED BY <1>2, <2>1, ChangesBounded DEF NameArrives, TypeOK
<1>3. ASSUME NEW s \in Sources, NEW g \in Grades, Regrade(s, g) PROVE TypeOK'
  <2>1. grade' \in [Sources -> SourceGrades] /\ Intervene
    BY <1>3, GateAssumption DEF Regrade, TypeOK, SourceGrades
  <2> QED BY <1>3, <2>1, ChangesBounded DEF Regrade, TypeOK
<1>4. ASSUME NEW t \in Tunings, Retune(t) PROVE TypeOK'
  <2>1. tuning' \in Tunings /\ Intervene
    BY <1>4 DEF Retune
  <2> QED BY <1>4, <2>1, ChangesBounded DEF Retune, TypeOK
<1> QED BY <1>1, <1>2, <1>3, <1>4

-----------------------------------------------------------------------------
(* The invariant: only what was analysed is verified, what is staged was    *)
(* found, and an indicator's score is that of its analysis under the judge's *)
(* verdict it was scored with.                                              *)

IocScore(a, critic) ==
  composite([anchor |-> analysis[a].anchor["ioc"], critic |-> critic,
             schema |-> analysis[a].context, self |-> Missing], {"self"})

Stands(a) == /\ \A k \in Kinds : staged[a][k] # None => k \in Held(a)
             /\ staged[a]["ioc"] # None => staged[a]["ioc"].raw = IocScore(a, staged[a]["ioc"].critic)

GateInv == /\ TypeOK
           /\ \A a \in verified : Analysed(a)
           /\ \A a \in Articles : Stands(a)

\* What was analysed stays, and so does what the indicator is scored on.
LEMMA AnalysisOnlyGrows ==
  ASSUME TypeOK, [Next]_vars, NEW a \in Articles, Analysed(a)
  PROVE  /\ Analysed(a)'
         /\ Held(a)' = Held(a)
         /\ \A critic : IocScore(a, critic)' = IocScore(a, critic)
<1>1. analysis[a] \in Analysis
  BY DEF TypeOK, Analysed
<1>2. ASSUME analysis'[a] = analysis[a] PROVE
         /\ Analysed(a)' /\ Held(a)' = Held(a)
         /\ \A critic : IocScore(a, critic)' = IocScore(a, critic)
  BY <1>2 DEF Analysed, Held, IocScore
<1>3. ASSUME NEW found \in Analyses, analysis'[a] = Restyled(analysis[a], found) PROVE
         /\ Analysed(a)' /\ Held(a)' = Held(a)
         /\ \A critic : IocScore(a, critic)' = IocScore(a, critic)
  <2>1. found \in Analysis
    BY GateAssumption
  <2>2. /\ analysis'[a] \in Analysis
        /\ analysis'[a].held = analysis[a].held
        /\ analysis'[a].anchor["ioc"] = analysis[a].anchor["ioc"]
        /\ analysis'[a].context = analysis[a].context
    BY <1>1, <1>3, <2>1, RestyledKeeps
  <2>3. analysis'[a] # None
    BY <2>2 DEF Analysis, None
  <2> QED BY <2>2, <2>3 DEF Analysed, Held, IocScore
<1>4. \/ analysis'[a] = analysis[a]
      \/ \E found \in Analyses : analysis'[a] = Restyled(analysis[a], found)
  <2>1. CASE \E b \in Articles : Analyse(b)
    BY <2>1 DEF Analyse, TypeOK
  <2>2. CASE \E b \in Articles : VerifyAgain(b)
    BY <2>2 DEF VerifyAgain, TypeOK
  <2>3. CASE UNCHANGED analysis
    BY <2>3
  <2> QED BY <2>1, <2>2, <2>3 DEF Next, vars, ClearProse, NameArrives, Gate, Regrade, Retune
<1> QED BY <1>2, <1>3, <1>4

\* A pass stores what stands.
LEMMA VerdictsStand ==
  ASSUME TypeOK, NEW a \in Articles, Analysed(a), NEW localRun \in BOOLEAN, "ioc" \in Held(a)
  PROVE  Scored(a, "ioc", localRun).raw = IocScore(a, Scored(a, "ioc", localRun).critic)
<1>1. Components(a, "ioc") = [anchor |-> analysis[a].anchor["ioc"], critic |-> analysis[a].critic,
                              schema |-> analysis[a].context, self |-> Missing]
  BY DEF Components, Measurements
<1>2. NotApplicable["ioc"] = {"self"}
  BY DEF NotApplicable
<1>3. "ioc" \in Kinds
  BY DEF Kinds
<1> QED BY <1>1, <1>2, <1>3, ScoredIsVerdict DEF IocScore

LEMMA StandsStep ==
  ASSUME GateInv, [Next]_vars, NEW a \in Articles
  PROVE  Stands(a)'
<1>1. TypeOK /\ Stands(a) /\ \A b \in verified : Analysed(b)
  BY DEF GateInv
<1>2. CASE staged'[a] = staged[a]
  <2>1. \A k \in Kinds : staged[a][k] # None => Analysed(a)
    BY <1>1 DEF Stands, Held
  <2>2. \A k \in Kinds : staged[a][k] # None => k \in Held(a)'
    BY <1>1, <2>1, AnalysisOnlyGrows DEF Stands
  <2>3. "ioc" \in Kinds
    BY DEF Kinds
  <2>4. staged[a]["ioc"] # None => staged[a]["ioc"].raw = IocScore(a, staged[a]["ioc"].critic)'
    <3> HAVE staged[a]["ioc"] # None
    <3>1. Analysed(a)
      BY <2>1, <2>3
    <3>2. IocScore(a, staged[a]["ioc"].critic)' = composite(
             [anchor |-> analysis'[a].anchor["ioc"], critic |-> staged'[a]["ioc"].critic,
              schema |-> analysis'[a].context, self |-> Missing], {"self"})
      BY DEF IocScore
    <3>3. \A critic : IocScore(a, critic)' = IocScore(a, critic)
      BY <1>1, <3>1, AnalysisOnlyGrows
    <3>4. \A critic : IocScore(a, critic)' = composite(
             [anchor |-> analysis'[a].anchor["ioc"], critic |-> critic,
              schema |-> analysis'[a].context, self |-> Missing], {"self"})
      BY DEF IocScore
    <3> QED BY <1>1, <1>2, <3>2, <3>3, <3>4 DEF Stands
  <2> QED BY <1>2, <2>2, <2>4 DEF Stands
<1>3. ASSUME NEW localRun \in BOOLEAN, Gate(a, localRun) PROVE Stands(a)'
  <2>1. Analysed(a)
    BY <1>1, <1>3 DEF Gate
  <2>2. \A k \in Kinds : staged'[a][k] = IF k \in Held(a) THEN Scored(a, k, localRun) ELSE None
    BY <1>1, <1>3 DEF Gate, TypeOK
  <2>3. Held(a)' = Held(a)
    BY <1>1, <2>1, AnalysisOnlyGrows
  <2>4. \A k \in Kinds : staged'[a][k] # None => k \in Held(a)'
    BY <2>2, <2>3
  <2>5. staged'[a]["ioc"] # None => staged'[a]["ioc"].raw = IocScore(a, staged[a]["ioc"].critic)'
    <3> HAVE staged'[a]["ioc"] # None
    <3>1. "ioc" \in Kinds /\ "ioc" \in Held(a)
      BY <2>2 DEF Kinds
    <3>2. staged'[a]["ioc"] = Scored(a, "ioc", localRun)
      BY <2>2, <3>1
    <3>3. Scored(a, "ioc", localRun).raw = IocScore(a, Scored(a, "ioc", localRun).critic)
      BY <1>1, <2>1, <3>1, VerdictsStand
    <3>4. UNCHANGED analysis
      BY <1>3 DEF Gate
    <3> QED BY <3>2, <3>3, <3>4 DEF IocScore
  <2> QED BY <2>4, <2>5 DEF Stands
<1>4. staged'[a] = staged[a] \/ \E localRun \in BOOLEAN : Gate(a, localRun)
  <2>1. CASE \E b \in Articles : \E localRun \in BOOLEAN : Gate(b, localRun)
    <3> PICK b \in Articles, localRun \in BOOLEAN : Gate(b, localRun)
      BY <2>1
    <3>1. CASE b = a
      BY <3>1
    <3>2. CASE b # a
      BY <1>1, <3>2 DEF Gate, TypeOK
    <3> QED BY <3>1, <3>2
  <2>2. CASE UNCHANGED staged
    BY <2>2
  <2> QED BY <2>1, <2>2 DEF Next, vars, Analyse, VerifyAgain, ClearProse, NameArrives, Regrade, Retune
<1> QED BY <1>2, <1>3, <1>4

LEMMA VerifiedAnalysed ==
  ASSUME GateInv, [Next]_vars
  PROVE  \A a \in verified' : Analysed(a)'
<1>1. TypeOK /\ \A a \in verified : a \in Articles /\ Analysed(a)
  BY DEF GateInv, TypeOK
<1>2. \A a \in verified : Analysed(a)'
  BY <1>1, AnalysisOnlyGrows
<1>3. CASE \E a \in Articles : Analyse(a)
  <2> PICK a \in Articles : Analyse(a)
    BY <1>3
  <2>1. PICK found \in Analyses : analysis' = [analysis EXCEPT ![a] = found]
    BY DEF Analyse
  <2>2. found \in Analysis
    BY GateAssumption
  <2>3. analysis'[a] = found
    BY <1>1, <2>1 DEF TypeOK
  <2>4. found # None
    BY <2>2 DEF Analysis, None
  <2> QED BY <1>2, <2>3, <2>4 DEF Analyse, Analysed
<1>4. CASE \E a \in Articles : VerifyAgain(a)
  <2> PICK a \in Articles : VerifyAgain(a)
    BY <1>4
  <2>1. Analysed(a)'
    BY <1>1, AnalysisOnlyGrows DEF VerifyAgain
  <2> QED BY <1>2, <2>1 DEF VerifyAgain
<1>5. CASE verified' \subseteq verified
  BY <1>2, <1>5
<1> QED BY <1>3, <1>4, <1>5 DEF Next, vars, ClearProse, NameArrives, Gate, Regrade, Retune

LEMMA GateInvStep == GateInv /\ [Next]_vars => GateInv'
<1> SUFFICES ASSUME GateInv, [Next]_vars PROVE GateInv'
  OBVIOUS
<1>1. TypeOK
  BY DEF GateInv
<1>2. ASSUME NEW a \in Articles, NEW localRun \in BOOLEAN, Gate(a, localRun) PROVE TypeOK'
  <2>1. Analysed(a)
    BY <1>2 DEF GateInv, Gate
  <2> QED BY <1>1, <1>2, <2>1, TypeGate
<1>3. ASSUME UNCHANGED vars PROVE TypeOK'
  <2>1. /\ analysis' = analysis /\ verified' = verified /\ confidence' = confidence /\ staged' = staged
        /\ known' = known /\ promoted' = promoted /\ grade' = grade /\ tuning' = tuning
        /\ gatings' = gatings /\ changes' = changes
    BY <1>3 DEF vars
  <2>2. TypeOK'
    BY <1>1, <2>1 DEF TypeOK
  <2> QED BY <2>2
<1>4. TypeOK'
  <2>1. CASE \E a \in Articles : Analyse(a)
    BY <1>1, <2>1, TypeAnalyse
  <2>2. CASE \E a \in Articles : VerifyAgain(a)
    BY <1>1, <2>2, TypeVerifyAgain
  <2>3. CASE \/ \E a \in Articles : ClearProse(a) \/ NameArrives(a)
             \/ \E s \in Sources, g \in Grades : Regrade(s, g)
             \/ \E t \in Tunings : Retune(t)
    BY <1>1, <2>3, TypeIntervention
  <2>4. CASE \E a \in Articles, localRun \in BOOLEAN : Gate(a, localRun)
    BY <1>2, <2>4
  <2>5. CASE UNCHANGED vars
    BY <1>3, <2>5
  <2>6. CASE Next
    <3>1. CASE \E a \in Articles : \/ Analyse(a) \/ ClearProse(a) \/ VerifyAgain(a) \/ NameArrives(a)
                                    \/ \E localRun \in BOOLEAN : Gate(a, localRun)
      BY <3>1, <2>1, <2>2, <2>3, <2>4
    <3>2. CASE \E s \in Sources, g \in Grades : Regrade(s, g)
      BY <3>2, <2>3
    <3>3. CASE \E t \in Tunings : Retune(t)
      BY <3>3, <2>3
    <3> QED BY <2>6, <3>1, <3>2, <3>3 DEF Next
  <2> QED BY <2>5, <2>6
<1> QED BY <1>4, VerifiedAnalysed, StandsStep DEF GateInv

LEMMA GateInvInit == Init => GateInv
<1> SUFFICES ASSUME Init PROVE GateInv
  OBVIOUS
<1>1. \A a \in Articles, k \in Kinds : staged[a][k] = None
  BY DEF Init
<1>2. "ioc" \in Kinds
  BY DEF Kinds
<1>3. \A a \in Articles : Stands(a)
  BY <1>1, <1>2 DEF Stands
<1>4. verified = {}
  BY DEF Init
<1> QED BY <1>3, <1>4, TypeInit DEF GateInv

LEMMA GateInvHolds == Spec => []GateInv
BY GateInvInit, GateInvStep, PTL DEF Spec

-----------------------------------------------------------------------------
(* What follows for every instance. *)

\* The gate keeps its types; scores and totals stay on the scale of the
\* floors they are compared with.
THEOREM TypeCorrect == Spec => []TypeOK
<1>1. GateInv => TypeOK
  BY DEF GateInv
<1> QED BY <1>1, GateInvHolds, PTL

\* For any analyses and measurements, what a finding scores spans what was
\* measured of it: no kind is capped, none is lifted.
THEOREM ScoresSpanTheirMeasurements == Spec => []BetweenItsMeasurements
<1>1. GateInv => BetweenItsMeasurements
  <2> SUFFICES ASSUME GateInv, NEW a \in verified, NEW k \in Held(a), NEW localRun \in BOOLEAN
               PROVE  Spans(Components(a, k), k, Scored(a, k, localRun).raw)
    BY DEF BetweenItsMeasurements, Spans
  <2>1. TypeOK /\ a \in Articles /\ Analysed(a)
    BY DEF GateInv, TypeOK
  <2>2. k \in Kinds
    BY <2>1 DEF TypeOK, Held, Analysed, Analysis
  <2>3. \A n \in {"anchor", "critic", "schema", "self"} : Components(a, k)[n] \in Measured
    BY <2>1, <2>2, ComponentsMeasured
  <2>4. Scored(a, k, localRun).raw = composite(Components(a, k), NotApplicable[k])
    BY <2>1, <2>2, ScoredIsVerdict
  <2> QED BY <2>2, <2>3, <2>4, CompositeSpans
<1> QED BY <1>1, GateInvHolds, PTL

\* Under every tuning, what passes on a local model passes on the others.
THEOREM LocalRunsAreStricter == Spec => []LocalIsStricter
<1>1. GateInv => LocalIsStricter
  <2> SUFFICES ASSUME GateInv, NEW a \in verified, NEW k \in Held(a),
                      Scored(a, k, TRUE).decision = "auto"
               PROVE  Scored(a, k, FALSE).decision = "auto"
    BY DEF LocalIsStricter
  <2>1. TypeOK /\ a \in Articles /\ Analysed(a)
    BY DEF GateInv, TypeOK
  <2>2. k \in Kinds
    BY <2>1 DEF TypeOK, Held, Analysed, Analysis
  <2> QED BY <2>1, <2>2, LocalPassesAnyway
<1> QED BY <1>1, GateInvHolds, PTL

\* However often an analysis is gated, and whatever is regraded, retuned or
\* corroborated in between, its indicators keep their composite until the
\* judge is asked again.
THEOREM IndicatorsKeepTheirScore == Spec => RegatedIndicatorsAlike
<1>1. GateInv /\ GateInv' /\ [Next]_vars => [ScoredAlike("ioc")]_vars
  <2> SUFFICES ASSUME GateInv, GateInv', [Next]_vars, NEW a \in Articles,
                      staged[a]["ioc"] # None, staged'[a]["ioc"] # None,
                      staged'[a]["ioc"].critic = staged[a]["ioc"].critic
               PROVE  staged'[a]["ioc"].raw = staged[a]["ioc"].raw
    BY DEF ScoredAlike
  <2> DEFINE critic == staged[a]["ioc"].critic
  <2>1. TypeOK /\ Stands(a) /\ Stands(a)'
    BY DEF GateInv
  <2>2. Analysed(a)
    BY <2>1 DEF Stands, Held, Kinds
  <2>3. staged[a]["ioc"].raw = IocScore(a, critic)
    BY <2>1 DEF Stands
  <2>4. staged'[a]["ioc"].raw = composite(
          [anchor |-> analysis'[a].anchor["ioc"], critic |-> staged'[a]["ioc"].critic,
           schema |-> analysis'[a].context, self |-> Missing], {"self"})
    BY <2>1 DEF Stands, IocScore
  <2>5. \A c : IocScore(a, c)' = IocScore(a, c)
    BY <2>1, <2>2, AnalysisOnlyGrows
  <2>6. \A c : composite([anchor |-> analysis'[a].anchor["ioc"], critic |-> c,
                          schema |-> analysis'[a].context, self |-> Missing], {"self"})
               = IocScore(a, c)
    BY <2>5 DEF IocScore
  <2> QED BY <2>3, <2>4, <2>6
<1> QED BY <1>1, GateInvHolds, PTL DEF Spec, RegatedIndicatorsAlike

\* What reaches a group was trusted on its own: it cleared its own floors, its
\* feed could be judged, and its owner was not known to rent it out.
THEOREM PromotedOnItsOwn == Spec => OnlyTrustedPromoted
<1> DEFINE Trusted(a) ==
       /\ staged'[a]["ioc"].raw >= tuning.floor["ioc"] /\ staged'[a]["ioc"].raw >= tuning.overall
       /\ grade[Source[a]] # "F"
       /\ ~tuning.rented
<1>1. GateInv /\ [Next]_vars => [\A a \in promoted' \ promoted : Trusted(a)]_vars
  <2> SUFFICES ASSUME GateInv, Next, NEW a \in promoted' \ promoted PROVE Trusted(a)
    BY DEF vars
  <2>1. PICK localRun \in BOOLEAN : a \in Articles /\ Gate(a, localRun)
    <3>1. ~UNCHANGED promoted
      OBVIOUS
    <3>2. PICK b \in Articles, localRun \in BOOLEAN : Gate(b, localRun)
      BY <3>1 DEF Next, Analyse, VerifyAgain, ClearProse, NameArrives, Regrade, Retune
    <3>3. a = b
      BY <3>2 DEF Gate
    <3> QED BY <3>2, <3>3
  <2> DEFINE verdicts == [k \in Kinds |-> IF k \in Held(a) THEN Scored(a, k, localRun) ELSE None]
             raw == composite(Components(a, "ioc"), NotApplicable["ioc"])
             floor == Lifted(tuning.floor["ioc"], tuning, localRun)
             overall == Lifted(tuning.overall, tuning, localRun)
             veto == unjudgeable(grade[Source[a]], InfoGrade(a, "ioc"))
  <2>2. TypeOK /\ Analysed(a) /\ "ioc" \in Kinds
    BY <2>1 DEF GateInv, Gate, Kinds
  <2>3. Promotes(a, verdicts) /\ staged' = [staged EXCEPT ![a] = verdicts]
    BY <2>1 DEF Gate
  <2>4. "ioc" \in Held(a) /\ verdicts["ioc"].decision = "auto" /\ ~tuning.rented
    BY <2>3 DEF Promotes
  <2>5. verdicts["ioc"] = Scored(a, "ioc", localRun) /\ staged'[a]["ioc"] = verdicts["ioc"]
    BY <2>1, <2>2, <2>3, <2>4 DEF TypeOK
  <2>6. /\ staged'[a]["ioc"].raw = raw
        /\ (IF veto \/ raw < floor \/ raw < overall THEN "staged" ELSE "auto") = "auto"
    BY <2>1, <2>2, <2>4, <2>5, ScoredIsVerdict DEF decide
  <2>7. tuning \in Tuning /\ tuning.floor["ioc"] \in Scores /\ tuning.overall \in Scores
    BY <2>2, GateAssumption DEF TypeOK, Tuning
  <2>8. floor \in Scores /\ tuning.floor["ioc"] <= floor
        /\ overall \in Scores /\ tuning.overall <= overall
    BY <2>7, LiftedAbove
  <2>9. raw \in Scores
    BY <2>1, <2>2, ComponentsMeasured, CompositeOnScale
  <2>10. ~veto => grade[Source[a]] # "F"
    BY DEF unjudgeable, SourceFactors
  <2> HIDE DEF raw, floor, overall, veto
  <2>11. ~veto /\ ~(raw < floor) /\ ~(raw < overall)
    BY <2>6
  <2>12. raw >= tuning.floor["ioc"] /\ raw >= tuning.overall
    <3> DEFINE f == tuning.floor["ioc"]
               o == tuning.overall
    <3>1. f \in Scores /\ o \in Scores /\ f <= floor /\ o <= overall
      BY <2>7, <2>8
    <3> HIDE DEF f, o
    <3>2. raw >= f /\ raw >= o
      BY <2>8, <2>9, <2>11, <3>1 DEF Scores
    <3> QED BY <3>2 DEF f, o
  <2> QED BY <2>4, <2>6, <2>10, <2>11, <2>12
<1> QED BY <1>1, GateInvHolds, PTL DEF Spec, OnlyTrustedPromoted
=============================================================================
