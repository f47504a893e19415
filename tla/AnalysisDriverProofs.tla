------------------------- MODULE AnalysisDriverProofs -------------------------
(***************************************************************************)
(* What holds of the batch for any articles, any limit, any number of      *)
(* states and of crashes.  Fairness plays no part in it.                   *)
(***************************************************************************)
EXTENDS AnalysisDriver, FiniteSetTheorems, WellFoundedInduction, TLAPS

-----------------------------------------------------------------------------
(* The newest article of a batch exists. *)

\* A nonempty set of naturals has a least member.
LEMMA LeastMember ==
  ASSUME NEW S \in SUBSET Nat, S # {}
  PROVE  \E i \in S : \A j \in S : i <= j
<1> DEFINE less == {p \in Nat \X Nat : p[1] < p[2]}
<1>1. IsWellFoundedOn(less, Nat)
  BY NatLessThanWellFounded DEF OpToRel
<1> HIDE DEF less
<1>2. PICK i \in S : \A j \in S : <<j, i>> \notin less
  BY <1>1, WFMin
<1>3. ASSUME NEW j \in S PROVE i <= j
  <2>1. <<j, i>> \in Nat \X Nat /\ <<j, i>>[1] = j /\ <<j, i>>[2] = i
    OBVIOUS
  <2>2. ~(<<j, i>>[1] < <<j, i>>[2])
    BY <1>2, <1>3, <2>1, Zenon DEF less
  <2> QED BY <2>1, <2>2
<1> QED BY <1>3

\* A finite nonempty set of naturals has a greatest one: of the sets without
\* one a smallest would lose an element and have one.
LEMMA GreatestMember ==
  ASSUME NEW T \in SUBSET Nat, IsFiniteSet(T), T # {}
  PROVE  \E m \in T : \A j \in T : j <= m
<1> DEFINE Topped(S) == \E m \in S : \A j \in S : j <= m
           Topless == {S \in SUBSET T : S # {} /\ ~Topped(S)}
           Sizes == {Cardinality(S) : S \in Topless}
<1>1. \A S \in SUBSET T : IsFiniteSet(S) /\ Cardinality(S) \in Nat
  BY FS_Subset, FS_CardinalityType
<1>2. ASSUME Topless # {} PROVE FALSE
  <2>1. Sizes \in SUBSET Nat /\ Sizes # {}
    BY <1>1, <1>2
  <2> HIDE DEF Sizes
  <2>2. PICK n \in Sizes : \A k \in Sizes : n <= k
    BY <2>1, LeastMember
  <2>3. PICK S \in Topless : n = Cardinality(S)
    BY <2>2 DEF Sizes
  <2>4. PICK x \in S : TRUE
    BY <2>3
  <2> DEFINE R == S \ {x}
  <2>5. Cardinality(R) \in Nat /\ Cardinality(S) \in Nat /\ Cardinality(R) = Cardinality(S) - 1
    BY <1>1, <2>3, <2>4, FS_RemoveElement
  <2>6. R \notin Topless
    <3> SUFFICES ASSUME R \in Topless PROVE FALSE
      OBVIOUS
    <3>1. Cardinality(R) \in Sizes
      BY DEF Sizes
    <3> QED BY <2>2, <2>3, <2>5, <3>1
  <2>7. CASE R = {}
    <3>1. S = {x} /\ x \in Nat
      BY <2>3, <2>4, <2>7
    <3>2. Topped(S)
      BY <3>1
    <3> QED BY <2>3, <3>2
  <2>8. CASE R # {}
    <3>1. PICK m \in R : \A j \in R : j <= m
      BY <2>3, <2>6, <2>8
    <3>2. x \in Nat /\ m \in Nat /\ \A j \in R : j \in Nat
      BY <2>3, <2>4, <3>1
    <3>3. CASE x <= m
      <4>1. \A j \in S : j <= m
        BY <3>1, <3>3
      <4> QED BY <2>3, <3>1, <4>1
    <3>4. CASE m <= x
      <4>1. \A j \in S : j <= x
        BY <3>1, <3>2, <3>4
      <4> QED BY <2>3, <2>4, <4>1
    <3> QED BY <3>2, <3>3, <3>4
  <2> QED BY <2>7, <2>8
<1> QED BY <1>2

\* What is picked next is one of those left.
LEMMA NewestIsOne ==
  ASSUME NEW S \in SUBSET Articles, S # {}
  PROVE  Newest(S) \in S
<1>1. S \in SUBSET Nat /\ IsFiniteSet(S)
  BY DriverAssumption, FS_Subset
<1>2. \E m \in S : \A j \in S : j <= m
  BY <1>1, GreatestMember
<1> QED BY <1>2 DEF Newest

-----------------------------------------------------------------------------
(* One row. *)

\* Closing a row moves one article on, or stops it, and touches no other.
LEMMA RowMoves ==
  ASSUME NEW st \in Store, NEW a \in Articles, ~Analysed(st, a), NEW status \in Closings
  PROVE  /\ Row(st, a, status) \in Store
         /\ Row(st, a, status).gated = st.gated
         /\ \A b \in Articles \ {a} : /\ Row(st, a, status).done[b] = st.done[b]
                                      /\ Row(st, a, status).stop[b] = st.stop[b]
<1> DEFINE moved == [st.done EXCEPT ![a] = @ + 1]
           clean == [st.stop EXCEPT ![a] = "none"]
           halted == [st.stop EXCEPT ![a] = status]
<1>1. st = [done |-> st.done, stop |-> st.stop, gated |-> st.gated]
  BY DEF Store
<1>2. st.done \in [Articles -> 0..Depth] /\ st.stop \in [Articles -> Closings \cup {"none"}]
      /\ st.gated \in SUBSET Articles
  BY DEF Store
<1>3. st.done[a] \in 0..Depth /\ st.done[a] # Depth
  BY <1>2 DEF Analysed
<1>4. st.done[a] + 1 \in 0..Depth
  BY <1>3, DriverAssumption
<1>5. moved \in [Articles -> 0..Depth] /\ \A b \in Articles \ {a} : moved[b] = st.done[b]
  BY <1>2, <1>4
<1>6. clean \in [Articles -> Closings \cup {"none"}] /\ \A b \in Articles \ {a} : clean[b] = st.stop[b]
  BY <1>2
<1>7. halted \in [Articles -> Closings \cup {"none"}] /\ \A b \in Articles \ {a} : halted[b] = st.stop[b]
  BY <1>2
<1>8. CASE status = "ok"
  <2>1. Row(st, a, status) = [st EXCEPT !.done = moved, !.stop = clean]
    BY <1>8 DEF Row
  <2> HIDE DEF moved, clean, halted
  <2>2. Row(st, a, status) = [done |-> moved, stop |-> clean, gated |-> st.gated]
    BY <1>1, <2>1
  <2> QED BY <2>2, <1>2, <1>5, <1>6 DEF Store
<1>9. CASE status # "ok"
  <2>1. Row(st, a, status) = [st EXCEPT !.stop = halted]
    BY <1>9 DEF Row
  <2> HIDE DEF moved, clean, halted
  <2>2. Row(st, a, status) = [done |-> st.done, stop |-> halted, gated |-> st.gated]
    BY <1>1, <2>1
  <2> QED BY <2>2, <1>2, <1>7 DEF Store
<1> QED BY <1>8, <1>9

\* What holds of a row that did not end the article's run.
LEMMA RowOfSuccess ==
  ASSUME NEW st \in Store, NEW a \in Articles
  PROVE  Row(st, a, "ok").stop[a] = "none"
<1>1. st = [done |-> st.done, stop |-> st.stop, gated |-> st.gated]
  BY DEF Store
<1>2. st.stop \in [Articles -> Closings \cup {"none"}]
  BY DEF Store
<1> DEFINE moved == [st.done EXCEPT ![a] = @ + 1]
           clean == [st.stop EXCEPT ![a] = "none"]
<1>3. Row(st, a, "ok") = [st EXCEPT !.done = moved, !.stop = clean]
  BY DEF Row
<1>4. clean[a] = "none"
  BY <1>2
<1> HIDE DEF moved, clean
<1>5. Row(st, a, "ok").stop = clean
  BY <1>1, <1>3
<1> QED BY <1>4, <1>5

-----------------------------------------------------------------------------
(* The invariant.  The session differs from what is committed only in the   *)
(* gate's work; nothing left in the batch is settled, and the article in    *)
(* hand is one of the batch, pending while it is analysed and analysed when *)
(* it is gated.                                                             *)

SameRows == tx.done = db.done /\ tx.stop = db.stop /\ db.gated \subseteq tx.gated

InHand == /\ todo \subseteq batch
          /\ pc \in {"analysing", "gating"} => cur \in batch \ todo
          /\ pc # "idle" => \A a \in todo : ~Settled(db, a)
          /\ pc = "analysing" => ~Settled(db, cur)
          /\ pc = "gating" => Analysed(db, cur)

Counted == outcome.analysed + outcome.dropped + outcome.incomplete

\* The article being analysed is taken and not yet counted.
Books == pc # "idle" => Counted + (IF pc = "analysing" THEN 1 ELSE 0)
                        = Cardinality(batch) - Cardinality(todo)

DriverInv == TypeOK /\ SameRows /\ OnlyAnalysedGated /\ InHand /\ Books

LEMMA BatchesAreFinite ==
  ASSUME NEW S \in SUBSET Articles
  PROVE  IsFiniteSet(S) /\ Cardinality(S) \in Nat
BY DriverAssumption, FS_Subset, FS_CardinalityType

LEMMA DriverInit == Init => DriverInv
<1> SUFFICES ASSUME Init PROVE DriverInv
  OBVIOUS
<1> DEFINE fresh == [done |-> [a \in Articles |-> 0], stop |-> [a \in Articles |-> "none"], gated |-> {}]
<1>1. db = fresh /\ tx = fresh
  BY DEF Init
<1>2. fresh \in Store
  BY DriverAssumption DEF Store
<1>3. outcome \in Outcome
  BY DEF Init, NoOutcome, Outcome
<1>4. TypeOK
  BY <1>1, <1>2, <1>3, DriverAssumption DEF Init, TypeOK
<1>5. SameRows /\ OnlyAnalysedGated
  BY <1>1 DEF SameRows, OnlyAnalysedGated
<1>6. InHand /\ Books
  BY DEF Init, InHand, Books
<1> QED BY <1>4, <1>5, <1>6 DEF DriverInv

LEMMA StartCycleStep ==
  ASSUME DriverInv, StartCycle
  PROVE  DriverInv'
<1>1. TypeOK /\ SameRows /\ OnlyAnalysedGated
  BY DEF DriverInv
<1>2. Selection(db) \subseteq Articles /\ \A a \in Selection(db) : ~Settled(db, a)
  BY <1>1 DEF Selection, Pending, TypeOK
<1>3. TypeOK'
  BY <1>1, <1>2 DEF StartCycle, TypeOK, NoOutcome, Outcome
<1>4. SameRows' /\ OnlyAnalysedGated'
  BY <1>1 DEF StartCycle, SameRows, OnlyAnalysedGated, Analysed
<1>5. InHand'
  BY <1>2 DEF StartCycle, InHand, Settled, Analysed
<1>6. Books'
  <2>1. Counted' = 0
    BY DEF StartCycle, Counted, NoOutcome
  <2>2. batch' = todo' /\ pc' = "next" /\ Cardinality(batch') \in Nat
    BY <1>2, BatchesAreFinite DEF StartCycle
  <2> QED BY <2>1, <2>2 DEF Books
<1> QED BY <1>3, <1>4, <1>5, <1>6 DEF DriverInv

LEMMA TakeNextStep ==
  ASSUME DriverInv, TakeNext
  PROVE  DriverInv'
<1>1. TypeOK /\ SameRows /\ OnlyAnalysedGated /\ InHand /\ Books
  BY DEF DriverInv
<1>2. cur' \in todo /\ cur' \in Articles /\ todo' = todo \ {cur'}
  BY <1>1, NewestIsOne DEF TakeNext, TypeOK
<1>3. TypeOK'
  BY <1>1, <1>2 DEF TakeNext, TypeOK
<1>4. SameRows' /\ OnlyAnalysedGated'
  BY <1>1 DEF TakeNext, SameRows, OnlyAnalysedGated, Analysed
<1>5. InHand'
  BY <1>1, <1>2 DEF TakeNext, InHand, Settled, Analysed
<1>6. Books'
  <2>1. Cardinality(todo') = Cardinality(todo) - 1
    BY <1>1, <1>2, BatchesAreFinite, FS_RemoveElement DEF TypeOK
  <2>2. Cardinality(todo) \in Nat /\ Cardinality(batch) \in Nat
    BY <1>1, BatchesAreFinite DEF TypeOK
  <2>3. Counted \in Int /\ Counted' = Counted
    BY <1>1 DEF TakeNext, Counted, TypeOK, Outcome
  <2>4. Counted = Cardinality(batch) - Cardinality(todo)
    BY <1>1, <2>3 DEF TakeNext, Books
  <2>5. pc' = "analysing" /\ batch' = batch
    BY DEF TakeNext
  <2> QED BY <2>1, <2>2, <2>3, <2>4, <2>5 DEF Books
<1> QED BY <1>3, <1>4, <1>5, <1>6 DEF DriverInv

LEMMA CloseRowStep ==
  ASSUME DriverInv, NEW a \in Articles, NEW status \in Closings, CloseRow(a, status)
  PROVE  DriverInv' /\ \A b \in Articles : Settled(db, b) => Settled(db', b)
<1>1. TypeOK /\ SameRows /\ OnlyAnalysedGated /\ InHand /\ Books
  BY DEF DriverInv
<1>2. pc = "analysing" /\ cur = a /\ a \in batch \ todo /\ ~Settled(db, a)
  BY <1>1 DEF CloseRow, InHand
<1>3. ~Analysed(tx, a) /\ tx \in Store
  BY <1>1, <1>2 DEF SameRows, Settled, Analysed, TypeOK
<1> DEFINE st == Row(tx, a, status)
<1>4. tx' = st /\ db' = st
  BY DEF CloseRow
<1>5. /\ st \in Store
      /\ st.gated = tx.gated
      /\ \A b \in Articles \ {a} : st.done[b] = tx.done[b] /\ st.stop[b] = tx.stop[b]
  BY <1>3, RowMoves
<1>6. status = "ok" => st.stop[a] = "none"
  BY <1>3, RowOfSuccess
<1> HIDE DEF st
<1>7. \A b \in Articles \ {a} : (Settled(db, b) <=> Settled(db', b)) /\ (Analysed(tx, b) <=> Analysed(st, b))
  BY <1>1, <1>4, <1>5 DEF SameRows, Settled, Analysed
<1>8. \A b \in Articles : Settled(db, b) => Settled(db', b)
  BY <1>2, <1>7
<1>9. UNCHANGED <<arrived, batch, todo, cur, crashes>>
  BY DEF CloseRow
<1>10. \/ /\ pc' = "gating" /\ status = "ok" /\ Analysed(st, a)
          /\ outcome' = [outcome EXCEPT !.analysed = @ + 1]
       \/ /\ pc' = "analysing" /\ status = "ok" /\ ~Analysed(st, a)
          /\ outcome' = outcome
       \/ /\ pc' = "next"
          /\ \/ outcome' = [outcome EXCEPT !.dropped = @ + 1]
             \/ outcome' = [outcome EXCEPT !.incomplete = @ + 1]
  BY <1>2, <1>4 DEF CloseRow
<1>11. outcome = [analysed |-> outcome.analysed, dropped |-> outcome.dropped,
                  incomplete |-> outcome.incomplete, gated |-> outcome.gated]
       /\ outcome.analysed \in Nat /\ outcome.dropped \in Nat /\ outcome.incomplete \in Nat
       /\ outcome.gated \in Nat
  BY <1>1 DEF TypeOK, Outcome
<1>12. outcome' \in Outcome
  BY <1>10, <1>11 DEF Outcome
<1>13. TypeOK'
  BY <1>1, <1>4, <1>5, <1>9, <1>10, <1>12 DEF TypeOK
<1>14. SameRows'
  BY <1>4 DEF SameRows
<1>15. OnlyAnalysedGated'
  BY <1>1, <1>3, <1>4, <1>5, <1>7 DEF OnlyAnalysedGated
<1>16. InHand'
  <2>1. \A b \in todo : b # a /\ b \in Articles
    BY <1>1, <1>2 DEF TypeOK
  <2>2. \A b \in todo' : ~Settled(db', b)
    BY <1>1, <1>2, <1>7, <1>9, <2>1 DEF InHand
  <2>3. pc' = "analysing" => ~Settled(db', a)
    BY <1>4, <1>6, <1>10 DEF Settled, Terminal
  <2>4. pc' = "gating" => Analysed(db', a)
    BY <1>4, <1>10
  <2>5. (Analysed(db, cur))' <=> Analysed(db', a)
    BY <1>2, <1>9 DEF Analysed
  <2>6. (Settled(db, cur))' <=> Settled(db', a)
    BY <1>2, <1>9 DEF Analysed, Settled
  <2> QED BY <1>1, <1>2, <1>9, <2>2, <2>3, <2>4, <2>5, <2>6 DEF InHand
<1>17. Books'
  <2>1. Counted + 1 = Cardinality(batch) - Cardinality(todo)
    BY <1>1, <1>2 DEF Books
  <2>2. Cardinality(todo) \in Nat /\ Cardinality(batch) \in Nat /\ Counted \in Int
    BY <1>1, <1>11, BatchesAreFinite DEF TypeOK, Counted
  <2>3. Counted' + (IF pc' = "analysing" THEN 1 ELSE 0) = Counted + 1
    BY <1>10, <1>11 DEF Counted
  <2> QED BY <1>9, <2>1, <2>2, <2>3 DEF Books
<1> QED BY <1>8, <1>13, <1>14, <1>15, <1>16, <1>17 DEF DriverInv

\* An exception in the machine rolls the session back and counts the article.
LEMMA MachineRaisesStep ==
  ASSUME DriverInv, MachineRaises
  PROVE  DriverInv'
<1>1. TypeOK /\ SameRows /\ OnlyAnalysedGated /\ InHand /\ Books
  BY DEF DriverInv
<1>2. outcome.analysed \in Nat /\ outcome.dropped \in Nat /\ outcome.incomplete \in Nat
      /\ outcome.gated \in Nat
      /\ outcome' = [analysed |-> outcome.analysed, dropped |-> outcome.dropped,
                     incomplete |-> outcome.incomplete + 1, gated |-> outcome.gated]
  BY <1>1 DEF MachineRaises, TypeOK, Outcome
<1>3. TypeOK'
  BY <1>1, <1>2 DEF MachineRaises, TypeOK, Outcome
<1>4. SameRows' /\ OnlyAnalysedGated'
  BY <1>1 DEF MachineRaises, SameRows, OnlyAnalysedGated, Analysed
<1>5. InHand'
  BY <1>1 DEF MachineRaises, InHand, Settled, Analysed
<1>6. Books'
  <2>1. Counted' = Counted + 1 /\ Counted \in Int
    BY <1>2 DEF Counted
  <2>2. Cardinality(todo) \in Nat /\ Cardinality(batch) \in Nat
    BY <1>1, BatchesAreFinite DEF TypeOK
  <2> QED BY <1>1, <2>1, <2>2 DEF Books, MachineRaises
<1> QED BY <1>3, <1>4, <1>5, <1>6 DEF DriverInv

\* Scoring marks the article in the session alone.
LEMMA GateScoresStep ==
  ASSUME DriverInv, NEW a \in Articles, GateScores(a)
  PROVE  DriverInv'
<1>1. TypeOK /\ SameRows /\ OnlyAnalysedGated /\ InHand /\ Books
  BY DEF DriverInv
<1>2. outcome' = [outcome EXCEPT !.gated = @ + 1]
  BY DEF GateScores
<1>3. outcome.analysed \in Nat /\ outcome.dropped \in Nat /\ outcome.incomplete \in Nat
      /\ outcome.gated \in Nat
      /\ outcome' = [analysed |-> outcome.analysed, dropped |-> outcome.dropped,
                     incomplete |-> outcome.incomplete, gated |-> outcome.gated + 1]
  BY <1>1, <1>2 DEF TypeOK, Outcome
<1>4. tx = [done |-> tx.done, stop |-> tx.stop, gated |-> tx.gated]
  BY <1>1 DEF TypeOK, Store
<1>5. tx' = [done |-> tx.done, stop |-> tx.stop, gated |-> tx.gated \cup {a}]
  BY <1>4 DEF GateScores
<1>6. tx' \in Store
  BY <1>1, <1>5 DEF TypeOK, Store
<1>7. TypeOK'
  BY <1>1, <1>3, <1>6 DEF GateScores, TypeOK, Outcome
<1>8. Analysed(db, a)
  BY <1>1 DEF GateScores, InHand
<1>9. SameRows' /\ OnlyAnalysedGated'
  BY <1>1, <1>5, <1>8 DEF GateScores, SameRows, OnlyAnalysedGated, Analysed
<1>10. InHand'
  BY <1>1 DEF GateScores, InHand, Settled, Analysed
<1>11. Books'
  BY <1>1, <1>3 DEF GateScores, Books, Counted
<1> QED BY <1>7, <1>9, <1>10, <1>11 DEF DriverInv

\* The steps that only move on, or throw the session's work away.
LEMMA OtherSteps ==
  ASSUME DriverInv, \/ GateRaises \/ EndCycle \/ Crash
                    \/ \E a \in Articles : Arrive(a)
                    \/ UNCHANGED vars
  PROVE  DriverInv' /\ (pc = "gating" => db' = db) /\ \A b \in Articles : Settled(db, b) => Settled(db', b)
<1>1. TypeOK /\ SameRows /\ OnlyAnalysedGated /\ InHand /\ Books
  BY DEF DriverInv
<1>2. CASE GateRaises
  <2>1. TypeOK' /\ SameRows' /\ OnlyAnalysedGated'
    BY <1>1, <1>2 DEF GateRaises, TypeOK, SameRows, OnlyAnalysedGated, Analysed
  <2>2. InHand' /\ Books'
    BY <1>1, <1>2 DEF GateRaises, InHand, Settled, Analysed, Books, Counted
  <2> QED BY <1>2, <2>1, <2>2 DEF DriverInv, GateRaises
<1>3. CASE EndCycle
  <2>1. TypeOK' /\ SameRows' /\ OnlyAnalysedGated'
    BY <1>1, <1>3 DEF EndCycle, TypeOK, SameRows, OnlyAnalysedGated, Analysed
  <2>2. InHand' /\ Books'
    BY <1>1, <1>3 DEF EndCycle, InHand, Books
  <2>3. \A b \in Articles : Settled(db, b) => Settled(db', b)
    BY <1>1, <1>3 DEF EndCycle, SameRows, Settled, Analysed
  <2> QED BY <1>3, <2>1, <2>2, <2>3 DEF DriverInv, EndCycle
<1>4. CASE Crash
  <2>1. crashes' \in 0..MaxCrashes
    BY <1>1, <1>4, DriverAssumption DEF Crash, TypeOK
  <2>2. TypeOK' /\ SameRows' /\ OnlyAnalysedGated'
    BY <1>1, <1>4, <2>1 DEF Crash, TypeOK, SameRows, OnlyAnalysedGated, Analysed
  <2>3. InHand' /\ Books'
    BY <1>1, <1>4 DEF Crash, InHand, Books
  <2> QED BY <1>4, <2>2, <2>3 DEF DriverInv, Crash
<1>5. ASSUME NEW a \in Articles, Arrive(a)
      PROVE  DriverInv' /\ db' = db
  <2>1. TypeOK' /\ SameRows' /\ OnlyAnalysedGated'
    BY <1>1, <1>5 DEF Arrive, TypeOK, SameRows, OnlyAnalysedGated, Analysed
  <2>2. InHand' /\ Books'
    BY <1>1, <1>5 DEF Arrive, InHand, Books
  <2> QED BY <1>5, <2>1, <2>2 DEF DriverInv, Arrive
<1>6. CASE UNCHANGED vars
  <2>1. TypeOK' /\ SameRows' /\ OnlyAnalysedGated'
    BY <1>1, <1>6 DEF vars, TypeOK, SameRows, OnlyAnalysedGated, Analysed
  <2>2. InHand' /\ Books'
    BY <1>1, <1>6 DEF vars, InHand, Settled, Analysed, Books, Counted
  <2> QED BY <1>6, <2>1, <2>2 DEF DriverInv, vars
<1> QED BY <1>2, <1>3, <1>4, <1>5, <1>6

LEMMA DriverStep ==
  ASSUME DriverInv, [Next]_vars
  PROVE  /\ DriverInv'
         /\ pc = "gating" => db' = db
         /\ \A b \in Articles : Settled(db, b) => Settled(db', b)
<1>1. CASE StartCycle
  BY <1>1, StartCycleStep DEF StartCycle
<1>2. CASE TakeNext
  BY <1>2, TakeNextStep DEF TakeNext
<1>3. CASE MachineRaises
  BY <1>3, MachineRaisesStep DEF MachineRaises
<1>4. ASSUME NEW a \in Articles, GateScores(a)
      PROVE  DriverInv' /\ db' = db
  BY <1>4, GateScoresStep DEF GateScores
<1>5. ASSUME NEW a \in Articles, NEW status \in Closings, CloseRow(a, status)
      PROVE  DriverInv' /\ pc # "gating" /\ \A b \in Articles : Settled(db, b) => Settled(db', b)
  BY <1>5, CloseRowStep DEF CloseRow
<1>6. CASE GateRaises \/ EndCycle \/ Crash \/ (\E a \in Articles : Arrive(a)) \/ UNCHANGED vars
  BY <1>6, OtherSteps
<1> QED BY <1>1, <1>2, <1>3, <1>4, <1>5, <1>6 DEF Next, Step

LEMMA DriverInvHolds == Spec => []DriverInv
<1>1. DriverInv /\ [Next]_vars => DriverInv'
  BY DriverStep
<1> QED BY <1>1, DriverInit, PTL DEF Spec

-----------------------------------------------------------------------------
(* What follows for every instance. *)

\* The driver keeps its types.
THEOREM TypeCorrect == Spec => []TypeOK
<1>1. DriverInv => TypeOK
  BY DEF DriverInv
<1> QED BY <1>1, DriverInvHolds, PTL

\* However batches, exceptions and crashes follow on each other, what is
\* scored was analysed to the end, in the session and on disk.
THEOREM GatedIsAnalysed == Spec => []OnlyAnalysedGated
<1>1. DriverInv => OnlyAnalysedGated
  BY DEF DriverInv
<1> QED BY <1>1, DriverInvHolds, PTL

\* Between two articles of a batch of any size, as many have been counted as
\* were taken.
THEOREM BooksBalance == Spec => []EveryArticleCounted
<1>1. DriverInv => EveryArticleCounted
  <2> SUFFICES ASSUME DriverInv, pc = "next"
               PROVE  Counted = Cardinality(batch) - Cardinality(todo)
    BY DEF EveryArticleCounted, Counted
  <2>1. Books /\ Counted \in Int
    BY DEF DriverInv, TypeOK, Outcome, Counted
  <2> QED BY <2>1 DEF Books
<1> QED BY <1>1, DriverInvHolds, PTL

\* By the time an article is gated its analysis is committed, and no step of
\* the gate or of what fails in it takes it away.
THEOREM TheAnalysisStands == Spec => AnalysisStands
<1>1. DriverInv /\ [Next]_vars => [pc = "gating" => Analysed(db', cur)]_vars
  <2> SUFFICES ASSUME DriverInv, [Next]_vars, pc = "gating" PROVE Analysed(db', cur)
    OBVIOUS
  <2>1. Analysed(db, cur)
    BY DEF DriverInv, InHand
  <2> QED BY <2>1, DriverStep
<1> QED BY <1>1, DriverInvHolds, PTL DEF Spec, AnalysisStands

\* A settled article is never pending again.
THEOREM SettledStaysSettled == Spec => SettledForGood
<1>1. DriverInv /\ [Next]_vars => [\A a \in Articles : Settled(db, a) => Settled(db', a)]_vars
  BY DriverStep
<1> QED BY <1>1, DriverInvHolds, PTL DEF Spec, SettledForGood
=============================================================================
