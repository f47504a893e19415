--------------------------- MODULE AnalysisDriver ----------------------------
(***************************************************************************)
(* What the scheduler calls (ai/state/driver.py): it picks the articles    *)
(* still owed an analysis, newest first and a few at a time, runs the      *)
(* machine on each, gates what completed, and answers every exception with *)
(* a rollback of the one session they all share.                           *)
(*                                                                         *)
(* The machine is taken at the level AnalysisRows promises: its rows are a *)
(* prefix of finished states and at most one unfinished row, so an article *)
(* is the length of its prefix and the status of the row after it.         *)
(***************************************************************************)
EXTENDS RunStatuses, FiniteSets

CONSTANTS
  Articles,     \* a set of naturals: the greater, the later published
  Unserved,     \* articles whose triage the router gives to a provider not wired in
  Outcomes,     \* the closings considered
  Limit,        \* DEFAULT_BATCH
  Depth,        \* the number of states, STATE_ORDER's length
  MaxCrashes    \* bound: how often the process dies

ASSUME DriverAssumption ==
  /\ Articles \subseteq Nat /\ IsFiniteSet(Articles)
  /\ Unserved \subseteq Articles
  /\ Outcomes \subseteq Closings
  /\ Limit \in Nat \ {0}
  /\ Depth \in Nat \ {0}
  /\ MaxCrashes \in Nat

VARIABLES
  arrived,      \* articles stored with a body
  db, tx,       \* the rows and the gate's work: committed, and as the session sees them
  pc,
  batch, todo,  \* the cycle's selection, and what is left of it
  cur,          \* the article in hand
  outcome,      \* BatchOutcome
  crashes

vars == <<arrived, db, tx, pc, batch, todo, cur, outcome, crashes>>

-----------------------------------------------------------------------------
Store == [done  : [Articles -> 0..Depth],                   \* finished states
          stop  : [Articles -> Closings \cup {"none"}],     \* the row after them
          gated : SUBSET Articles]                          \* findings scored

Outcome == [analysed : Nat, dropped : Nat, incomplete : Nat, gated : Nat]

Analysed(st, a) == st.done[a] = Depth

Settled(st, a) == Analysed(st, a) \/ st.stop[a] \in Terminal

Pending(st) == {a \in arrived : ~Settled(st, a)}

\* (mutant) off by one
SelectionShort(st) == {a \in Pending(st) : Cardinality({b \in Pending(st) : b > a}) < Limit - 1}

\* pending_articles: newest first, at most Limit.
Selection(st) == {a \in Pending(st) : Cardinality({b \in Pending(st) : b > a}) < Limit}

Newest(S) == CHOOSE a \in S : \A b \in S : b <= a

NoOutcome == [analysed |-> 0, dropped |-> 0, incomplete |-> 0, gated |-> 0]

Init == /\ arrived = {}
        /\ db = [done |-> [a \in Articles |-> 0], stop |-> [a \in Articles |-> "none"],
                 gated |-> {}]
        /\ tx = db
        /\ pc = "idle" /\ batch = {} /\ todo = {} /\ cur = 0
        /\ outcome = NoOutcome
        /\ crashes = 0

\* The article pipeline stores an article (between two cycles of the driver).
Arrive(a) == /\ pc = "idle"
             /\ a \notin arrived
             /\ arrived' = arrived \cup {a}
             /\ UNCHANGED <<db, tx, pc, batch, todo, cur, outcome, crashes>>

StartCycle == /\ pc = "idle"
              /\ Selection(db) # {}
              /\ batch' = Selection(db) /\ todo' = Selection(db)
              /\ outcome' = NoOutcome
              /\ pc' = "next"
              /\ UNCHANGED <<arrived, db, tx, cur, crashes>>

TakeNext == /\ pc = "next" /\ todo # {}
            /\ cur' = Newest(todo)
            /\ todo' = todo \ {cur'}
            /\ pc' = "analysing"
            /\ UNCHANGED <<arrived, db, tx, batch, outcome, crashes>>

Row(st, a, status) == IF status = "ok"
                      THEN [st EXCEPT !.done[a] = @ + 1, !.stop[a] = "none"]
                      ELSE [st EXCEPT !.stop[a] = status]

\* What the machine can close the next row of a with: triage alone drops, and
\* an unserved article never gets past triage.
CanClose(a, status) == /\ status \in Outcomes
                       /\ status = "dropped" => tx.done[a] = 0
                       /\ a \in Unserved => status = "error"

\* (mutant) the last state is left to the gate to commit
CloseRowLate(a, status) ==
  /\ pc = "analysing" /\ cur = a
  /\ CanClose(a, status)
  /\ tx' = Row(tx, a, status)
  /\ IF status = "ok"
     THEN IF Analysed(tx', a)
          THEN /\ pc' = "gating" /\ outcome' = [outcome EXCEPT !.analysed = @ + 1]
               /\ UNCHANGED db
          ELSE db' = tx' /\ UNCHANGED <<pc, outcome>>
     ELSE /\ pc' = "next" /\ db' = tx'
          /\ outcome' = IF status = "dropped" THEN [outcome EXCEPT !.dropped = @ + 1]
                                              ELSE [outcome EXCEPT !.incomplete = @ + 1]
  /\ UNCHANGED <<arrived, batch, todo, cur, crashes>>

\* The machine closes a row and commits it -- and whatever else the session
\* holds.  On a full prefix the run is complete and the gate follows.
CloseRow(a, status) ==
  /\ pc = "analysing" /\ cur = a
  /\ CanClose(a, status)
  /\ tx' = Row(tx, a, status)
  /\ db' = tx'
  /\ IF status = "ok"
     THEN IF Analysed(tx', a)
          THEN pc' = "gating" /\ outcome' = [outcome EXCEPT !.analysed = @ + 1]
          ELSE UNCHANGED <<pc, outcome>>
     ELSE /\ pc' = "next"
          /\ outcome' = IF status = "dropped" THEN [outcome EXCEPT !.dropped = @ + 1]
                                              ELSE [outcome EXCEPT !.incomplete = @ + 1]
  /\ UNCHANGED <<arrived, batch, todo, cur, crashes>>

\* Something raises inside the run: the session is rolled back.
MachineRaises == /\ pc = "analysing"
                 /\ tx' = db
                 /\ outcome' = [outcome EXCEPT !.incomplete = @ + 1]
                 /\ pc' = "next"
                 /\ UNCHANGED <<arrived, db, batch, todo, cur, crashes>>

\* run_gate scores the findings; nothing is committed here.
GateScores(a) == /\ pc = "gating" /\ cur = a
                 /\ tx' = [tx EXCEPT !.gated = @ \cup {a}]
                 /\ outcome' = [outcome EXCEPT !.gated = @ + 1]
                 /\ pc' = "next"
                 /\ UNCHANGED <<arrived, db, batch, todo, cur, crashes>>

GateRaises == /\ pc = "gating"
              /\ tx' = db
              /\ pc' = "next"
              /\ UNCHANGED <<arrived, db, batch, todo, cur, outcome, crashes>>

\* The batch is through; its caller commits (scheduler.py:181).
EndCycle == /\ pc = "next" /\ todo = {}
            /\ db' = tx
            /\ pc' = "idle"
            /\ UNCHANGED <<arrived, tx, batch, todo, cur, outcome, crashes>>

\* The scheduler's process dies and is started again.
Crash == /\ pc # "idle"
         /\ crashes < MaxCrashes
         /\ crashes' = crashes + 1
         /\ tx' = db
         /\ pc' = "idle" /\ todo' = {}
         /\ UNCHANGED <<arrived, db, batch, cur, outcome>>

\* One iteration of the loop, or of the machine's.
Settle(a) == \E status \in {"ok"} \cup Terminal : CloseRow(a, status)

Step == \/ StartCycle \/ TakeNext \/ MachineRaises \/ GateRaises \/ EndCycle
        \/ \E a \in Articles : GateScores(a) \/ \E status \in Closings : CloseRow(a, status)

Next == Step \/ Crash \/ \E a \in Articles : Arrive(a)

\* The scheduler keeps cycling.  Outages end and ceilings reset, so a state
\* that is asked for again and again is answered in the end; so is the gate,
\* which calls nobody.
Fairness == /\ WF_vars(Step)
            /\ \A a \in Articles : SF_vars(Settle(a)) /\ SF_vars(GateScores(a))

Spec == Init /\ [][Next]_vars /\ Fairness

-----------------------------------------------------------------------------
TypeOK == /\ arrived \subseteq Articles
          /\ db \in Store /\ tx \in Store
          /\ pc \in {"idle", "next", "analysing", "gating"}
          /\ batch \subseteq Articles /\ todo \subseteq Articles
          /\ cur \in Articles \cup {0}
          /\ outcome \in Outcome
          /\ crashes \in 0..MaxCrashes

\* "The analysis stands" (driver.py:264): however the gate ends, and whatever
\* is rolled back with it, the eight states are committed by then.
AnalysisStands == [][pc = "gating" => Analysed(db', cur)]_vars

\* Nothing is scored that was not analysed to the end, in the session or on
\* disk, whichever rollbacks came between (gate.py:88-94).
OnlyAnalysedGated == \A a \in Articles : /\ a \in tx.gated => Analysed(tx, a)
                                         /\ a \in db.gated => Analysed(db, a)

\* At the end of an undisturbed cycle every article of the batch has been
\* counted under exactly one heading (driver.py:120-122).
EveryArticleCounted ==
  pc = "next" => outcome.analysed + outcome.dropped + outcome.incomplete
                 = Cardinality(batch) - Cardinality(todo)

\* An article that is settled stays settled, and the counters never say it is
\* pending again (driver.py:10-14, 302-322).
SettledForGood == [][\A a \in Articles : Settled(db, a) => Settled(db', a)]_vars

\* Every article the wired providers can serve is settled in the end -- as
\* long as the others do not fill a whole batch, which is newest first
\* (driver.py:10-14, 125-150).
ServedSettle ==
  Cardinality(Unserved) < Limit =>
    \A a \in Articles \ Unserved : (a \in arrived) ~> Settled(db, a)

-----------------------------------------------------------------------------
(* What comments say, and the code does not do. *)

\* "Everything else -- an outage, an exhausted budget, a missing provider --
\* is a condition that ends" (driver.py:13-14): every article is settled.
EveryArticleSettles == \A a \in Articles : (a \in arrived) ~> Settled(db, a)

\* "scoring can be redone for free on the next pass" (driver.py:257): what is
\* analysed is gated in the end.
EveryAnalysedIsGated == \A a \in Articles : Analysed(db, a) ~> a \in db.gated

\* "One article failing must not cost the rest of the batch their turn"
\* (driver.py:227): an exception in one article leaves the others' scores.
NeighboursKeepTheirScores ==
  [][(pc = "analysing" /\ pc' = "next") => tx.gated \subseteq tx'.gated]_vars
=============================================================================
