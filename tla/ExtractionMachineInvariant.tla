---------------------- MODULE ExtractionMachineInvariant ----------------------
(* Why the machine's properties hold: the inductive invariant, part by part. *)
EXTENDS ExtractionMachine

\* Every state before s is finished, and its output can be read.
Before(st, s) == \A t \in 1..(s - 1) : st.rows[t] = "ok" /\ t \in st.usable

\* Without a schema change the rows are a run of finished ones, every finished
\* one is usable, and none stands on a replaced output.
Clean(st) == /\ \A s \in States : \A t \in 1..(s - 1) : st.rows[s] # "none" => st.rows[t] = "ok"
             /\ \A s \in States : st.rows[s] \in Finished => s \in st.usable
             /\ st.stale = {}

Together(st) == \A s \in States : Reusable(st, s) => /\ s \in Extracting => s \in st.findings
                                                     /\ s \in Projecting => s \in st.columns

Within(st) == /\ st.day < DailyCap + MaxPrice + beside
              /\ st.month < MonthlyCap + MaxPrice + beside

StoreInv(st) == (upgraded \/ Clean(st)) /\ Together(st) /\ Within(st)

Between == {"idle", "scan", "ended"}          \* nothing of a state is open
InState == {"ladder", "calling", "rewriting"} \* a row is open, unfinished

\* What the session holds beyond the commit is the row of the current state.
OneOpenRow ==
  /\ pc = "idle" => cur = 1 /\ tx = db
  /\ pc # "ended" => Before(tx, cur)
  /\ pc \in Between => tx.rows = db.rows /\ tx.usable = db.usable
  /\ pc \notin Between => /\ ~Reusable(db, cur)
                          /\ tx.rows = [db.rows EXCEPT ![cur] = tx.rows[cur]]
  /\ pc \in InState => tx.rows[cur] = "pending" /\ tx.usable = db.usable \ {cur}
  /\ pc = "closing" => /\ tx.rows[cur] \in Closings
                       /\ tx.rows[cur] = "dropped" => cur = Triage
                       /\ tx.usable = IF tx.rows[cur] \in Finished THEN db.usable \cup {cur}
                                                                   ELSE db.usable \ {cur}

\* A call in flight was cleared by the router, the budget included: what has
\* been spent of it since, others have.
CallCleared ==
  /\ pc \in {"calling", "rewriting"} => /\ rung <= LadderLength(cur)
                                        /\ answer.refusal = "none" /\ answer.provider \in Providers
  /\ pc = "calling" => /\ DailyCap > 0 /\ tx.day < DailyCap + beside
                       /\ MonthlyCap > 0 /\ tx.month < MonthlyCap + beside

Boundary == cloud_allowed(job.tlp, job.share, job.ceiling)

\* What crossed the boundary since the last commit has its audit rows.
TrailInv ==
  /\ pc \in Between => trail = NoTrail
  /\ pc \in {"calling", "rewriting"} /\ ~Registry[answer.provider].local /\ ~Boundary
       => cur \in tx.audits
  /\ trail.sent > 0 => cur \in tx.audits
  /\ trail.sent <= trail.audited + (IF pc \in {"rewriting", "closing"} /\ cur \in ProseStates
                                    THEN 1 ELSE 0)

IInv == /\ TypeOK
        /\ StoreInv(db) /\ StoreInv(tx)
        /\ OneOpenRow /\ CallCleared /\ TrailInv
=============================================================================
