---------------------------- MODULE AnalysisRows -----------------------------
(***************************************************************************)
(* What the extraction machine promises of an article's rows, seen from    *)
(* outside (ai/state/machine.py:4-9): each state writes its own row, the   *)
(* row is committed the moment it closes, a finished state is never closed *)
(* again, and a state is reached only over finished ones.  Nothing is said *)
(* of providers, attempts, refusals' reasons or crashes: those are the     *)
(* business of ExtractionMachine, which implements this specification.     *)
(***************************************************************************)
EXTENDS RunStatuses

VARIABLES
  rows,     \* rows[s]: the committed status of state s
  usable    \* the states whose stored output still satisfies its schema

rowVars == <<rows, usable>>

RowsTypeOK == rows \in [States -> Statuses] /\ usable \in SUBSET States

RowsInit == rows = [s \in States |-> "none"] /\ usable = {}

Reusable(s) == rows[s] \in Finished /\ s \in usable

\* The state that is next to be run: everything before it is ok and usable.
Reached(s) == /\ \A t \in 1..(s - 1) : rows[t] = "ok" /\ t \in usable
              /\ ~Reusable(s)

\* A state closes, with output or without; only triage drops an article.
CloseRow(s, status) ==
  /\ Reached(s)
  /\ status = "dropped" => s = Triage
  /\ rows' = [rows EXCEPT ![s] = status]
  /\ usable' = IF status \in Finished THEN usable \cup {s} ELSE usable \ {s}

\* scripts/corpus_runner.py restyle: the prose states, and the audit that
\* reads them, are cleared together so that they are asked for again.
ClearProseRows == /\ rows[Narrative] = "ok"
                  /\ rows' = [s \in States |-> IF s >= Narrative THEN "none" ELSE rows[s]]
                  /\ usable' = {s \in usable : s < Narrative}

\* A deployment changes a schema: an output stored under the old one is no
\* longer accepted by _rehydrate.
OutdateRow(s) == /\ Reusable(s)
                 /\ usable' = usable \ {s}
                 /\ UNCHANGED rows

RowsNext == \/ \E s \in States, status \in Closings : CloseRow(s, status)
            \/ ClearProseRows
            \/ \E s \in States : OutdateRow(s)

RowsSpec == RowsInit /\ [][RowsNext]_rowVars
=============================================================================
