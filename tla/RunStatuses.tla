----------------------------- MODULE RunStatuses -----------------------------
(***************************************************************************)
(* The vocabulary of the analysis rows: the eight states in their order,   *)
(* the statuses a row can close with, and which of them end the matter     *)
(* (ai/schemas.py, ai/state/machine.py, ai/state/driver.py).               *)
(***************************************************************************)
EXTENDS Integers

\* STATE_ORDER.  A state is its position, so that "earlier" is "smaller".
Triage == 1
Classify == 2
ExtractIoc == 3
MapTtp == 4
Diamond == 5
Narrative == 6
Sketch == 7
Verify == 8

States == 1..8

RouterRefusals == {"too_large", "source_ban", "blocked_tlp", "no_provider", "budget_exhausted"}

\* What a row can be closed with: RunStatus, or a refusal written verbatim.
Closings == {"ok", "dropped", "staged", "error"} \cup RouterRefusals

Finished == {"ok", "dropped"}

\* TERMINAL_STATUSES: the scheduler does not retry an article that holds one.
Terminal == {"dropped", "staged", "blocked_tlp", "source_ban", "too_large"}

\* "none" is the absence of a row; "pending" the row of a state in flight.
Statuses == {"none", "pending"} \cup Closings
=============================================================================
