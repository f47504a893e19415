----------------------------- MODULE MCCollection -----------------------------
(* A past year and the current one, a victim of the one and two of the other, *)
(* and two cyberattacks; no constraint keys one of either.                    *)
EXTENDS Collection

MCVictims == {"older", "keyless", "new"}
MCAttacks == {"attack", "undated"}
MCUnkeyed == {"keyless", "undated"}
MCYearOf == [older |-> 1, keyless |-> 2, new |-> 2]
MCGroupOf == [older |-> "a", keyless |-> "b", new |-> "c"]
=============================================================================
