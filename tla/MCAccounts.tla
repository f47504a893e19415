------------------------------ MODULE MCAccounts ------------------------------
(* Two accounts ever, one browser, two requests at once, short limits.      *)
EXTENDS Accounts, TLC

MCSymmetry == Permutations(Requests) \cup Permutations(Users)
=============================================================================
