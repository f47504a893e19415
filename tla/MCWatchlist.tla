----------------------------- MODULE MCWatchlist ------------------------------
(* Two refreshes beside the scheduler; two targets and two victims, who all  *)
(* match fuzzily, and one pair by substring too.                             *)
EXTENDS Watchlist, TLC

MCExact == {<<1, 2>>}
MCFuzzy == {<<1, 1>>, <<2, 1>>, <<2, 2>>}
MCSymmetry == Permutations(Refreshers)
=============================================================================
