--------------------------- MODULE MCDailyPrices ---------------------------
(* Small instances of DailyPrices for TLC. *)
EXTENDS DailyPrices, TLC

CONSTANTS s1, s2

Symmetry == Permutations(Symbols)
=============================================================================
