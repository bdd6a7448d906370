--------------------------- MODULE MCLiveTrading ---------------------------
(* Small instances of LiveTrading for TLC. *)
EXTENDS LiveTrading, TLC

\* Symbols are interchangeable, and so are order ids.
Symmetry == Permutations(Symbols) \cup Permutations(OrderIds)
=============================================================================
