---------------------------- MODULE MCKisClient ----------------------------
(* Small instances of KisClient for TLC. *)
EXTENDS KisClient, TLC

CONSTANTS p1, p2

\* The two accounts share one file, as they do where its path is set by hand.
MCPath == [a \in Accounts |-> "shared"]

Symmetry == Permutations(Procs)
=============================================================================
