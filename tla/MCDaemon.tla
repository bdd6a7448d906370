------------------------------ MODULE MCDaemon ------------------------------
(* Small instances of Daemon for TLC. *)
EXTENDS Daemon, TLC

\* A real account with events, and a long chat with a paper account.
MCConfigs ==
  {[paper |-> FALSE, trigger |-> "event", messages |-> 1],
   [paper |-> TRUE, trigger |-> "watchlist", messages |-> 4]}

\* Disclosures are interchangeable, and so are verdicts.
Symmetry == Permutations(Disclosures) \cup Permutations(Verdicts)
=============================================================================
