----------------------------- MODULE MCBacktest -----------------------------
(* Small instances of Backtest for TLC. *)
EXTENDS Backtest, TLC

\* Daily bars with halts and delistings, traded on events, and two bars a day
\* with fills at the close, traded by rank.
MCConfigs ==
  {[trigger |-> "event", barsPerDay |-> 1, fillAtClose |-> FALSE, barsEnd |-> TRUE,
    maxPositions |-> 2, cooldownDays |-> 0],
   [trigger |-> "watchlist_rank", barsPerDay |-> 2, fillAtClose |-> TRUE, barsEnd |-> FALSE,
    maxPositions |-> 1, cooldownDays |-> 1]}

\* Symbols are interchangeable, and so are events.
Symmetry == Permutations(Symbols) \cup Permutations(Events)
=============================================================================
