----------------------------- MODULE MCTrading -----------------------------
(* Small instances of Trading for TLC. *)
EXTENDS Trading

CONSTANTS
  e1, e2,
  Weight,        \* StrategyConfig.entry_weight and GateConfig.max_weight, in percent
  TriggersUsed   \* which of the two ways to find entries are configured

\* A stop that trails by the range of the last bar, judged by the close ...
Trailing ==
  [stopLoss |-> 20, trigger |-> 20, period |-> 1, k |-> 1, maxDays |-> 9,
   maxBars |-> None, eodBars |-> None, basis |-> "close"]

\* ... and a position that is given up on the next day.
DayLong ==
  [stopLoss |-> 20, trigger |-> 20, period |-> 1, k |-> 1, maxDays |-> 1,
   maxBars |-> 2, eodBars |-> 1, basis |-> "low"]

\* A judge that likes both events of the first symbol.
MCJudgment ==
  [e \in {e1, e2} |->
     IF e = e1 THEN [symbol |-> 1, verdict |-> TRUE, confidence |-> 6, rule |-> DayLong]
               ELSE [symbol |-> 2, verdict |-> TRUE, confidence |-> 7, rule |-> Trailing]]

MCTradingUnit == [s \in Symbols |-> 1]

Base ==
  [entryWeight |-> Weight, history |-> 4, trigger |-> "event", rule |-> Trailing,
   exitWhenDropped |-> FALSE, maxPositions |-> 2, maxWeight |-> Weight,
   cooldownDays |-> 0, noTradeBand |-> 2, minOrderValue |-> 3, priceLimit |-> 25]

MCConfigs ==
  {c \in {Base,
          [Base EXCEPT !.trigger = "watchlist_rank", !.exitWhenDropped = TRUE,
                       !.history = 3, !.maxPositions = 1, !.cooldownDays = 2]} :
     c.trigger \in TriggersUsed}

MCWatchlist == <<<<1, 2>>, <<1, 2>>, <<2>>, <<1, 2>>>>

Flat == [high |-> 5, low |-> 5, close |-> 5]
Wide == [high |-> 6, low |-> 3, close |-> 4]

\* Quiet days, days of wide ranges, and days on which the second symbol is halted.
MCMarkets ==
  {<<Flat, Flat>>, <<Wide, None>>}

MCInitialBars ==
  [s \in Symbols |-> <<[day |-> 0, high |-> 5, low |-> 5, close |-> 5]>>]
=============================================================================
