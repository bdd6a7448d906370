SPECIFICATION Spec
CONSTANTS
  None = None
  e1 = e1
  e2 = e2
  Symbols = {1, 2}
  Events = {e1, e2}
  Judgment <- MCJudgment
  TradingUnit <- MCTradingUnit
  Weight = 60
  TriggersUsed = {"event", "watchlist_rank"}
  InitialCash = 28
  Configs <- MCConfigs
  Watchlist <- MCWatchlist
  Markets <- MCMarkets
  FillPrices = {4, 5, 6}
  CostPct = 25
  EventLookback = 2
  SessionBars = {None}
  InitialBars <- MCInitialBars
  DisclosureDays = {1, 2}
  MaxDay = 4
INVARIANTS
  TypeOK
  
  SoldForAReason
  EventOpensOnce
PROPERTIES
  StopNeverFalls
  CooldownIsKept
