SPECIFICATION Spec
CONSTANTS
  None = None
  Symbols = {1, 2, 3}
  Market <- MCMarket
  ListingDate <- MCListingDate
  Shapes <- MCShapes
  FirstBars <- MCFirstBars
  FirstDay = 3
  MaxDay = 4
  MaxChanges = 1
  MaxBuilds = 1
  LOOKBACK_BARS = 1
  SKIP_BARS = 0
  HALT_LOOKBACK_BARS = 1
  LIQUIDITY_BARS = 2
  RECENCY_LIMIT_DAYS = 1
  MIN_LISTING_DAYS = 2
  MIN_BASE_PRICE = 2
  MIN_AVG_TRADE_VALUE = 3
  ENTER_RANK = 1
  EXIT_RANK = 2
  TOP_N = 2
INVARIANTS
  TypeOK
  BuildRepeatsThePast
PROPERTY DaytradeListIsFixed
CHECK_DEADLOCK FALSE
