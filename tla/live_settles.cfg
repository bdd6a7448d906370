SPECIFICATION FairSpec
CONSTANTS
  None = None
  Symbols = {s1}
  OrderIds = {o1, o2}
  MaxQty = 2
  MaxPositions = 1
  MaxCrashes = 1
  MaxLost = 1
  MaxManual = 1
  PartialFills = TRUE
INVARIANTS
  OneOutstandingOrder
  NoWorkingOrderWrittenOff
PROPERTIES
  AcceptedOrdersSettle
  DisagreementIsNoticed
