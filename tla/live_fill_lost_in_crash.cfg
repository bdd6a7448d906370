SPECIFICATION Spec
CONSTANTS
  None = None
  Symbols = {s1, s2}
  OrderIds = {o1, o2, o3}
  MaxQty = 1
  MaxPositions = 2
  MaxCrashes = 1
  MaxLost = 0
  MaxManual = 0
  PartialFills = FALSE
INVARIANT HaltConcernsOpenOrders
