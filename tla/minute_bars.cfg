SPECIFICATION Spec
CONSTANTS
  None = None
  MaxMinute = 4
  DayLength = 3
  MaxTrades = 3
  PageSize = 2
  MaxPages = 2
  Reach = 3
  MaxRuns = 2
  MaxFaults = 1
  MaxWire = 2
CHECK_DEADLOCK FALSE
INVARIANTS
  TypeOK
  RestRowsAreTrue
  CollectedRangeIsWhole
  StreamIsWhole
