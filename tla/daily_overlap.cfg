SPECIFICATION Spec
CONSTANTS
  None = None
  s1 = s1
  s2 = s2
  Symbols = {s1, s2}
  FirstDay = 3
  MaxDay = 5
  MaxActions = 1
  MaxCollects = 2
  MaxBackfills = 1
  LookbackDays = 1
  OverlapDays = 1
  WindowDays = 1
  EmptyTolerance = 2
  MaxConsecutive = 2
  Pauses = {{1}, {1, 3}}
  Floors = {None, 1}
  MayOverlap = TRUE
SYMMETRY Symmetry
PROPERTY BackfilledPastIsKept
CHECK_DEADLOCK FALSE
