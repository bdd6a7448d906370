SPECIFICATION Spec
CONSTANTS
  None = None
  Commands = {"/kill", "/resume", "/status"}
  Disclosures = {e1, e2}
  Configs <- MCConfigs
  Verdicts = {v1, v2}
  Holidays = {2}
  Announced = 2
  EventLookback = 2
  BatchLimit = 2
  PageCount = 1
  MaxTime = 4
  MaxFailures = 2
SYMMETRY Symmetry
INVARIANTS
  TypeOK
  CycleObeysTheChat
  EventsAreWhole
CHECK_DEADLOCK FALSE
