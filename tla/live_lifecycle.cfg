SPECIFICATION Spec
CONSTANTS
  None = None
  Symbols = {s1, s2}
  OrderIds = {o1, o2, o3}
  MaxQty = 2
  MaxPositions = 1
  MaxCrashes = 1
  MaxLost = 0
  MaxManual = 0
  PartialFills = TRUE
SYMMETRY Symmetry
INVARIANTS
  TypeOK
  NoOversell
  FinalRowsCarryTheirFills
  QuietLedgerAgrees
PROPERTIES
  KillSwitchStopsEntries
  EntryStaysFixed
  ImplementsOrderDesk
