SPECIFICATION Spec
CONSTANTS
  None = None
  Symbols = {s1, s2}
  Events = {e1, e2}
  InitialCash = 4
  Prices = {1, 2}
  MaxTime = 5
  SettlementDays = 1
  CommissionPct = 25
  TaxPct = 25
  Configs <- MCConfigs
  MaxQty = 2
SYMMETRY Symmetry
INVARIANTS
  TypeOK
  BooksAgree
  MoneyIsConserved
  SlotsHold
PROPERTY TradesFollowEachOther
