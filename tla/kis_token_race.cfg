SPECIFICATION Spec
CONSTANTS
  None = None
  p1 = p1
  p2 = p2
  Procs = {p1, p2}
  Accounts = {"real"}
  Path <- MCPath
  RETRIES = 2
  Validity = 4
  Margin = 2
  MaxCallTime = 1
  MaxTime = 4
  MaxIssued = 2
  MayRace = TRUE
SYMMETRY Symmetry
INVARIANT CachedCredentialIsLive
CHECK_DEADLOCK FALSE
