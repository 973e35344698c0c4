SPECIFICATION OpSpec
CONSTANTS
  Server = {s1}
  Tx = {t1}
  Call = {c1, c2}
  Timer = {k1, k2}
  RetryLimit = {1, 2}
  MaxStops = 0
  MaxDbErrors = 0
  None = None
SYMMETRY Symmetry
VIEW View
INVARIANTS
  ConfirmedIsTrue
  HandleIsLive
  OpBudget
CHECK_DEADLOCK FALSE
