SPECIFICATION Spec
CONSTANTS
  Server = {s1}
  Tx = {t1}
  Call = {c1, c2}
  Timer = {k1}
  RetryLimit = {1, 2}
  MaxStops = 0
  MaxDbErrors = 0
  None = None
INVARIANTS
  ExhaustionAlerted
CHECK_DEADLOCK FALSE
