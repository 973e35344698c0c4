SPECIFICATION FairSpec
CONSTANTS
  Server = {s1}
  Tx = {t1}
  Call = {c1, c2}
  Timer = {k1}
  RetryLimit = {2}
  MaxStops = 0
  MaxDbErrors = 0
  None = None
PROPERTIES
  RetryingIsRetried
CHECK_DEADLOCK FALSE
