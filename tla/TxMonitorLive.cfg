SPECIFICATION FairSpec
CONSTANTS
  Server = {s1, s2}
  Tx = {t1}
  Call = {c1, c2}
  Timer = {k1, k2}
  RetryLimit = {2}
  MaxStops = 1
  MaxDbErrors = 1
  None = None
PROPERTIES
  EventuallySettled
  MonitorCleanup
  RetryEnds
CHECK_DEADLOCK FALSE
