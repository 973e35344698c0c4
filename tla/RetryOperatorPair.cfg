SPECIFICATION OpSpec
CONSTANTS
  Server = {s1}
  Tx = {t1, t2}
  Call = {c1}
  Timer = {k1, k2}
  RetryLimit = {2}
  MaxStops = 1
  MaxDbErrors = 1
  None = None
SYMMETRY Symmetry
VIEW View
CONSTRAINT FaultsAlone
INVARIANTS
  OpTypeOK
  HandleIsLive
CHECK_DEADLOCK FALSE
