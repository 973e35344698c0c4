SPECIFICATION Spec
CONSTANTS
  Server = {s1, s2}
  Tx = {t1}
  Call = {c1, c2}
  Timer = {k1, k2}
  RetryLimit = {1, 2}
  MaxStops = 1
  MaxDbErrors = 1
  None = None
INVARIANTS
  TypeOK
  RetryBudget
  VerdictRespected
  OneRetryPerReplica
  PendingIsWatched
PROPERTIES
  ImplementsRecord
CHECK_DEADLOCK FALSE
