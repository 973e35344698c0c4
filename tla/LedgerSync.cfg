SPECIFICATION Spec
CONSTANTS
  Server = {s1}
  Entity = {e1}
  Task = {k1, k2}
  MaxLedger = 2
  MaxFaults = 2
  MaxEvents = 3
  StreamRetries = 1
  BatchRetries = 1
  ManualRetries = 2
  PartitionGap = 1
  RecoveredGap = 1
  SafetyMargin = 1
  FullSpan = 1
  CheckpointSpan = 1
  FullGap = 0
  CheckpointGap = 0
  None = None
INVARIANTS
  TypeOK
  NeverAhead
  SyncExclusive
CHECK_DEADLOCK FALSE
SYMMETRY Slots
