SPECIFICATION ServicesSpec
CONSTANTS
  Threshold = 2
  MaxAdmitted = 2
  MaxFailures = 4
  MaxTimeouts = 3
  Flusher = {f1, f2}
  BufferSize = 2
  RetryKeep = 1
  MaxEntries = 4
  MaxLosses = 2
  Trade = {t1, t2}
  FraudCall = {k1, k2}
  BatchSize = 2
  InvestigatorSets = {"open"}
  MaxFraudFaults = 1
  Trader = {d1}
  Check = {h1, h2}
  RateLimit = 2
  Poll = {p1, p2}
  PageLimit = 1
  MaxEvents = 2
  MaxEventLedger = 3
  MaxPollFaults = 1
  Deployment = {d1, d2}
  MaxContracts = 3
  MaxDeployFaults = 1
  ContractType <- MCTypes
  ContractId <- MCIds
  DeployRequest <- MCDeploy
  Request <- MCRequest
  Configured <- MCConfigured
  EventContract <- MCEventContract
  MaxLoad = 2
  MaxListenedRows = 2
  TradeId = {b1}
  BorderCall = {c1, c2, c3}
  MaxBorderFaults = 1
  Workflow = {w1}
  Execution = {x1, x2}
  StepAttempts <- FewAttempts
  NoExecution = NoExecution
INVARIANTS
  OpenIsTimed
  LogConserved
  BufferBounded
  TradeAnalysedOnce
  RateOvershoot
  EventsKept
  NewestIsActive
  WorkflowVerdict
  RunningIsRun
PROPERTIES
  BreakerReopens
  LogSettles
  ReportStands
  CriticalIsAttended
  EventsDelivered
  CancellationStands
  ExecutionIsOver
CHECK_DEADLOCK FALSE
