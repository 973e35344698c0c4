SPECIFICATION FairSpec
CONSTANTS
  Server = {s1, s2}
  Webhook = {w1}
  Event = {e1}
  Call = {c1, c2}
  RetryLimit = {2}
  MaxStops = 1
  MaxDbErrors = 1
  None = None
INVARIANTS
  TypeOK
  GivenUpLate
  SuccessIsAccepted
  OneFirstAttempt
  CountIsHonest
PROPERTIES
  RetriesEnd
  FirstAttemptMade
