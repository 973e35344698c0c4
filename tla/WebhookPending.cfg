SPECIFICATION FairSpec
CONSTANTS
  Server = {s1, s2}
  Webhook = {w1}
  Event = {e1}
  Call = {c1, c2}
  RetryLimit = {1}
  MaxStops = 1
  MaxDbErrors = 0
  None = None
PROPERTIES
  PendingIsSent
