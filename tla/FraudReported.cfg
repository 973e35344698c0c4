SPECIFICATION FraudSpec
CONSTANTS
 Trade = {t1}
 FraudCall = {k1}
 BatchSize = 1
 InvestigatorSets = {"resolved"}
 MaxFraudFaults = 1
PROPERTY CriticalIsReported
CHECK_DEADLOCK FALSE
