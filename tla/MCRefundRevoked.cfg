SPECIFICATION FairSpec
CONSTANTS
  N = 1
  Psps = {"stripe"}
  MaxRequests = 1
  MaxRedeliveries = 0
  MaxRetries = 1
  MaxFaults = 1
PROPERTIES
  RefundedIsRevoked
CHECK_DEADLOCK FALSE
