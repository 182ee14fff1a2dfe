SPECIFICATION FairSpec
CONSTANTS
  N = 1
  Psps = {"paypal"}
  MaxRequests = 1
  MaxRedeliveries = 0
  MaxRetries = 1
  MaxFaults = 0
PROPERTIES
  RefundIsRevoked
CHECK_DEADLOCK FALSE
