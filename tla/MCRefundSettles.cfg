SPECIFICATION SettlesSpec
CONSTANTS
  N = 2
  Psps = {"stripe", "paypal", "free"}
  MaxRequests = 2
  MaxRedeliveries = 0
  MaxRetries = 1
  MaxFaults = 2
PROPERTIES
  ReturnSettles
  RefundRecorded
CHECK_DEADLOCK FALSE
