SPECIFICATION Spec
CONSTANTS
  N = 2
  Psps = {"stripe", "paypal", "free"}
  MaxRequests = 2
  MaxRedeliveries = 1
  MaxRetries = 1
  MaxFaults = 1
CONSTRAINT
  Bounded
INVARIANTS
  TypeOK
  OneReturnPerItem
  RefundedOnce
  OneTransactionPerRefund
PROPERTIES
  ImplementsRefundPromise
CHECK_DEADLOCK FALSE
