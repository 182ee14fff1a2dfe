SPECIFICATION FairSpec
CONSTANTS
  MaxNotices = 2
  MaxRetries = 1
  MaxFaults = 1
INVARIANTS
  TypeOK
  OneMobileTransaction
  RestsOnRefund
  ReturnLinked
PROPERTIES
  RefundRevokes
CHECK_DEADLOCK FALSE
