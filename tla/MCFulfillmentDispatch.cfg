SPECIFICATION Spec
CONSTANTS
  N = 2
  Bundles <- LastIsBundle
  ForwardedStates = {"Pending", "Failure"}
  MaxDeliveries = 2
  MaxPlacedRetries = 1
  MaxJobRetries = 0
  MaxReportRetries = 0
  MaxResets = 0
  MaxFaults = 1
INVARIANTS
  TypeOK
  AtMostOneDispatch
  OneConfirmation
CHECK_DEADLOCK FALSE
