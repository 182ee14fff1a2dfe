SPECIFICATION Spec
CONSTANTS
  N = 2
  Bundles <- LastIsBundle
  ForwardedStates = {"Pending"}
  MaxDeliveries = 1
  MaxPlacedRetries = 0
  MaxJobRetries = 0
  MaxReportRetries = 0
  MaxResets = 0
  MaxFaults = 0
INVARIANTS
  OneWorkerPerTask
CHECK_DEADLOCK FALSE
