SPECIFICATION Spec
CONSTANTS
  N = 2
  Bundles <- LastIsBundle
  ForwardedStates = {"Pending"}
  MaxDeliveries = 1
  MaxPlacedRetries = 0
  MaxJobRetries = 1
  MaxReportRetries = 1
  MaxResets = 0
  MaxFaults = 1
INVARIANTS
  SuccessMeansAccess
  EntitlementRecorded
  NoSilentLoss
PROPERTIES
  ImplementsLifecycle
CHECK_DEADLOCK FALSE
