SPECIFICATION FairSpec
CONSTANTS
  N = 2
  Bundles <- LastIsBundle
  ForwardedStates = {"Pending"}
  MaxDeliveries = 1
  MaxPlacedRetries = 1
  MaxJobRetries = 0
  MaxReportRetries = 1
  MaxResets = 1
  MaxFaults = 1
PROPERTIES
  ProcessingSettles
CHECK_DEADLOCK FALSE
