SPECIFICATION Spec
CONSTANTS
  Requests = {r1, r2, r3}
  Purchases = {p1}
  MaxYear = 2
  Attempts = 2
  MaxLive = 2
  MaxRetirements = 1
  MaxFaults = 1
SYMMETRY Symmetry
CONSTRAINT OneDisturbance
INVARIANTS
  TypeOK
  NumbersUnique
  LateRequestMakesNoOrder
  CartsCleanedUp
  RetryHeals
PROPERTIES
  RetirementNotUndone
CHECK_DEADLOCK FALSE
