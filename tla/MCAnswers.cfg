SPECIFICATION Spec
CONSTANTS
  MaxItems = 3
  Prices = {0, 1, 2, 5}
  Cuts = {0, 2}
  Plans = {1, 3, 7}
  Trees <- MCTrees
  Depth <- MCDepth
  Contexts <- MCContexts
  Codes <- MCCodes
  Variants <- MCVariants
  PageSize = 1
  MaxOrders = 2
  Courses = {"a", "b", "c"}
  Price <- MCPrice
  Offers <- MCOffers
  PricePage = 1
  Readers = {r1, r2}
  MaxEdits = 2
  OrderIds = {o1, o2, o3}
  Limit = 2
  Cutoff = 1
  MaxDay = 3
  Processors = {"stripe", "paypal", "ios_iap"}
  MaxPayments = 2
  MaxMessages = 2
  SanctionRetries = 1
INVARIANTS
  RefundsAddUp
  PredicateRight
  TurnedDownForCause
  ApplicableIsEarned
  PricedFromRecentProgram
  DiscountIsOffered
  HistoryComplete
  ReceiptOfPayment
  SanctionEnforced
  DeactivatedForCause
CHECK_DEADLOCK FALSE
