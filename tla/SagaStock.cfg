SPECIFICATION Spec
CONSTANTS
  A = A  B = B  C = C  p1 = p1  c1 = c1  c2 = c2
  None = None
  Orders <- TwoOrders
  Products <- OneProduct
  ProductOf <- SameProduct
  Quantity <- TwoForFirst
  InitialStock <- StockOfTwo
  Consumers <- TwoConsumers
  Retries = 1
  OutboxLimit = 2
  BusinessLimit = 3
  AnswerLimit = 3
  BatchSize = 2
  Retention = TRUE
  MaxSequence = 2
  Faults = {"relay", "answerRelay", "database", "redelivery", "rebalance"}
  MaxFaults = 2
SYMMETRY ConsumerSymmetry
INVARIANTS
  TypeOK StockConserved DecisionMatchesStock PendingIsInFlight
CHECK_DEADLOCK FALSE
