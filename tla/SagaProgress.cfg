SPECIFICATION FairSpec
CONSTANTS
  A = A  B = B  C = C  p1 = p1  c1 = c1  c2 = c2
  None = None
  Orders <- TwoOrders
  Products <- OneProduct
  ProductOf <- SameProduct
  Quantity <- TwoForFirst
  InitialStock <- StockOfTwo
  Consumers <- OneConsumer
  Retries = 2
  OutboxLimit = 8
  BusinessLimit = 2
  AnswerLimit = 2
  BatchSize = 3
  Retention = FALSE
  MaxSequence = 3
  Faults = {"relay", "answerRelay", "database", "redelivery", "rebalance"}
  MaxFaults = 2
INVARIANTS
  BusinessWithinBudget PublishedInSequence
PROPERTIES
  EveryOrderDecided
CHECK_DEADLOCK FALSE
