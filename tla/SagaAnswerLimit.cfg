SPECIFICATION Spec
CONSTANTS
  A = A  B = B  C = C  p1 = p1  c1 = c1  c2 = c2
  None = None
  Orders <- OneUnknown
  Products <- OneProduct
  ProductOf <- LastUnknown
  Quantity <- OneEach
  InitialStock <- StockOfTwo
  Consumers <- TwoConsumers
  Retries = 1
  OutboxLimit = 6
  BusinessLimit = 3
  AnswerLimit = 1
  BatchSize = 2
  Retention = FALSE
  MaxSequence = 1
  Faults = {}
  MaxFaults = 0
INVARIANTS
  AnswersWithinLimit
CHECK_DEADLOCK FALSE
