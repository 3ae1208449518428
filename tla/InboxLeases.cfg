SPECIFICATION Spec
CONSTANTS
  s1 = s1  A = A  B = B  a1 = a1  a2 = a2  b1 = b1  p1 = p1  i1 = i1  i2 = i2
  None = None
  Sellers <- MCSellers
  Orders <- MCOrders
  Events <- PairEvents
  SellerOf <- MCSellerOf
  OrderOf <- PairOrderOf
  SeqOf <- PairSeqOf
  Partitions <- OnePartition
  Log <- PairLog
  Instances <- TwoInstances
  Permits = 1
  Workers = 2
  RetryBudget = 1
  RetryWindow = 2
  PendingLimit = 2
  RetainedLimit = 2
  LeaseTicks = 1
  MaxBackoff = 1
  MaxPoll = 2
  FinishedLimit = 1
  Faults = {"crash", "claim", "refuse", "stall"}
  MaxFaults = 1
SYMMETRY InstanceSymmetry
INVARIANTS
  SellerLimit
