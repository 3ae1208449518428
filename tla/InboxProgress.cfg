SPECIFICATION FairSpec
CONSTANTS
  s1 = s1  A = A  B = B  a1 = a1  a2 = a2  b1 = b1  p1 = p1  i1 = i1  i2 = i2
  None = None
  Sellers <- MCSellers
  Orders <- OrderA
  Events <- ChainEvents
  SellerOf <- ChainSellerOf
  OrderOf <- ChainOrderOf
  SeqOf <- ChainSeqOf
  Partitions <- OnePartition
  Log <- ChainLog
  Instances <- TwoInstances
  Permits = 1
  Workers = 1
  RetryBudget = 1
  RetryWindow = 1
  PendingLimit = 1
  RetainedLimit = 1
  LeaseTicks = 1
  MaxBackoff = 0
  MaxPoll = 1
  FinishedLimit = 1
  Faults = {"crash", "rebalance", "database", "refuse", "timeout", "lost", "stall", "renew"}
  MaxFaults = 1
INVARIANTS
  WithinCapacity

  
