SPECIFICATION FairSpec
CONSTANTS
  s1 = s1  A = A  B = B  a1 = a1  a2 = a2  b1 = b1  c1 = c1  c2 = c2  i1 = i1  i2 = i2
  None = None
  Sellers <- MCSellers
  Orders <- OrderA
  Events <- ChainEvents
  SellerOf <- ChainSellerOf
  OrderOf <- ChainOrderOf
  SeqOf <- ChainSeqOf
  Clients <- OneClient
  Instances <- TwoInstances
  Quota = 3
  OperationsPerOrder = 3
  BatchSize = 2
  Faults = {"crash", "relay", "redelivery"}
  MaxFaults = 2
INVARIANTS
  ReportedIffDelivered
PROPERTIES
  EveryObligationClosed
