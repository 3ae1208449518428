SPECIFICATION Spec
CONSTANTS
  s1 = s1  A = A  B = B  a1 = a1  a2 = a2  b1 = b1  c1 = c1  c2 = c2  i1 = i1  i2 = i2
  None = None
  Sellers <- MCSellers
  Orders <- MCOrders
  Events <- MCEvents
  SellerOf <- MCSellerOf
  OrderOf <- MCOrderOf
  SeqOf <- MCSeqOf
  Clients <- TwoClients
  Instances <- OneInstance
  Quota = 5
  OperationsPerOrder = 3
  BatchSize = 2
  Faults = {"crash", "relay", "redelivery"}
  MaxFaults = 1
SYMMETRY Interchangeable
INVARIANTS
  TypeOK QuotaAccounts
