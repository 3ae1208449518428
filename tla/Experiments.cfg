SPECIFICATION FairSpec
CONSTANTS
  e1 = e1  e2 = e2  A = A  B = B  b1 = b1  s1 = s1
  None = None
  Absent = Absent
  Requests <- MCRequests
  Events <- MCEvents
  Orders <- MCOrders
  Bodies <- MCBodies
  OrderOf <- MCOrderOf
  SequenceOf <- MCSequenceOf
  Policies <- MCPolicies
  MaxGroup = 2
  MaxLedgers = 2
  MaxSteps = 1
  Operations <- MCEvents
  CalledOrders <- MCCalledOrders
  CalledOrderOf <- MCCalledOrderOf
  Sellers <- MCSellers
  SellerOf <- MCSellerOf
  GlobalLimit = 2
  SellerLimit = 1
  RetryLimit = 1
  Window = 2
  MaxCalls = 3
  MaxTime = 2
  Planned <- MCEvents
  MaxTries = 2
  Room = 1
  MaxLost = 1
  LastSequence = 2
  Bounds <- MCBounds
  MaxTicks = 1
  NoTrace = NoTrace
  Stale = 3
  Grace = 3
  Runs = 3
  StepsOf <- MCStepsOf
  AtStart <- MCAtStart
  MaxFailures = 2
  Seeds = 2
  Budgets = {28, 94}
  TestMinutes = 1
  Minutes <- MCMinutes
  Overruns = {1}
  Results <- MCResults
  Programs <- MCPrograms
  Batches = 3
  PerSecond = 2
  MaxRaises = 1
INVARIANTS
  ExperimentTypeOK LedgerHonest     PlanAccounted 
PROPERTIES
  AlertHonest ChosenPassed ExperimentEnds
CHECK_DEADLOCK FALSE
