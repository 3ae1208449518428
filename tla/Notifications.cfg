SPECIFICATION PartsFairSpec
CONSTANTS
  e1 = e1  e2 = e2  c1 = c1  c2 = c2
  r1 = r1  r2 = r2  b1 = b1  b2 = b2
  None = None
  Events <- TwoEvents
  Consumers <- TwoConsumers
  Retries = 1
  MaxCopies = 2
  Faults = {"crash", "rebalance", "database", "send"}
  MaxFaults = 2
  Realtime <- TwoRealtime
  Bulk <- TwoBulk
  Interval = 2
  MaxTime = 3
INVARIANTS
  NotificationTypeOK SlotsApart OvertakenOnce NoOutcomeSwallowed DuplicatesNeedFailures
PROPERTIES
  EveryOutcomeSettled
CHECK_DEADLOCK FALSE
