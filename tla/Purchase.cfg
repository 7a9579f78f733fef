SPECIFICATION FairSpec
CONSTANTS
  b1 = b1
  b2 = b2
  b3 = b3
  o1 = o1
  None = None
  Buyers <- MCBuyers
  Others <- MCOthers
  MaxOpen = 2
  Capacity = 2
  Refill = 1
  Cost = 1
  Sources = 2
  CacheFor = 2
  Timeout = 1
  MaxTime = 3
CHECK_DEADLOCK FALSE
INVARIANTS
  TypeOK
  OpenOrdersCapped
  NoOrphans
  AdmissionBounded
  RateIsFresh
PROPERTIES
  BuysAnswered
