SPECIFICATION FairSpec
CONSTANTS
  q1 = q1
  q2 = q2
  Requests <- MCRequests
  Chunks <- MCChunks
  HoldMicros = 3
  InputCost = 1
  UsageCost = 4
  MaxRejects = 1

INVARIANTS
  TypeOK
  EndsAgree
PROPERTIES
  HoldsClose
  DecisionIsFinal
CHECK_DEADLOCK FALSE
