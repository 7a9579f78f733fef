SPECIFICATION Spec
CONSTANTS
  q1 = q1
  q2 = q2
  Requests <- MCRequests
  Chunks <- MCChunks
  HoldMicros = 3
  InputCost = 1
  UsageCost = 4
  MaxRejects = 0
INVARIANT
  DeliveredIsCharged
CHECK_DEADLOCK FALSE
