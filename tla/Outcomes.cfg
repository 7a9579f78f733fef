SPECIFICATION OutcomeSpec
CONSTANTS
  r1 = r1
  r2 = r2
  t1 = t1
  Requests <- MCRequests
  Tokens <- MCTokens
  FlawSets <- MCFlaws
  TokenOf <- MCTokenOf
  Openings <- MCOpenings
  HoldMicros = 2
  InputFloor = 1
  Costs = {3}
  Replies <- MCReplies
  MaxRejects = 1
  MaxBackground = 1
SYMMETRY MCSymmetry
CHECK_DEADLOCK FALSE
INVARIANTS
  OutcomeTypeOK
  Reconciled
  OneChargePerHold
  DenialsAreOurs
