SPECIFICATION Spec
CONSTANTS
  r1 = r1
  r2 = r2
  t1 = t1
  t2 = t2
  h1 = h1
  h2 = h2
  NoOrder = NoOrder
  HashOf <- MCHashOf
  Orders <- MCOrders
  Txs <- MCTxs
  Outputs <- MCOutputs
  Expected = 2
  CreditMicros = 3
  UnfundedReap = 0
  Backstop = 1
  MaxOpen = 2
  MaxTime = 2
CHECK_DEADLOCK FALSE
INVARIANTS
  TypeOK
  BookedAsPaid
PROPERTIES
  SeenOrdersSpared
  StatusNeverRegresses
