SPECIFICATION TabFairSpec
CONSTANTS
  p1 = p1
  m1 = m1
  m2 = m2
  m3 = m3
  PastedKeys <- MCPasted
  MintedKeys <- MCMinted
  Opening <- MCOpening
  MaxOrders = 3
  MaxSpends = 1
  MaxFails = 1
CHECK_DEADLOCK FALSE
INVARIANTS
  TabTypeOK
  PurchaseIsKept
PROPERTIES
  NeverUnseen
  CreditIsNoticed
