SPECIFICATION Spec
CONSTANTS
  Hashes = {h1}
  Sessions = {s1, s2}
  HoldIds = {x1, x2}
  CreditKeys = {k1}
  NoSession = NoSession
  NoReply = NoReply
  MaxAttempts = 2
  Micros <- MCMicros
  Payments = {1, 2}
  MaxSafeInteger <- MCMaxSafeInteger
SYMMETRY MCSymmetry
CHECK_DEADLOCK FALSE
INVARIANTS
  TypeOK
  RequestsMatchJournal
PROPERTY ImplementsAccounts
