SPECIFICATION Spec
CONSTANTS
  Hashes = {h1}
  Sessions = {s1, s2, s3}
  HoldIds = {x1}
  CreditKeys = {k1}
  NoSession = NoSession
  NoReply = NoReply
  MaxAttempts = 2
  Micros <- MCMicros
  Payments = {1, 2}
  MaxSafeInteger <- MCMaxSafeInteger
CHECK_DEADLOCK FALSE
PROPERTY LiveHoldsKept
