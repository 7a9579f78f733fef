SPECIFICATION FairSpec
CONSTANTS
  Hashes = {h1}
  Sessions = {s1, s2, s3}
  HoldIds = {x1}
  CreditKeys = {k1, k2}
  NoSession = NoSession
  NoReply = NoReply
  MaxAttempts = 2
  Micros = {1, 2}
  Payments = {1}
  MaxSafeInteger <- MCMaxSafeInteger
CHECK_DEADLOCK FALSE
PROPERTIES
  OrphansRecovered
  RequestsEnd
