SPECIFICATION Spec
CONSTANTS
  Hashes = {h1, h2}
  Sessions = {s1, s2, s3}
  HoldIds = {x1, x2}
  CreditKeys = {k1, k2}
  NoSession = NoSession
  Micros <- MCMicros
  MaxSafeInteger <- MCMaxSafeInteger
SYMMETRY MCSymmetry
INVARIANTS
  TypeOK
  Conservation
  SessionsFenced
  DebitedAtMostOnce
PROPERTY ClosedOnlyBySettlement
