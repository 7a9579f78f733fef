SPECIFICATION FairSpec
CONSTANTS
  Hashes = {h1, h2}
  CreditKeys = {k1, k2}
  Shares <- MCShares
  MaxSafeInteger = 1
  MaxLegacy = 1
  MaxCrashes = 1
  MaxBackups = 1
  MaxRestores = 1
  NoHash = NoHash
  NoKey = NoKey
  NoAnswer = NoAnswer
  NoSession = NoSession
INVARIANTS
  TypeOK
  CreditedAsOwed
  NothingForgotten
  NotOvertaken
PROPERTY EveryCreditLands
