------------------------------ MODULE MCLedger ------------------------------
(* Bounds for Ledger: a negative amount, two small ones and one above the  *)
(* largest safe integer.                                                   *)
EXTENDS Ledger, TLC

MCMicros == {-1, 1, 2, 4}
MCMaxSafeInteger == 3

MCSymmetry ==
  Permutations(Hashes) \cup Permutations(Sessions) \cup
  Permutations(HoldIds) \cup Permutations(CreditKeys)
=============================================================================
