----------------------------- MODULE MCMetering -----------------------------
(* Bounds for Metering: amounts that a balance of 2 can and cannot cover,  *)
(* and a malformed negative cost; for liveness two payments instead, so    *)
(* that a refused request is topped up and its late openHold then taken.   *)
EXTENDS Metering, TLC

MCMicros == {-1, 1, 2}
MCMaxSafeInteger == 2

MCSymmetry == Permutations(Sessions) \cup Permutations(HoldIds) \cup Permutations(CreditKeys)
=============================================================================
