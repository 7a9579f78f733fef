-------------------------- MODULE MCCreditCrossing --------------------------
(* Bounds for CreditCrossing: a share rounded down to nothing and one of 1. *)
EXTENDS CreditCrossing

MCShares == {0, 1}
=============================================================================
