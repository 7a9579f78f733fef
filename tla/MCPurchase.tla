----------------------------- MODULE MCPurchase -----------------------------
(* Bounds for Purchase: three requests race for two slots, and another     *)
(* instance may take one.                                                  *)
EXTENDS Purchase

CONSTANTS b1, b2, b3, o1

MCBuyers == {b1, b2, b3}
MCOthers == {o1}
=============================================================================
