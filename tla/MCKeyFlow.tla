------------------------------ MODULE MCKeyFlow ------------------------------
(* KeyFlow with one pasted key that has a balance, three to mint, and three *)
(* orders: a purchase, a new quote for it, and the next purchase.           *)
EXTENDS KeyFlow

CONSTANTS p1, m1, m2, m3

MCPasted == {p1}
MCMinted == {m1, m2, m3}
MCOpening == [k \in MCPasted |-> 1]
=============================================================================
