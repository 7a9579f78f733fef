---------------------------- MODULE MCSettlement ----------------------------
(* Bounds for Settlement.  Two rails with an order of the same index; one   *)
(* transaction pays two orders, one of them with two outputs, another pays  *)
(* the first order again, and nobody pays on the second rail.               *)
EXTENDS Settlement

CONSTANTS r1, r2, t1, t2, h1, h2

MCOrders == {<<r1, 1>>, <<r1, 2>>, <<r2, 1>>}
\* The second order tops up the token of the first.
MCHashOf == [order \in MCOrders |-> IF order[1] = r1 THEN h1 ELSE h2]
MCTxs == {t1, t2}
Out(n, order, amount) == [n |-> n, order |-> order, amount |-> amount]
MCOutputs ==
  [tx \in MCTxs |->
     CASE tx = t1 -> {Out(1, <<r1, 1>>, 1), Out(2, <<r1, 1>>, 1), Out(3, <<r1, 2>>, 1)}
       [] tx = t2 -> {Out(1, <<r1, 1>>, 1)}]
=============================================================================
