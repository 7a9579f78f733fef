----------------------------- MODULE Settlement -----------------------------
(***************************************************************************)
(* From a payment on a chain to a row in the credit outbox: the order      *)
(* tables of pending.db (core/src/ledger/orders.ts), settle() (core/src/   *)
(* ledger/settle.ts), the poll tick that calls it once per rail (core/src/ *)
(* payments.ts) and what /order-status reads (core/src/ledger/orderstatus. *)
(* ts, core/src/endpoints/payment-reads.ts).  CreditCrossing delivers the  *)
(* outbox.                                                                 *)
(*                                                                         *)
(* settle() is synchronous but each of its statements is a transaction of  *)
(* its own, so the process can die between any two of them: it is modelled *)
(* statement by statement, with nothing but a crash in between.            *)
(***************************************************************************)
EXTENDS Integers, FiniteSets, Functions

CONSTANTS
  Orders,        \* <<rail, order_index>>: wallets never repeat an index
  Txs,           \* transactions that may appear on a chain
  Outputs,       \* tx -> its outputs to us, [n, order, amount]
  Expected,      \* expected_atomic of an order
  CreditMicros,  \* credit_micros of an order
  UnfundedReap, Backstop,   \* reap horizons
  MaxOpen,       \* MAX_OPEN_ORDERS
  MaxTime,       \* bound: last value of the clock
  HashOf,        \* order -> the token hash it buys credit for
  NoOrder

ASSUME SettlementAssumption ==
  /\ Expected \in Nat \ {0} /\ CreditMicros \in Nat /\ MaxOpen \in Nat
  /\ UnfundedReap \in Nat /\ Backstop \in Nat /\ MaxTime \in Nat
  /\ \A tx \in Txs :
       /\ IsFiniteSet(Outputs[tx])
       /\ \A out \in Outputs[tx] : out.order \in Orders /\ out.amount \in Nat \ {0}

VARIABLES
  pending_orders,  \* order -> [created_at, seen], seen when seen_at is set
  credit_outbox,   \* <<tx, order>> (the idempotency key) -> [hash, micros]
  revenue,         \* history: key -> rows of the sales book written for it
  progress,        \* order -> confirming or finalizing, in memory only
  poll,            \* rail -> idle, or asked and the indices its wallet watches
  settling,        \* the settle() that runs, if any
  minted,          \* orders whose address exists
  chain,           \* tx -> Absent, Deep or Final
  now

pendingDb == <<pending_orders, credit_outbox, revenue>>
vars == <<pendingDb, progress, poll, settling, minted, chain, now>>

-----------------------------------------------------------------------------
Rails == {order[1] : order \in Orders}
Hashes == {HashOf[order] : order \in Orders}
OrdersOf(rail) == {order \in Orders : order[1] = rail}
openOrders(rail) == OrdersOf(rail) \cap DOMAIN pending_orders

\* What a wallet may report of a transaction: nothing, confirming, deep enough
\* but still locked, or final.  On the chain it is absent, not final, or final;
\* how deep a transaction that is not final is, only the report says.
Absent == 0
Confirming == 1
Deep == 2
Final == 3

Idle == [step |-> "idle", watch |-> {}]
NotSettling == [rail |-> NoOrder]
Settling == settling # NotSettling
\* The synchronous part of the tick: a rail with nothing to watch does not wait.
Due(rail) == poll[rail].step = "asked" /\ poll[rail].watch = {}
Running == Settling \/ \E rail \in Rails : Due(rail)

Drop(table, keys) == [key \in DOMAIN table \ keys |-> table[key]]
Put(table, key, row) == [k \in DOMAIN table \cup {key} |-> IF k = key THEN row ELSE table[k]]

\* credit_micros in proportion, rounded half up.
Share(amount) == (2 * CreditMicros * amount + Expected) \div (2 * Expected)
\* What a transaction pays to an order: its outputs share one key.
Paid(tx, order) ==
  LET outs == {out \in Outputs[tx] : out.order = order}
  IN  SumFunctionOnSet([out \in outs |-> out.amount], outs)
PaysTo(tx) == {out.order : out \in Outputs[tx]}
Keys == {<<tx, order>> : tx \in Txs, order \in Orders}

Init ==
  /\ pending_orders = [order \in {} |-> 0]
  /\ credit_outbox = [key \in {} |-> 0]
  /\ revenue = [key \in Keys |-> 0]
  /\ progress = [order \in {} |-> 0]
  /\ poll = [rail \in Rails |-> Idle]
  /\ settling = NotSettling
  /\ minted = {}
  /\ chain = [tx \in Txs |-> Absent]
  /\ now = 0

-----------------------------------------------------------------------------
(* Around the poller *)

\* Mutant: the claim is not gated on the count.
BuyUngated(order) ==
  /\ ~Running /\ order \notin minted
  /\ minted' = minted \cup {order}
  /\ pending_orders' = Put(pending_orders, order, [created_at |-> now, seen |-> FALSE])
  /\ UNCHANGED <<credit_outbox, revenue, progress, poll, settling, chain, now>>

\* /buy, once its address is minted: tryAddOrder.
Buy(order) ==
  /\ ~Running /\ order \notin minted
  /\ Cardinality(DOMAIN pending_orders) < MaxOpen
  /\ minted' = minted \cup {order}
  /\ pending_orders' = Put(pending_orders, order, [created_at |-> now, seen |-> FALSE])
  /\ UNCHANGED <<credit_outbox, revenue, progress, poll, settling, chain, now>>

\* A buyer pays an address that was quoted, or a payment becomes final.
Deepen(tx) ==
  /\ ~Running /\ chain[tx] < Final /\ PaysTo(tx) \subseteq minted
  /\ chain' = [chain EXCEPT ![tx] = IF @ = Absent THEN Deep ELSE Final]
  /\ UNCHANGED <<pendingDb, progress, poll, settling, minted, now>>

Pass ==
  /\ ~Running /\ now < MaxTime /\ now' = now + 1
  /\ UNCHANGED <<pendingDb, progress, poll, settling, minted, chain>>

\* The process dies and starts again: pending.db is what is left.
Restart ==
  /\ progress' = [order \in {} |-> 0]
  /\ poll' = [rail \in Rails |-> Idle]
  /\ settling' = NotSettling
  /\ UNCHANGED <<pendingDb, minted, chain, now>>

-----------------------------------------------------------------------------
(* The poll tick *)

\* pollOnce, single flight: every rail lists what it watches and asks its wallet.
Tick ==
  /\ ~Running /\ \A rail \in Rails : poll[rail].step = "idle"
  /\ poll' = [rail \in Rails |-> [step |-> "asked", watch |-> openOrders(rail)]]
  /\ UNCHANGED <<pendingDb, progress, settling, minted, chain, now>>

\* incomingTransfers fails: this rail sits the tick out.
PollFails(rail) ==
  /\ ~Running /\ poll[rail].step = "asked"
  /\ poll' = [poll EXCEPT ![rail] = Idle]
  /\ UNCHANGED <<pendingDb, progress, settling, minted, chain, now>>

\* Mutant: an inbound that is not final yet is credited too.
SettleUnconfirmed(rail, view) ==
  /\ ~Settling /\ poll[rail].step = "asked" /\ (Running => Due(rail))
  /\ \A tx \in Txs : view[tx] <= chain[tx]
  /\ LET heard == {key \in Keys : key[2] \in PaysTo(key[1]) \cap poll[rail].watch
                                   /\ view[key[1]] >= Confirming}
         seen == {key[2] : key \in heard}
     IN  settling' =
           [rail |-> rail, tosee |-> seen,
            groups |-> {key \in heard : key[2] \in openOrders(rail)},
            live |-> [order \in seen |->
                        IF \E key \in heard : key[2] = order /\ view[key[1]] >= Deep
                        THEN "finalizing" ELSE "confirming"]]
  /\ poll' = [poll EXCEPT ![rail] = Idle]
  /\ UNCHANGED <<pendingDb, progress, minted, chain, now>>

\* The wallet answers with what it knows, which may lag behind the chain (a
\* wallet that is still scanning answers with nothing at all), and settle()
\* starts: it reads the open orders once and groups what is final by key.
Settle(rail, view) ==
  /\ ~Settling /\ poll[rail].step = "asked" /\ (Running => Due(rail))
  /\ \A tx \in Txs : view[tx] <= chain[tx]
  /\ LET heard == {key \in Keys : key[2] \in PaysTo(key[1]) \cap poll[rail].watch
                                   /\ view[key[1]] >= Confirming}
         seen == {key[2] : key \in heard}
     IN  settling' =
           [rail |-> rail, tosee |-> seen,
            groups |-> {key \in heard : view[key[1]] = Final /\ key[2] \in openOrders(rail)},
            live |-> [order \in seen |->
                        IF \E key \in heard : key[2] = order /\ view[key[1]] >= Deep
                        THEN "finalizing" ELSE "confirming"]]
  /\ poll' = [poll EXCEPT ![rail] = Idle]
  /\ UNCHANGED <<pendingDb, progress, minted, chain, now>>

\* Mutant: the update is keyed on the index alone.
markSeenAnyRail(order) ==
  /\ Settling /\ order \in settling.tosee
  /\ settling' = [settling EXCEPT !.tosee = @ \ {order}]
  /\ pending_orders' = [o \in DOMAIN pending_orders |->
       IF o[2] = order[2] THEN [pending_orders[o] EXCEPT !.seen = TRUE] ELSE pending_orders[o]]
  /\ UNCHANGED <<credit_outbox, revenue, progress, poll, minted, chain, now>>

markSeen(order) ==
  /\ Settling /\ order \in settling.tosee
  /\ settling' = [settling EXCEPT !.tosee = @ \ {order}]
  /\ pending_orders' =
       IF order \in DOMAIN pending_orders
       THEN [pending_orders EXCEPT ![order].seen = TRUE] ELSE pending_orders
  /\ UNCHANGED <<credit_outbox, revenue, progress, poll, minted, chain, now>>

\* Mutant: the sale is booked when the order was open, not when the key is new.
commitSettlementBooksOpen(key) ==
  /\ Settling /\ settling.tosee = {} /\ key \in settling.groups
  /\ settling' = [settling EXCEPT !.groups = @ \ {key}]
  /\ credit_outbox' =
       IF key \in DOMAIN credit_outbox THEN credit_outbox
       ELSE Put(credit_outbox, key,
                [hash |-> HashOf[key[2]], micros |-> Share(Paid(key[1], key[2]))])
  /\ revenue' =
       IF key[2] \notin DOMAIN pending_orders THEN revenue ELSE [revenue EXCEPT ![key] = @ + 1]
  /\ pending_orders' = Drop(pending_orders, {key[2]})
  /\ UNCHANGED <<progress, poll, minted, chain, now>>

\* One transaction: enqueue unless the key is known, book the sale only if it
\* was not, close the order either way.
commitSettlement(key) ==
  /\ Settling /\ settling.tosee = {} /\ key \in settling.groups
  /\ settling' = [settling EXCEPT !.groups = @ \ {key}]
  /\ credit_outbox' =
       IF key \in DOMAIN credit_outbox THEN credit_outbox
       ELSE Put(credit_outbox, key,
                [hash |-> HashOf[key[2]], micros |-> Share(Paid(key[1], key[2]))])
  /\ revenue' =
       IF key \in DOMAIN credit_outbox THEN revenue ELSE [revenue EXCEPT ![key] = @ + 1]
  /\ pending_orders' = Drop(pending_orders, {key[2]})
  /\ UNCHANGED <<progress, poll, minted, chain, now>>

\* Mutant: the sightings are remembered in memory.
UnfundedInMemory(order) ==
  /\ order \notin DOMAIN progress \cup DOMAIN settling.live
  /\ pending_orders[order].created_at < now - UnfundedReap

\* purgeStale at the backstop, the fast reap of what was never seen, and the
\* refresh of the live status (dying inside it leaves rows to the next tick).
Stale(order) == pending_orders[order].created_at < now - Backstop
Unfunded(order) ==
  /\ ~pending_orders[order].seen
  /\ pending_orders[order].created_at < now - UnfundedReap

Reap ==
  /\ Settling /\ settling.tosee = {} /\ settling.groups = {}
  /\ LET mine == openOrders(settling.rail)
         gone == {order \in mine : Stale(order) \/ Unfunded(order)}
         live == settling.live
         kept == {order \in DOMAIN progress :
                    order[1] = settling.rail => order \in mine \ gone}
         fresh == DOMAIN live \cap (mine \ gone)
     IN  /\ pending_orders' = Drop(pending_orders, gone)
         /\ progress' = [order \in kept \cup fresh |->
                           IF order \in fresh THEN live[order] ELSE progress[order]]
  /\ settling' = NotSettling
  /\ UNCHANGED <<credit_outbox, revenue, poll, minted, chain, now>>

\* The open order of a hash and an address, or none: an address is one order's.
openOrderByHashAddress(order) == {order} \cap DOMAIN pending_orders

\* Mutant: only the live progress is read.
orderStatusLive(order) ==
  IF openOrderByHashAddress(order) = {} THEN "closed"
  ELSE IF order \in DOMAIN progress THEN progress[order]
  ELSE "waiting"

\* /order-status for one order, named by its hash and address.
orderStatus(order) ==
  IF openOrderByHashAddress(order) = {} THEN "closed"
  ELSE IF order \in DOMAIN progress THEN progress[order]
  ELSE IF pending_orders[order].seen THEN "detected"
  ELSE "waiting"

(* A client that does not name the address is told about one open order of *)
(* its hash, where a top-up may have opened several.                       *)

\* Mutant: the newest wins.
PreferredNewest(open) == open
\* Orders with money on them come first.
Preferred(open) ==
  LET paid == {order \in open : pending_orders[order].seen}
  IN IF paid # {} THEN paid ELSE open
\* The newest of them; rows of one instant come in any order.
latestOpenOrderByHash(hash) ==
  LET best == Preferred({order \in DOMAIN pending_orders : HashOf[order] = hash})
  IN {order \in best : \A other \in best :
        pending_orders[other].created_at <= pending_orders[order].created_at}
statusByHash(hash) ==
  IF latestOpenOrderByHash(hash) = {} THEN {"closed"}
  ELSE {orderStatus(order) : order \in latestOpenOrderByHash(hash)}

-----------------------------------------------------------------------------
Next ==
  \/ Pass \/ Restart \/ Tick \/ Reap
  \/ \E order \in Orders : Buy(order) \/ markSeen(order)
  \/ \E tx \in Txs : Deepen(tx)
  \/ \E rail \in Rails : PollFails(rail) 
                            \/ \E view \in [Txs -> Absent .. Final] : Settle(rail, view)
  \/ \E key \in Keys : commitSettlement(key)

Spec == Init /\ [][Next]_vars

-----------------------------------------------------------------------------
(* Every row is well formed; a live status is kept only for an open order  *)
(* or until the next tick of its rail.                                     *)
TypeOK ==
  /\ DOMAIN pending_orders \subseteq minted /\ minted \subseteq Orders
  /\ \A order \in DOMAIN pending_orders :
       pending_orders[order] \in [created_at : 0 .. now, seen : BOOLEAN]
  /\ Cardinality(DOMAIN pending_orders) <= MaxOpen
  /\ DOMAIN credit_outbox \subseteq Keys
  /\ \A key \in DOMAIN credit_outbox : credit_outbox[key] \in [hash : Hashes, micros : Nat]
  /\ revenue \in [Keys -> Nat]
  /\ \A order \in DOMAIN progress : progress[order] \in {"confirming", "finalizing"}
  /\ \A rail \in Rails : poll[rail].watch \subseteq OrdersOf(rail)

(* What the store says was sold is what was paid.  The sales book and the  *)
(* outbox agree, one row per key, also when the process dies between two   *)
(* statements and the deposit is scanned again; a credit goes to the order *)
(* its transaction paid, for the sum of its outputs, once it is final; and *)
(* a sighting is somebody's payment to that very order, not to its         *)
(* namesake on another rail (settle.ts:41-63, orders.ts:267-289).          *)
BookedIffEnqueued ==
  \A key \in Keys : revenue[key] = IF key \in DOMAIN credit_outbox THEN 1 ELSE 0
CreditedAsPaid ==
  \A key \in DOMAIN credit_outbox :
    /\ key[2] \in PaysTo(key[1]) /\ chain[key[1]] = Final
    /\ credit_outbox[key] = [hash |-> HashOf[key[2]], micros |-> Share(Paid(key[1], key[2]))]
SightingsAreReal ==
  \A order \in DOMAIN pending_orders :
    (pending_orders[order].seen \/ order \in DOMAIN progress) =>
      \E tx \in Txs : order \in PaysTo(tx) /\ chain[tx] # Absent
BookedAsPaid == BookedIffEnqueued /\ CreditedAsPaid /\ SightingsAreReal

(* Once someone is seen paying for an order, the order is closed by its    *)
(* credit or at the backstop: no restart, blind wallet or other rail's     *)
(* tick reaps it earlier.                                                  *)
SeenOrdersSpared ==
  [][\A order \in DOMAIN pending_orders \ DOMAIN pending_orders' :
       pending_orders[order].seen =>
         Stale(order) \/ \E tx \in Txs : <<tx, order>> \in DOMAIN credit_outbox']_vars

(* payment-reads.ts: a status "can never regress back to waiting" while    *)
(* its order is open, across restarts and blind ticks; and a client that   *)
(* asks by hash alone is not told "waiting" over an order on which money   *)
(* was seen (orders.ts:103-107).                                           *)
NotShadowed ==
  \A order \in DOMAIN pending_orders :
    orderStatus(order) # "waiting" => "waiting" \notin statusByHash(HashOf[order])
StatusNeverRegresses ==
  [][/\ NotShadowed'
     /\ \A order \in DOMAIN pending_orders :
          orderStatus(order) # "waiting" => orderStatus(order)' # "waiting"]_vars
=============================================================================
