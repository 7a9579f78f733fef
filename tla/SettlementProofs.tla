-------------------------- MODULE SettlementProofs --------------------------
(***************************************************************************)
(* Proofs about the two ways money is settled.  Of orders, in the first    *)
(* part: the order tables, settle() and the order status, for any rails,   *)
(* orders, transactions, outputs, caps and horizons.  Every statement of   *)
(* settle() is a step of its own here as in the model, so what is proved   *)
(* holds across a crash between any two of them.  Of holds, in the second: *)
(* how every metered request ends, what it is charged and where it is      *)
(* counted, for any requests, tokens, balances, prices and replies.  The   *)
(* names of Outcomes's specification carry a prefix, so that both can be   *)
(* extended here.                                                          *)
(***************************************************************************)
EXTENDS Settlement, Outcomes, SumLemmas

-----------------------------------------------------------------------------
(* The inductive invariant.  What the tables say is only as good as what   *)
(* the running settle() still has in hand, so most of it is about that.    *)

\* Someone's payment to the order is on the chain.
Sighted(order) == \E tx \in Txs : order \in PaysTo(tx) /\ chain[tx] # Absent
Owned(key) == key[2] \in PaysTo(key[1]) /\ chain[key[1]] = Final

LiveStatus == {"confirming", "finalizing"}

World ==
  /\ now \in Nat
  /\ chain \in [Txs -> {Absent, Deep, Final}]
  /\ IsFiniteSet(DOMAIN pending_orders)
  /\ poll \in [Rails -> [step : {"idle", "asked"}, watch : SUBSET minted]]
  /\ DOMAIN progress \subseteq minted

\* What a settle() carries from its one read of the tables to its end.
Scan ==
  Settling =>
    /\ DOMAIN settling = {"rail", "tosee", "groups", "live"}
    /\ settling.tosee \subseteq DOMAIN settling.live
    /\ settling.groups \subseteq Keys
    /\ \A order \in DOMAIN settling.live :
         /\ settling.live[order] \in LiveStatus
         /\ order \in minted /\ Sighted(order)
         /\ order \in DOMAIN pending_orders \ settling.tosee => pending_orders[order].seen
    /\ \A key \in settling.groups : Owned(key)

\* A live status is that of an order that was seen.
LiveIsSeen ==
  \A order \in DOMAIN progress \cap DOMAIN pending_orders : pending_orders[order].seen

IInv == TypeOK /\ BookedAsPaid /\ World /\ Scan /\ LiveIsSeen

-----------------------------------------------------------------------------
(* Amounts *)

(* What a transaction pays to an order is a natural number.                *)
LEMMA PaidType == ASSUME NEW tx \in Txs, NEW order PROVE Paid(tx, order) \in Nat
<1> DEFINE outs == {out \in Outputs[tx] : out.order = order}
           f == [out \in outs |-> out.amount]
<1>1. IsFiniteSet(outs)
  BY SettlementAssumption, FS_Subset
<1>2. \A out \in outs : f[out] \in Nat
  BY SettlementAssumption
<1>3. SumFunctionOnSet(f, outs) \in Nat
  <2> HIDE DEF outs, f
  <2> QED BY <1>1, <1>2, SumType
<1> QED BY <1>3 DEF Paid

(* A quotient of naturals is a natural: Math.round of a credit cannot go    *)
(* below nothing.                                                          *)
LEMMA QuotientType == ASSUME NEW a \in Nat, NEW b \in Nat \ {0} PROVE a \div b \in Nat
OBVIOUS

(* The share of the credit an amount buys is a natural number.             *)
LEMMA ShareType == ASSUME NEW amount \in Nat PROVE Share(amount) \in Nat
<1>1. 2 * CreditMicros * amount + Expected \in Nat
  <2>1. CreditMicros \in Nat /\ Expected \in Nat
    BY SettlementAssumption
  <2> QED BY <2>1
<1>2. 2 * Expected \in Nat \ {0}
  BY SettlementAssumption
<1> QED BY <1>1, <1>2, QuotientType DEF Share

(* A key is a transaction and an order.                                    *)
LEMMA KeyParts ==
  ASSUME NEW key \in Keys
  PROVE  key[1] \in Txs /\ key[2] \in Orders /\ key = <<key[1], key[2]>>
BY DEF Keys

-----------------------------------------------------------------------------
(* The invariant holds of an empty store *)

LEMMA SettlementInit == Init => IInv
<1> SUFFICES ASSUME Init PROVE IInv
  OBVIOUS
<1> USE DEF Init
<1>1. Cardinality(DOMAIN pending_orders) = 0 /\ IsFiniteSet(DOMAIN pending_orders)
  BY FS_EmptySet
<1>2. TypeOK
  BY <1>1, SettlementAssumption DEF TypeOK, Idle, OrdersOf
<1>3. BookedAsPaid
  BY DEF BookedAsPaid, BookedIffEnqueued, CreditedAsPaid, SightingsAreReal
<1>4. World
  BY <1>1 DEF World, Absent, Idle
<1>5. Scan /\ LiveIsSeen
  BY DEF Scan, Settling, LiveIsSeen
<1> QED BY <1>2, <1>3, <1>4, <1>5 DEF IInv

-----------------------------------------------------------------------------
(* ... and is kept by everything that goes on around the poller *)

\* Buy adds a row nobody has seen for an order that is new.
LEMMA BuyKeeps == ASSUME IInv, NEW order \in Orders, Buy(order) PROVE IInv'
<1> USE DEF IInv, Buy
<1>1. /\ order \notin DOMAIN pending_orders /\ order \notin DOMAIN progress
      /\ DOMAIN pending_orders' = DOMAIN pending_orders \cup {order}
      /\ pending_orders'[order] = [created_at |-> now, seen |-> FALSE]
      /\ \A o \in DOMAIN pending_orders : pending_orders'[o] = pending_orders[o]
  BY DEF TypeOK, World, Put
<1>2. /\ IsFiniteSet(DOMAIN pending_orders')
      /\ Cardinality(DOMAIN pending_orders') <= MaxOpen
  <2>1. IsFiniteSet(DOMAIN pending_orders) /\ Cardinality(DOMAIN pending_orders) < MaxOpen
    BY DEF World
  <2>2. Cardinality(DOMAIN pending_orders) \in Nat
    BY <2>1, FS_CardinalityType
  <2>3. Cardinality(DOMAIN pending_orders') = Cardinality(DOMAIN pending_orders) + 1
    BY <1>1, <2>1, FS_AddElement
  <2> QED BY <1>1, <2>1, <2>2, <2>3, FS_AddElement, SettlementAssumption
<1>3. TypeOK'
  <2>1. \A o \in DOMAIN pending_orders' :
          pending_orders'[o] \in [created_at : 0 .. now', seen : BOOLEAN]
    <3>1. now' = now /\ now \in Nat
      BY DEF World
    <3>2. pending_orders'[order] \in [created_at : 0 .. now, seen : BOOLEAN]
      <4> HIDE DEF IInv, Buy
      <4>1. now \in 0 .. now
        BY <3>1
      <4> QED BY <1>1, <4>1
    <3>3. \A o \in DOMAIN pending_orders :
            pending_orders[o] \in [created_at : 0 .. now, seen : BOOLEAN]
      BY DEF TypeOK
    <3> HIDE DEF IInv, Buy
    <3> QED BY <1>1, <3>1, <3>2, <3>3
  <2> QED BY <1>1, <1>2, <2>1 DEF TypeOK
<1>4. BookedAsPaid'
  <2>1. SightingsAreReal'
    <3>1. SightingsAreReal /\ progress' = progress /\ chain' = chain
      BY DEF BookedAsPaid
    <3>2. pending_orders'[order].seen = FALSE
      BY <1>1
    <3> HIDE DEF IInv, Buy
    <3> QED BY <1>1, <3>1, <3>2 DEF SightingsAreReal
  <2>2. BookedIffEnqueued' /\ CreditedAsPaid'
    BY DEF BookedAsPaid, BookedIffEnqueued, CreditedAsPaid
  <2> QED BY <2>1, <2>2 DEF BookedAsPaid
<1>5. World'
  BY <1>2 DEF World
<1>6. ~Settling
  BY DEF Running
<1>7. Scan' /\ LiveIsSeen'
  BY <1>1, <1>6 DEF Scan, Settling, LiveIsSeen
<1> QED BY <1>3, <1>4, <1>5, <1>7

\* A payment only ever gets deeper, so what was sighted or owned stays so.
LEMMA DeepenKeeps == ASSUME IInv, NEW tx \in Txs, Deepen(tx) PROVE IInv'
<1> USE DEF IInv, Deepen
<1>1. /\ chain' \in [Txs -> {Absent, Deep, Final}]
      /\ \A t \in Txs : /\ chain[t] # Absent => chain'[t] # Absent
                        /\ chain[t] = Final => chain'[t] = Final
  BY DEF World, Absent, Deep, Final
<1>2. TypeOK' /\ World'
  BY <1>1 DEF TypeOK, World, pendingDb
<1>3. BookedAsPaid'
  BY <1>1, KeyParts
     DEF BookedAsPaid, BookedIffEnqueued, CreditedAsPaid, SightingsAreReal, TypeOK, pendingDb
<1>4. ~Settling
  BY DEF Running
<1>5. Scan' /\ LiveIsSeen'
  BY <1>4 DEF Scan, Settling, LiveIsSeen, pendingDb
<1> QED BY <1>2, <1>3, <1>5

LEMMA PassKeeps == ASSUME IInv, Pass PROVE IInv'
<1> USE DEF IInv, Pass
<1>1. now' \in Nat /\ now <= now' /\ now' = now + 1
  BY DEF World
<1>2. TypeOK' /\ World'
  BY <1>1 DEF TypeOK, World, pendingDb
<1>3. BookedAsPaid'
  BY DEF BookedAsPaid, BookedIffEnqueued, CreditedAsPaid, SightingsAreReal, pendingDb
<1>4. ~Settling
  BY DEF Running
<1>5. Scan' /\ LiveIsSeen'
  BY <1>4 DEF Scan, Settling, LiveIsSeen, pendingDb
<1> QED BY <1>2, <1>3, <1>5

\* A crash forgets the live statuses and the settle() in hand, and nothing else.
LEMMA RestartKeeps == ASSUME IInv, Restart PROVE IInv'
<1> USE DEF IInv, Restart
<1>1. TypeOK' /\ World'
  BY DEF TypeOK, World, pendingDb, Idle, OrdersOf
<1>2. BookedAsPaid'
  BY DEF BookedAsPaid, BookedIffEnqueued, CreditedAsPaid, SightingsAreReal, pendingDb
<1>3. Scan' /\ LiveIsSeen'
  BY DEF Scan, Settling, LiveIsSeen
<1> QED BY <1>1, <1>2, <1>3

-----------------------------------------------------------------------------
(* ... by the poll tick and the answers to it *)

LEMMA TickKeeps == ASSUME IInv, Tick PROVE IInv'
<1> USE DEF IInv, Tick
<1>1. \A rail \in Rails : /\ poll'[rail].watch \subseteq OrdersOf(rail)
                          /\ poll'[rail].watch \subseteq minted
  BY DEF openOrders, TypeOK
<1>2. TypeOK' /\ World'
  BY <1>1 DEF TypeOK, World, pendingDb, openOrders
<1>3. BookedAsPaid'
  BY DEF BookedAsPaid, BookedIffEnqueued, CreditedAsPaid, SightingsAreReal, pendingDb
<1>4. Scan' /\ LiveIsSeen'
  BY DEF Running, Scan, Settling, LiveIsSeen, pendingDb
<1> QED BY <1>2, <1>3, <1>4

LEMMA PollFailsKeeps == ASSUME IInv, NEW rail \in Rails, PollFails(rail) PROVE IInv'
<1> USE DEF IInv, PollFails
<1>1. TypeOK' /\ World'
  BY DEF TypeOK, World, pendingDb, Idle
<1>2. BookedAsPaid'
  BY DEF BookedAsPaid, BookedIffEnqueued, CreditedAsPaid, SightingsAreReal, pendingDb
<1>3. Scan' /\ LiveIsSeen'
  BY DEF Running, Scan, Settling, LiveIsSeen, pendingDb
<1> QED BY <1>1, <1>2, <1>3

\* What a wallet reports is no deeper than the chain, so every order it is heard
\* to pay was paid and every key that is final in its answer is final.
LEMMA SettleKeeps ==
  ASSUME IInv, NEW rail \in Rails, NEW view \in [Txs -> Absent .. Final], Settle(rail, view)
  PROVE  IInv'
<1> DEFINE heard == {key \in Keys : key[2] \in PaysTo(key[1]) \cap poll[rail].watch
                                     /\ view[key[1]] >= Confirming}
           seen == {key[2] : key \in heard}
<1>1. /\ settling'.tosee = seen /\ DOMAIN settling'.live = seen
      /\ settling'.groups \subseteq heard
      /\ \A key \in settling'.groups : view[key[1]] = Final
      /\ \A order \in seen : settling'.live[order] \in LiveStatus
      /\ DOMAIN settling' = {"rail", "tosee", "groups", "live"}
  BY DEF Settle, LiveStatus
<1>2. ASSUME NEW key \in heard
      PROVE  /\ key[2] \in minted /\ chain[key[1]] # Absent
             /\ key[2] \in PaysTo(key[1]) /\ key[1] \in Txs /\ key \in Keys
             /\ view[key[1]] = Final => chain[key[1]] = Final
  <2>1. /\ key \in Keys /\ key[2] \in PaysTo(key[1]) /\ key[2] \in poll[rail].watch
        /\ view[key[1]] >= Confirming
    OBVIOUS
  <2>2. key[1] \in Txs
    BY <2>1, KeyParts
  <2>3. view[key[1]] <= chain[key[1]] /\ view[key[1]] \in 0 .. 3
    BY <2>2 DEF Settle, Absent, Final
  <2>4. chain[key[1]] \in {Absent, Deep, Final} /\ poll[rail].watch \subseteq minted
    BY <2>2 DEF IInv, World
  <2> HIDE DEF heard, seen
  <2> QED BY <2>1, <2>2, <2>3, <2>4 DEF Absent, Confirming, Deep, Final
<1>3. TypeOK' /\ World'
  <2>1. poll' = [poll EXCEPT ![rail] = Idle]
    BY DEF Settle
  <2> QED BY <2>1 DEF IInv, TypeOK, World, pendingDb, Settle, Idle
<1>4. BookedAsPaid' /\ LiveIsSeen'
  BY DEF IInv, BookedAsPaid, BookedIffEnqueued, CreditedAsPaid, SightingsAreReal, LiveIsSeen,
         pendingDb, Settle
<1>5. Scan'
  <2>1. \A order \in seen : order \in minted /\ Sighted(order)
    <3> SUFFICES ASSUME NEW key \in heard PROVE key[2] \in minted /\ Sighted(key[2])
      OBVIOUS
    <3>1. /\ key[2] \in minted /\ chain[key[1]] # Absent
          /\ key[2] \in PaysTo(key[1]) /\ key[1] \in Txs
      BY <1>2
    <3> QED BY <3>1 DEF Sighted
  <2>2. minted' = minted /\ chain' = chain
    BY DEF Settle
  <2>3. \A order \in seen : order \in minted' /\ Sighted(order)'
    BY <2>1, <2>2 DEF Sighted
  <2>4. \A key \in settling'.groups : key \in Keys /\ Owned(key)'
    <3> SUFFICES ASSUME NEW key \in settling'.groups PROVE key \in Keys /\ Owned(key)'
      OBVIOUS
    <3>1. key \in heard /\ view[key[1]] = Final
      BY <1>1
    <3>2. key \in Keys /\ chain[key[1]] = Final /\ key[2] \in PaysTo(key[1])
      BY <1>2, <3>1
    <3> QED BY <2>2, <3>2 DEF Owned
  <2> HIDE DEF seen
  <2> QED BY <1>1, <2>3, <2>4 DEF Scan
<1> QED BY <1>3, <1>4, <1>5 DEF IInv

-----------------------------------------------------------------------------
(* ... and by each statement of settle() *)

\* The sighting is written: it is a payment to this very order.
LEMMA MarkSeenKeeps == ASSUME IInv, NEW order \in Orders, markSeen(order) PROVE IInv'
<1>1. /\ Settling /\ order \in settling.tosee /\ order \in DOMAIN settling.live
      /\ settling' = [settling EXCEPT !.tosee = @ \ {order}]
      /\ UNCHANGED <<credit_outbox, revenue, progress, poll, minted, chain, now>>
  BY DEF IInv, Scan, markSeen
<1>2. /\ DOMAIN pending_orders' = DOMAIN pending_orders
      /\ \A o \in DOMAIN pending_orders :
           /\ o # order => pending_orders'[o] = pending_orders[o]
           /\ o = order => pending_orders'[o] = [pending_orders[o] EXCEPT !.seen = TRUE]
  BY DEF markSeen
<1>3. \A o \in DOMAIN pending_orders :
        pending_orders[o] \in [created_at : 0 .. now, seen : BOOLEAN]
  BY DEF IInv, TypeOK
<1>4. \A o \in DOMAIN pending_orders' :
        /\ pending_orders'[o] \in [created_at : 0 .. now, seen : BOOLEAN]
        /\ o # order => pending_orders'[o] = pending_orders[o]
        /\ o = order => pending_orders'[o].seen = TRUE
  BY <1>2, <1>3
<1>5. TypeOK' /\ World'
  BY <1>1, <1>2, <1>4 DEF IInv, TypeOK, World
<1>6. Sighted(order)
  BY <1>1 DEF IInv, Scan
<1>7. BookedAsPaid'
  <2>1. SightingsAreReal'
    BY <1>1, <1>2, <1>4, <1>6 DEF IInv, BookedAsPaid, SightingsAreReal, Sighted
  <2>2. BookedIffEnqueued' /\ CreditedAsPaid'
    BY <1>1 DEF IInv, BookedAsPaid, BookedIffEnqueued, CreditedAsPaid
  <2> QED BY <2>1, <2>2 DEF BookedAsPaid
<1>8. LiveIsSeen'
  BY <1>1, <1>2, <1>4 DEF IInv, LiveIsSeen
<1>9. Scan'
  <2>1. /\ DOMAIN settling' = {"rail", "tosee", "groups", "live"}
        /\ settling'.tosee = settling.tosee \ {order}
        /\ settling'.groups = settling.groups /\ settling'.live = settling.live
    BY <1>1 DEF IInv, Scan
  <2>2. \A o \in DOMAIN settling.live :
          /\ settling.live[o] \in LiveStatus /\ o \in minted' /\ Sighted(o)'
          /\ o \in DOMAIN pending_orders' \ settling'.tosee => pending_orders'[o].seen
    BY <1>1, <1>2, <1>4, <2>1 DEF IInv, Scan, Sighted
  <2>3. \A key \in settling.groups : key \in Keys /\ Owned(key)'
    BY <1>1 DEF IInv, Scan, Owned
  <2>4. settling.tosee \subseteq DOMAIN settling.live
    BY <1>1 DEF IInv, Scan
  <2> QED BY <2>1, <2>2, <2>3, <2>4 DEF Scan
<1> QED BY <1>5, <1>7, <1>8, <1>9 DEF IInv

\* The key joins the outbox and the sales book together or not at all.
LEMMA CommitKeeps == ASSUME IInv, NEW key \in Keys, commitSettlement(key) PROVE IInv'
<1>1. /\ Settling /\ settling.tosee = {} /\ key \in settling.groups
      /\ settling' = [settling EXCEPT !.groups = @ \ {key}]
      /\ UNCHANGED <<progress, poll, minted, chain, now>>
  BY DEF commitSettlement
<1>2. /\ DOMAIN pending_orders' = DOMAIN pending_orders \ {key[2]}
      /\ \A o \in DOMAIN pending_orders' : pending_orders'[o] = pending_orders[o]
  BY DEF commitSettlement, Drop
<1> DEFINE row == [hash |-> HashOf[key[2]], micros |-> Share(Paid(key[1], key[2]))]
<1>3. /\ DOMAIN credit_outbox' = DOMAIN credit_outbox \cup {key}
      /\ \A k \in DOMAIN credit_outbox : credit_outbox'[k] = credit_outbox[k]
      /\ key \notin DOMAIN credit_outbox => credit_outbox'[key] = row
  BY DEF commitSettlement, Put
<1>4. Owned(key) /\ key[1] \in Txs /\ key[2] \in Orders
  BY <1>1, KeyParts DEF IInv, Scan
<1>5. row \in [hash : Hashes, micros : Nat]
  BY <1>4, PaidType, ShareType DEF Hashes
<1>6. revenue' \in [Keys -> Nat] /\ BookedIffEnqueued'
  <2>1. revenue \in [Keys -> Nat] /\ BookedIffEnqueued
    BY DEF IInv, TypeOK, BookedAsPaid
  <2>2. CASE key \in DOMAIN credit_outbox
    <3>1. revenue' = revenue /\ credit_outbox' = credit_outbox
      BY <2>2 DEF commitSettlement
    <3> QED BY <2>1, <3>1 DEF BookedIffEnqueued
  <2>3. CASE key \notin DOMAIN credit_outbox
    <3>1. revenue' = [revenue EXCEPT ![key] = @ + 1] /\ revenue[key] = 0
      BY <2>1, <2>3 DEF commitSettlement, BookedIffEnqueued
    <3> QED BY <1>3, <2>1, <2>3, <3>1 DEF BookedIffEnqueued
  <2> QED BY <2>2, <2>3
<1> HIDE DEF row
<1>7. /\ IsFiniteSet(DOMAIN pending_orders')
      /\ Cardinality(DOMAIN pending_orders') <= MaxOpen
  <2>1. IsFiniteSet(DOMAIN pending_orders) /\ Cardinality(DOMAIN pending_orders) <= MaxOpen
    BY DEF IInv, World, TypeOK
  <2>2. Cardinality(DOMAIN pending_orders) \in Nat
        /\ Cardinality(DOMAIN pending_orders') \in Nat
        /\ IsFiniteSet(DOMAIN pending_orders')
        /\ Cardinality(DOMAIN pending_orders') <= Cardinality(DOMAIN pending_orders)
    BY <1>2, <2>1, FS_Subset, FS_CardinalityType
  <2> QED BY <2>1, <2>2, SettlementAssumption
<1>8. TypeOK' /\ World'
  <2>1. /\ DOMAIN credit_outbox' \subseteq Keys
        /\ \A k \in DOMAIN credit_outbox' : credit_outbox'[k] \in [hash : Hashes, micros : Nat]
    BY <1>3, <1>5 DEF IInv, TypeOK
  <2>2. \A o \in DOMAIN pending_orders' :
          pending_orders'[o] \in [created_at : 0 .. now', seen : BOOLEAN]
    BY <1>1, <1>2 DEF IInv, TypeOK
  <2> QED BY <1>1, <1>2, <1>6, <1>7, <2>1, <2>2 DEF IInv, TypeOK, World
<1>9. BookedAsPaid'
  <2>1. CreditedAsPaid'
    <3> SUFFICES ASSUME NEW k \in DOMAIN credit_outbox'
                 PROVE  /\ k[2] \in PaysTo(k[1]) /\ chain[k[1]] = Final
                        /\ credit_outbox'[k] = [hash |-> HashOf[k[2]],
                                                micros |-> Share(Paid(k[1], k[2]))]
      BY <1>1 DEF CreditedAsPaid
    <3>1. CASE k \in DOMAIN credit_outbox
      BY <1>3, <3>1 DEF IInv, BookedAsPaid, CreditedAsPaid
    <3>2. CASE k \notin DOMAIN credit_outbox
      BY <1>3, <1>4, <3>2 DEF row, Owned
    <3> QED BY <3>1, <3>2
  <2>2. SightingsAreReal'
    BY <1>1, <1>2 DEF IInv, BookedAsPaid, SightingsAreReal
  <2> QED BY <1>6, <2>1, <2>2 DEF BookedAsPaid
<1>10. Scan' /\ LiveIsSeen'
  <2>1. /\ DOMAIN settling' = {"rail", "tosee", "groups", "live"}
        /\ settling'.tosee = settling.tosee
        /\ settling'.groups = settling.groups \ {key} /\ settling'.live = settling.live
    BY <1>1 DEF IInv, Scan
  <2>2. \A o \in DOMAIN settling.live :
          /\ settling.live[o] \in LiveStatus /\ o \in minted' /\ Sighted(o)'
          /\ o \in DOMAIN pending_orders' \ settling'.tosee => pending_orders'[o].seen
    BY <1>1, <1>2, <2>1 DEF IInv, Scan, Sighted
  <2>3. \A k \in settling.groups : k \in Keys /\ Owned(k)'
    BY <1>1 DEF IInv, Scan, Owned
  <2>4. settling.tosee \subseteq DOMAIN settling.live
    BY <1>1 DEF IInv, Scan
  <2>5. LiveIsSeen'
    BY <1>1, <1>2 DEF IInv, LiveIsSeen
  <2> QED BY <2>1, <2>2, <2>3, <2>4, <2>5 DEF Scan
<1> QED BY <1>8, <1>9, <1>10 DEF IInv

\* What a tick has just heard of is seen by now: the live statuses may be kept.
LEMMA ReapKeeps == ASSUME IInv, Reap PROVE IInv'
<1> DEFINE mine == openOrders(settling.rail)
           gone == {order \in mine : Stale(order) \/ Unfunded(order)}
           live == settling.live
           kept == {order \in DOMAIN progress :
                      order[1] = settling.rail => order \in mine \ gone}
           fresh == DOMAIN live \cap (mine \ gone)
<1>1. /\ Settling /\ settling.tosee = {}
      /\ settling' = NotSettling
      /\ UNCHANGED <<credit_outbox, revenue, poll, minted, chain, now>>
  BY DEF Reap
<1>2. /\ DOMAIN pending_orders' = DOMAIN pending_orders \ gone
      /\ \A o \in DOMAIN pending_orders' : pending_orders'[o] = pending_orders[o]
  BY DEF Reap, Drop
<1>3. /\ DOMAIN progress' = kept \cup fresh
      /\ \A o \in fresh : progress'[o] = live[o]
      /\ \A o \in kept \ fresh : progress'[o] = progress[o]
  BY DEF Reap
<1>4. kept \subseteq DOMAIN progress /\ fresh \subseteq DOMAIN live
  OBVIOUS
<1> HIDE DEF gone, kept, fresh
<1>5. \A o \in DOMAIN progress' :
        /\ progress'[o] \in LiveStatus /\ o \in minted
        /\ o \in DOMAIN progress \/ o \in DOMAIN live
  <2>1. \A o \in DOMAIN live : live[o] \in LiveStatus /\ o \in minted
    BY <1>1 DEF IInv, Scan
  <2>2. \A o \in DOMAIN progress : progress[o] \in LiveStatus /\ o \in minted
    BY DEF IInv, TypeOK, World, LiveStatus
  <2> HIDE DEF live
  <2> QED BY <1>3, <1>4, <2>1, <2>2
<1>6. \A o \in DOMAIN progress' \cap DOMAIN pending_orders' :
        pending_orders[o].seen /\ Sighted(o)
  <2>1. \A o \in DOMAIN live \cap DOMAIN pending_orders : pending_orders[o].seen /\ Sighted(o)
    BY <1>1 DEF IInv, Scan
  <2>2. \A o \in DOMAIN progress \cap DOMAIN pending_orders :
          pending_orders[o].seen /\ Sighted(o)
    BY DEF IInv, LiveIsSeen, BookedAsPaid, SightingsAreReal, Sighted
  <2> HIDE DEF live
  <2> QED BY <1>2, <1>5, <2>1, <2>2
<1>7. /\ IsFiniteSet(DOMAIN pending_orders')
      /\ Cardinality(DOMAIN pending_orders') <= MaxOpen
  <2>1. IsFiniteSet(DOMAIN pending_orders) /\ Cardinality(DOMAIN pending_orders) <= MaxOpen
    BY DEF IInv, World, TypeOK
  <2>2. Cardinality(DOMAIN pending_orders) \in Nat
        /\ Cardinality(DOMAIN pending_orders') \in Nat
        /\ IsFiniteSet(DOMAIN pending_orders')
        /\ Cardinality(DOMAIN pending_orders') <= Cardinality(DOMAIN pending_orders)
    BY <1>2, <2>1, FS_Subset, FS_CardinalityType
  <2> QED BY <2>1, <2>2, SettlementAssumption
<1>8. TypeOK' /\ World'
  <2>1. \A o \in DOMAIN pending_orders' :
          pending_orders'[o] \in [created_at : 0 .. now', seen : BOOLEAN]
    BY <1>1, <1>2 DEF IInv, TypeOK
  <2> QED BY <1>1, <1>2, <1>5, <1>7, <2>1 DEF IInv, TypeOK, World, LiveStatus
<1>9. BookedAsPaid'
  <2>1. BookedIffEnqueued' /\ CreditedAsPaid'
    BY <1>1 DEF IInv, BookedAsPaid, BookedIffEnqueued, CreditedAsPaid
  <2>2. SightingsAreReal'
    BY <1>1, <1>2, <1>6 DEF IInv, BookedAsPaid, SightingsAreReal, Sighted
  <2> QED BY <2>1, <2>2 DEF BookedAsPaid
<1>10. Scan' /\ LiveIsSeen'
  BY <1>1, <1>2, <1>6 DEF Scan, Settling, LiveIsSeen
<1> QED BY <1>8, <1>9, <1>10 DEF IInv

LEMMA StutterKeeps == ASSUME IInv, UNCHANGED vars PROVE IInv'
<1>1. TypeOK' /\ World'
  BY DEF IInv, vars, pendingDb, TypeOK, World
<1>2. BookedAsPaid'
  BY DEF IInv, vars, pendingDb, BookedAsPaid, BookedIffEnqueued, CreditedAsPaid,
         SightingsAreReal
<1>3. Scan' /\ LiveIsSeen'
  BY DEF IInv, vars, pendingDb, Scan, Settling, Sighted, Owned, LiveIsSeen
<1> QED BY <1>1, <1>2, <1>3 DEF IInv

LEMMA SettlementNext == IInv /\ [Next]_vars => IInv'
<1> SUFFICES ASSUME IInv, [Next]_vars PROVE IInv'
  OBVIOUS
<1>1. CASE Pass \/ Restart \/ Tick \/ Reap
  BY <1>1, PassKeeps, RestartKeeps, TickKeeps, ReapKeeps
<1>2. ASSUME NEW order \in Orders, Buy(order) \/ markSeen(order) PROVE IInv'
  BY <1>2, BuyKeeps, MarkSeenKeeps
<1>3. ASSUME NEW tx \in Txs, Deepen(tx) PROVE IInv'
  BY <1>3, DeepenKeeps
<1>4. ASSUME NEW rail \in Rails, PollFails(rail) PROVE IInv'
  BY <1>4, PollFailsKeeps
<1>5. ASSUME NEW rail \in Rails, NEW view \in [Txs -> Absent .. Final], Settle(rail, view)
      PROVE  IInv'
  BY <1>5, SettleKeeps
<1>6. ASSUME NEW key \in Keys, commitSettlement(key) PROVE IInv'
  BY <1>6, CommitKeeps
<1>7. CASE UNCHANGED vars
  BY <1>7, StutterKeeps
<1> QED BY <1>1, <1>2, <1>3, <1>4, <1>5, <1>6, <1>7 DEF Next

-----------------------------------------------------------------------------
(* What follows *)

(* Type correctness: every row of pending.db is well formed, there are no   *)
(* more open orders than MAX_OPEN_ORDERS, and only an order's own rail      *)
(* watches it.                                                             *)
THEOREM SettlementTypeOK == Spec => []TypeOK
BY SettlementInit, SettlementNext, PTL DEF Spec, IInv

(* The store's sales book and its outbox agree, one row per key, whatever   *)
(* the crashes; a credit goes to the order its final transaction paid, for  *)
(* its rounded share of what was paid; and a sighting is a payment to that  *)
(* very order (settle.ts, orders.ts).                                      *)
THEOREM SettlementBooks == Spec => []BookedAsPaid
BY SettlementInit, SettlementNext, PTL DEF Spec, IInv

\* A step closes an order that was seen by crediting it, or at its backstop.
LEMMA SparedStep ==
  ASSUME IInv, [Next]_vars, NEW order \in DOMAIN pending_orders \ DOMAIN pending_orders',
         pending_orders[order].seen
  PROVE  Stale(order) \/ \E tx \in Txs : <<tx, order>> \in DOMAIN credit_outbox'
<1>1. CASE Reap
  BY <1>1 DEF Reap, Drop, Unfunded
<1>2. ASSUME NEW key \in Keys, commitSettlement(key)
      PROVE  \E tx \in Txs : <<tx, order>> \in DOMAIN credit_outbox'
  <2>1. order = key[2]
    BY <1>2 DEF commitSettlement, Drop
  <2>2. key \in DOMAIN credit_outbox'
    BY <1>2 DEF commitSettlement, Put
  <2> QED BY <2>1, <2>2, KeyParts
<1>3. ASSUME NEW o \in Orders, Buy(o) \/ markSeen(o) PROVE FALSE
  BY <1>3 DEF Buy, markSeen, Put
<1>4. CASE UNCHANGED pendingDb
  BY <1>4 DEF pendingDb
<1> QED
  BY <1>1, <1>2, <1>3, <1>4
     DEF Next, Pass, Restart, Tick, Deepen, PollFails, Settle, vars

(* Once someone is seen paying for an order, only its credit or the         *)
(* backstop closes it: no restart, blind wallet or other rail's tick.      *)
THEOREM SettlementSpares == Spec => SeenOrdersSpared
<1>1. IInv /\ [Next]_vars =>
        [\A order \in DOMAIN pending_orders \ DOMAIN pending_orders' :
           pending_orders[order].seen =>
             Stale(order) \/ \E tx \in Txs : <<tx, order>> \in DOMAIN credit_outbox']_vars
  BY SparedStep
<1> QED BY <1>1, SettlementInit, SettlementNext, PTL DEF Spec, SeenOrdersSpared

(* What a client is told.  Only an order nobody has seen is "waiting":      *)
(* a live status is of a seen order, and a seen order is "detected" at      *)
(* least, which no restart takes away.                                     *)
LEMMA WaitingIsUnseen ==
  ASSUME IInv, NEW order \in DOMAIN pending_orders
  PROVE  orderStatus(order) # "waiting" <=> pending_orders[order].seen
<1>1. openOrderByHashAddress(order) # {}
  BY DEF openOrderByHashAddress
<1>2. CASE order \in DOMAIN progress
  <2>1. orderStatus(order) = progress[order] /\ progress[order] \in {"confirming", "finalizing"}
    BY <1>1, <1>2 DEF orderStatus, IInv, TypeOK
  <2>2. pending_orders[order].seen
    BY <1>2 DEF IInv, LiveIsSeen
  <2> QED BY <2>1, <2>2
<1>3. CASE order \notin DOMAIN progress
  BY <1>1, <1>3 DEF orderStatus
<1> QED BY <1>2, <1>3

\* Nor does a newer order of its hash that nobody paid hide a seen one.
LEMMA NeverShadowed == IInv => NotShadowed
<1> SUFFICES ASSUME IInv, NEW order \in DOMAIN pending_orders,
                    orderStatus(order) # "waiting"
             PROVE  "waiting" \notin statusByHash(HashOf[order])
  BY DEF NotShadowed
<1> DEFINE open == {o \in DOMAIN pending_orders : HashOf[o] = HashOf[order]}
           latest == latestOpenOrderByHash(HashOf[order])
<1>1. order \in {o \in open : pending_orders[o].seen}
  BY WaitingIsUnseen
<1>2. Preferred(open) = {o \in open : pending_orders[o].seen}
  <2> HIDE DEF open
  <2> QED BY <1>1 DEF Preferred
<1>3. latest \subseteq Preferred(open)
  BY DEF latestOpenOrderByHash
<1>4. \A o \in latest : o \in DOMAIN pending_orders /\ pending_orders[o].seen
  BY <1>2, <1>3
<1>5. \A o \in latest : orderStatus(o) # "waiting"
  <2> HIDE DEF latest
  <2> QED BY <1>4, WaitingIsUnseen
<1> HIDE DEF latest
<1>6. CASE latest = {}
  BY <1>6 DEF statusByHash, latest
<1>7. CASE latest # {}
  <2>1. statusByHash(HashOf[order]) = {orderStatus(o) : o \in latest}
    BY <1>7 DEF statusByHash, latest
  <2> QED BY <1>5, <2>1
<1> QED BY <1>6, <1>7

\* A sighting lasts as long as the row.
LEMMA SeenStays ==
  ASSUME IInv, [Next]_vars, NEW order \in DOMAIN pending_orders \cap DOMAIN pending_orders',
         pending_orders[order].seen
  PROVE  pending_orders'[order].seen
<1>1. CASE Reap
  BY <1>1 DEF Reap, Drop
<1>2. ASSUME NEW key \in Keys, commitSettlement(key) PROVE pending_orders'[order].seen
  BY <1>2 DEF commitSettlement, Drop
<1>3. ASSUME NEW o \in Orders, Buy(o) PROVE pending_orders'[order].seen
  BY <1>3 DEF Buy, Put, IInv, TypeOK
<1>4. ASSUME NEW o \in Orders, markSeen(o) PROVE pending_orders'[order].seen
  <2>1. pending_orders[order] \in [created_at : 0 .. now, seen : BOOLEAN]
    BY DEF IInv, TypeOK
  <2>2. CASE order = o
    BY <1>4, <2>1, <2>2 DEF markSeen
  <2>3. CASE order # o
    BY <1>4, <2>3 DEF markSeen
  <2> QED BY <2>2, <2>3
<1>5. CASE UNCHANGED pendingDb
  BY <1>5 DEF pendingDb
<1> QED
  BY <1>1, <1>2, <1>3, <1>4, <1>5
     DEF Next, Pass, Restart, Tick, Deepen, PollFails, Settle, vars

(* payment-reads.ts: a status never regresses to "waiting", across restarts *)
(* and blind ticks; nor does one asked for by hash alone.                   *)
THEOREM SettlementStatus == Spec => StatusNeverRegresses
<1>1. ASSUME IInv, [Next]_vars, NEW order \in DOMAIN pending_orders,
             orderStatus(order) # "waiting"
      PROVE  orderStatus(order)' # "waiting"
  <2>1. pending_orders[order].seen
    BY <1>1, WaitingIsUnseen
  <2>2. IInv'
    BY <1>1, SettlementNext
  <2>3. CASE order \in DOMAIN pending_orders'
    <3>1. pending_orders'[order].seen
      BY <1>1, <2>1, <2>3, SeenStays
    <3>2. CASE order \in DOMAIN progress'
      BY <2>2, <2>3, <3>2 DEF orderStatus, openOrderByHashAddress, IInv, TypeOK
    <3>3. CASE order \notin DOMAIN progress'
      BY <2>3, <3>1, <3>3 DEF orderStatus, openOrderByHashAddress
    <3> QED BY <3>2, <3>3
  <2>4. CASE order \notin DOMAIN pending_orders'
    BY <2>4 DEF orderStatus, openOrderByHashAddress
  <2> QED BY <2>3, <2>4
<1>2. IInv /\ [Next]_vars =>
        [/\ NotShadowed'
         /\ \A order \in DOMAIN pending_orders :
              orderStatus(order) # "waiting" => orderStatus(order)' # "waiting"]_vars
  <2> SUFFICES ASSUME IInv, [Next]_vars
               PROVE  /\ NotShadowed'
                      /\ \A order \in DOMAIN pending_orders :
                           orderStatus(order) # "waiting" => orderStatus(order)' # "waiting"
    OBVIOUS
  <2>1. NotShadowed'
    BY SettlementNext, NeverShadowed, PTL
  <2> QED BY <1>1, <2>1
<1> QED BY <1>2, SettlementInit, SettlementNext, PTL DEF Spec, StatusNeverRegresses


-----------------------------------------------------------------------------
(* Metered requests: the module Outcomes.  Its inductive invariant, in     *)
(* parts: what a request carries from its gates to its end, and what has   *)
(* been counted meanwhile.                                                 *)

Surroundings ==
  /\ balance \in [Tokens -> Nat \cup {Unknown}]
  /\ process \in {"serving", "draining", "closing", "exited"}
  /\ bounds \in [rejects : 0 .. MaxRejects, background : 0 .. MaxBackground]

OutcomeTyping ==
  /\ req \in [Requests -> Request]
  /\ \A r \in Requests : req[r].charge <= HoldMicros
  /\ window \in [Counter -> Nat]
  /\ journal \in [{"info", "warn", "silent"} -> [Counter -> Nat]]
  /\ Surroundings

Gates == {"arrived", "known", "parsed", "funded", "refused"}
InFlight == {"forwarded", "reading", "open", "billing", "retry"}
LeftOpen == {"unsettled", "conflict"}
Denials == {401, 402}
\* What a client may be told that is not the upstream's own status.
Masks == {502, 503, 504}

Untouched(q) == q.charge = NoCharge /\ q.sent = {}
Charged(q, charge) == q.charge = charge /\ q.sent = {charge}
\* A stream the upstream refused, and so settled before its body is read.
RefusedStream(q) == q.streaming /\ q.reply # NoReply

\* An answer about the operator's account is masked from the moment the
\* request's ending is known.
Masked(q) ==
  OfOperator(q.reply) =>
    /\ q.stage \in {"billing", "retry"} /\ q.ending # NoEnding => q.ending.status \in Masks
    /\ q.stage = "ended" => q.answer \in Masks

\* The stage of a request tells what the ledger was asked for it, and that
\* no answer after the gates looks like one of theirs.
SoundRequest(q) ==
  /\ q.stage \in Gates \cup {"forwarded", "open"} =>
       Untouched(q) /\ q.reply = NoReply /\ q.ending = NoEnding
  /\ q.stage = "reading" =>
       /\ q.ending = NoEnding
       /\ IF RefusedStream(q) THEN Charged(q, Clamp(0)) ELSE Untouched(q)
  /\ q.stage = "billing" =>
       /\ q.sent = {Clamp(q.actual)} /\ q.charge \in {NoCharge, Clamp(q.actual)}
       /\ IF q.ending = NoEnding THEN q.actual = 0 /\ RefusedStream(q)
          ELSE q.ending.status \notin Denials
  /\ q.stage = "retry" =>
       /\ q.sent = {Clamp(q.actual)} /\ q.charge = NoCharge
       /\ q.ending # NoEnding /\ q.ending.status \notin Denials
  /\ q.stage = "ended" =>
       \/ Untouched(q)
       \/ q.sent = {q.charge} /\ q.charge # NoCharge /\ q.answer \notin Denials
  /\ q.stage = "thrown" => Untouched(q)
  /\ q.stage = "unsettled" => q.charge = NoCharge /\ \E charge \in Nat : q.sent = {charge}
  /\ q.stage # "conflict"
  /\ q.stage \in Gates \cup InFlight => q.answer = 0
  /\ q.stage \in {"thrown", "unsettled"} => q.answer = 500
  /\ Masked(q)
Sound == \A r \in Requests : SoundRequest(req[r])

\* Every step moves the counters by as much as it moves the requests.
Counted ==
  /\ Reconciled
  /\ Tally["gate:auth"] = Answered(401)
  /\ Tally["gate:funds"] = Answered(402)

OutcomeInv == OutcomeTyping /\ Sound /\ Counted

\* The requests can be counted.
LEMMA RequestsFinite == IsFiniteSet(Requests)
BY Zenon, OutcomesAssumption

(* Two finite sets that differ in one element at most differ in size by    *)
(* that element.                                                           *)
LEMMA OneMoves ==
  ASSUME NEW S, NEW T, IsFiniteSet(S), IsFiniteSet(T), NEW r, S \ {r} = T \ {r}
  PROVE  /\ Cardinality(S) \in Nat /\ Cardinality(T) \in Nat
         /\ Cardinality(T) + (IF r \in S THEN 1 ELSE 0)
              = Cardinality(S) + (IF r \in T THEN 1 ELSE 0)
<1>1. Cardinality(S) \in Nat /\ Cardinality(T) \in Nat
  BY FS_CardinalityType
<1>2. ASSUME NEW U, IsFiniteSet(U)
      PROVE  /\ Cardinality(U \ {r}) \in Nat
             /\ Cardinality(U) = Cardinality(U \ {r}) + (IF r \in U THEN 1 ELSE 0)
  <2>1. IsFiniteSet(U \ {r}) /\ Cardinality(U) \in Nat /\ Cardinality(U \ {r}) \in Nat
    BY <1>2, FS_RemoveElement, FS_CardinalityType
  <2>2. Cardinality(U \ {r}) = IF r \in U THEN Cardinality(U) - 1 ELSE Cardinality(U)
    BY <1>2, FS_RemoveElement
  <2> QED BY <2>1, <2>2
<1>3. /\ Cardinality(S) = Cardinality(S \ {r}) + (IF r \in S THEN 1 ELSE 0)
      /\ Cardinality(T) = Cardinality(S \ {r}) + (IF r \in T THEN 1 ELSE 0)
      /\ Cardinality(S \ {r}) \in Nat
  BY <1>2
<1> QED BY <1>1, <1>3

(* One request moves: the number of requests at some stages, and of those  *)
(* with some answer, changes by that one.                                  *)
LEMMA WithMoves ==
  ASSUME req \in [Requests -> Request], NEW r \in Requests, NEW q, Become(r, q), NEW stages
  PROVE  /\ With(stages) \in Nat /\ With(stages)' \in Nat
         /\ With(stages)' + (IF req[r].stage \in stages THEN 1 ELSE 0)
              = With(stages) + (IF q.stage \in stages THEN 1 ELSE 0)
<1> DEFINE S == {p \in Requests : req[p].stage \in stages}
           T == {p \in Requests : req'[p].stage \in stages}
<1>1. req' = [req EXCEPT ![r] = q]
  BY DEF Become
<1>2. S \ {r} = T \ {r} /\ (r \in S <=> req[r].stage \in stages) /\ (r \in T <=> q.stage \in stages)
  BY <1>1
<1>3. IsFiniteSet(S) /\ IsFiniteSet(T)
  BY RequestsFinite, FS_Subset
<1>4. With(stages) = Cardinality(S) /\ With(stages)' = Cardinality(T)
  BY DEF With
<1> HIDE DEF S, T
<1> QED BY <1>2, <1>3, <1>4, OneMoves

(* The same of the requests that were answered with some status.           *)
LEMMA AnsweredMoves ==
  ASSUME req \in [Requests -> Request], NEW r \in Requests, NEW q, Become(r, q), NEW status
  PROVE  /\ Answered(status) \in Nat /\ Answered(status)' \in Nat
         /\ Answered(status)' + (IF req[r].answer = status THEN 1 ELSE 0)
              = Answered(status) + (IF q.answer = status THEN 1 ELSE 0)
<1> DEFINE S == {p \in Requests : req[p].answer = status}
           T == {p \in Requests : req'[p].answer = status}
<1>1. req' = [req EXCEPT ![r] = q]
  BY DEF Become
<1>2. S \ {r} = T \ {r} /\ (r \in S <=> req[r].answer = status) /\ (r \in T <=> q.answer = status)
  BY <1>1
<1>3. IsFiniteSet(S) /\ IsFiniteSet(T)
  BY RequestsFinite, FS_Subset
<1>4. Answered(status) = Cardinality(S) /\ Answered(status)' = Cardinality(T)
  BY DEF Answered
<1> HIDE DEF S, T
<1> QED BY <1>2, <1>3, <1>4, OneMoves

(* The terminal counters are finitely many, so their sum can be taken.     *)
LEMMA TerminalIsFinite == IsFiniteSet(Terminal)
<1>1. ASSUME NEW a, NEW b, NEW c PROVE IsFiniteSet({a, b, c})
  <2>1. IsFiniteSet({a}) /\ IsFiniteSet({b}) /\ IsFiniteSet({c})
    BY FS_Singleton
  <2>2. IsFiniteSet({a} \cup {b} \cup {c})
    BY <2>1, FS_Union
  <2>3. {a, b, c} = {a} \cup {b} \cup {c}
    OBVIOUS
  <2> QED BY <2>2, <2>3
<1> DEFINE A == {"served", "stream:partial", "stream:aborted"}
           B == {"bill:refunded", "upstream:throttle", "upstream:5xx"}
           C == {"upstream:auth", "upstream:billing", "upstream:timeout"}
           D == {"upstream:unreachable", "upstream:4xx", "upstream:notfound"}
           E == {"upstream:other"}
<1>2. IsFiniteSet(A) /\ IsFiniteSet(B) /\ IsFiniteSet(C) /\ IsFiniteSet(D) /\ IsFiniteSet(E)
  BY <1>1, FS_Singleton
<1>3. Terminal = (A \cup B) \cup (C \cup D) \cup E
  BY DEF Terminal, UpstreamKind
<1> HIDE DEF A, B, C, D, E
<1>4. IsFiniteSet((A \cup B) \cup (C \cup D) \cup E)
  BY <1>2, FS_Union
<1> QED BY <1>3, <1>4

(* A step that counts one request to its end adds one to their sum; one    *)
(* that counts none leaves it.                                             *)
LEMMA SumLands ==
  ASSUME NEW f \in [Counter -> Nat], NEW g \in [Counter -> Nat], NEW cs,
         \A c \in Terminal : g[c] = f[c] + (IF c \in cs THEN 1 ELSE 0)
  PROVE  /\ SumFunctionOnSet(f, Terminal) \in Nat
         /\ SumFunctionOnSet(g, Terminal) \in Nat
         /\ cs \cap Terminal = {} =>
              SumFunctionOnSet(g, Terminal) = SumFunctionOnSet(f, Terminal)
         /\ \A c : cs \cap Terminal = {c} =>
              SumFunctionOnSet(g, Terminal) = SumFunctionOnSet(f, Terminal) + 1
<1>1. \A c \in Terminal : f[c] \in Nat /\ g[c] \in Nat
  BY DEF Counter
<1>2. SumFunctionOnSet(f, Terminal) \in Nat /\ SumFunctionOnSet(g, Terminal) \in Nat
  BY <1>1, TerminalIsFinite, SumType
<1>3. ASSUME cs \cap Terminal = {}
      PROVE  SumFunctionOnSet(g, Terminal) = SumFunctionOnSet(f, Terminal)
  <2>1. \A c \in Terminal : g[c] = f[c]
    BY <1>1, <1>3
  <2> QED BY <2>1, TerminalIsFinite, SumAgree
<1>4. ASSUME NEW c, cs \cap Terminal = {c}
      PROVE  SumFunctionOnSet(g, Terminal) = SumFunctionOnSet(f, Terminal) + 1
  <2> DEFINE T == Terminal \ {c}
  <2>1. c \in Terminal /\ g[c] = f[c] + 1
    BY <1>4
  <2>2. \A d \in T : g[d] = f[d]
    BY <1>1, <1>4
  <2>3. IsFiniteSet(T)
    BY TerminalIsFinite, FS_Subset
  <2>4. SumFunctionOnSet(g, T) = SumFunctionOnSet(f, T) /\ SumFunctionOnSet(f, T) \in Nat
    BY <1>1, <2>2, <2>3, SumAgree, SumType
  <2>5. /\ SumFunctionOnSet(f, Terminal) = f[c] + SumFunctionOnSet(f, T)
        /\ SumFunctionOnSet(g, Terminal) = g[c] + SumFunctionOnSet(g, T)
    BY <1>1, <2>1, TerminalIsFinite, SumRemove
  <2> HIDE DEF T
  <2>6. f[c] \in Nat /\ g[c] \in Nat
    BY <1>1, <2>1
  <2> QED BY <2>1, <2>4, <2>5, <2>6
<1> QED BY <1>2, <1>3, <1>4

(* What a step counts is added to what was counted since boot.             *)
LEMMA TallyMoves ==
  ASSUME OutcomeTyping, NEW cs, Count(cs), journal' = journal
  PROVE  /\ window' \in [Counter -> Nat]
         /\ Tally \in [Counter -> Nat] /\ Tally' \in [Counter -> Nat]
         /\ \A c \in Counter : Tally'[c] = Tally[c] + (IF c \in cs THEN 1 ELSE 0)
<1>1. /\ window \in [Counter -> Nat]
      /\ journal.info \in [Counter -> Nat] /\ journal.warn \in [Counter -> Nat]
      /\ journal.silent \in [Counter -> Nat]
  BY DEF OutcomeTyping
<1>2. window' = [c \in Counter |-> window[c] + (IF c \in cs THEN 1 ELSE 0)]
  BY DEF Count, Counting
<1>3. window' \in [Counter -> Nat]
  BY <1>1, <1>2
<1>4. /\ Tally = [c \in Counter |-> window[c] + journal.info[c] + journal.warn[c] + journal.silent[c]]
      /\ Tally' = [c \in Counter |-> window'[c] + journal.info[c] + journal.warn[c] + journal.silent[c]]
  BY DEF Tally
<1>5. Tally \in [Counter -> Nat] /\ Tally' \in [Counter -> Nat]
  BY <1>1, <1>3, <1>4
<1>6. ASSUME NEW c \in Counter PROVE Tally'[c] = Tally[c] + (IF c \in cs THEN 1 ELSE 0)
  <2>1. /\ window[c] \in Nat /\ journal.info[c] \in Nat /\ journal.warn[c] \in Nat
        /\ journal.silent[c] \in Nat /\ window'[c] = window[c] + (IF c \in cs THEN 1 ELSE 0)
    BY <1>1, <1>2
  <2> QED BY <1>4, <2>1
<1> QED BY <1>3, <1>5, <1>6

(* A step that counts nothing.                                             *)
LEMMA CountNothing ==
  ASSUME OutcomeTyping, window' = window
  PROVE  Count({})
<1>1. window \in [Counter -> Nat]
  BY DEF OutcomeTyping
<1>2. window = [c \in Counter |-> window[c] + (IF c \in {} THEN 1 ELSE 0)]
  BY <1>1
<1> QED BY <1>2 DEF Count, Counting

\* What a request may move by, and what is counted of it meanwhile: it is
\* forwarded, it lands in one terminal counter, or neither.
Unfinished(q) == q.stage \in InFlight \cup LeftOpen
Moves(p, q, cs) ==
  \/ Unfinished(p) = Unfinished(q) /\ cs \cap (Terminal \cup {"req"}) = {}
  \/ ~Unfinished(p) /\ Unfinished(q) /\ "req" \in cs /\ cs \cap Terminal = {}
  \/ /\ Unfinished(p) /\ ~Unfinished(q) /\ "req" \notin cs
     /\ \E c : cs \cap Terminal = {c}

(* One step of one request keeps the books, if it counts what the request  *)
(* does: forwarded requests are under way or in one terminal counter, and  *)
(* the answers 401 and 402 are those counted at the gates.                 *)
LEMMA RequestCounted ==
  ASSUME OutcomeTyping, Counted, NEW r \in Requests, NEW q, NEW cs,
         Become(r, q), Count(cs), journal' = journal, Moves(req[r], q, cs),
         req[r].answer \notin Denials,
         q.answer = 401 <=> "gate:auth" \in cs, q.answer = 402 <=> "gate:funds" \in cs
  PROVE  Counted'
<1> DEFINE Sum == SumFunctionOnSet(Tally, Terminal)
           AndSum == SumFunctionOnSet(Tally', Terminal)
<1>1. /\ Tally \in [Counter -> Nat] /\ Tally' \in [Counter -> Nat]
      /\ \A c \in Counter : Tally'[c] = Tally[c] + (IF c \in cs THEN 1 ELSE 0)
  BY TallyMoves
<1>2. Terminal \subseteq Counter /\ {"req", "gate:auth", "gate:funds"} \subseteq Counter
  BY DEF Counter, GateKind
<1>3. /\ Sum \in Nat /\ AndSum \in Nat
      /\ cs \cap Terminal = {} => AndSum = Sum
      /\ \A c : cs \cap Terminal = {c} => AndSum = Sum + 1
  <2>1. \A c \in Terminal : Tally'[c] = Tally[c] + (IF c \in cs THEN 1 ELSE 0)
    BY <1>1, <1>2
  <2> HIDE DEF Sum, AndSum
  <2>2. ASSUME NEW f \in [Counter -> Nat], NEW g \in [Counter -> Nat],
               \A c \in Terminal : g[c] = f[c] + (IF c \in cs THEN 1 ELSE 0)
        PROVE  /\ SumFunctionOnSet(f, Terminal) \in Nat
               /\ SumFunctionOnSet(g, Terminal) \in Nat
               /\ cs \cap Terminal = {} =>
                    SumFunctionOnSet(g, Terminal) = SumFunctionOnSet(f, Terminal)
               /\ \A c : cs \cap Terminal = {c} =>
                    SumFunctionOnSet(g, Terminal) = SumFunctionOnSet(f, Terminal) + 1
    BY <2>2, SumLands
  <2> QED BY <1>1, <2>1, <2>2 DEF Sum, AndSum
<1>4. req \in [Requests -> Request]
  BY DEF OutcomeTyping
<1>5. /\ With(InFlight) \in Nat /\ With(InFlight)' \in Nat
      /\ With(InFlight)' + (IF req[r].stage \in InFlight THEN 1 ELSE 0)
           = With(InFlight) + (IF q.stage \in InFlight THEN 1 ELSE 0)
  BY <1>4, WithMoves
<1>6. /\ With(LeftOpen) \in Nat /\ With(LeftOpen)' \in Nat
      /\ With(LeftOpen)' + (IF req[r].stage \in LeftOpen THEN 1 ELSE 0)
           = With(LeftOpen) + (IF q.stage \in LeftOpen THEN 1 ELSE 0)
  BY <1>4, WithMoves
<1>7. Tally["req"] = Sum + With(InFlight) + With(LeftOpen)
  BY DEF Counted, Reconciled, InFlight, LeftOpen
<1>8. Tally'["req"] = AndSum + With(InFlight)' + With(LeftOpen)'
  <2>1. ~(req[r].stage \in InFlight /\ req[r].stage \in LeftOpen)
        /\ ~(q.stage \in InFlight /\ q.stage \in LeftOpen)
    BY DEF InFlight, LeftOpen
  <2>2. Tally["req"] \in Nat /\ Tally'["req"] = Tally["req"] + (IF "req" \in cs THEN 1 ELSE 0)
    BY <1>1, <1>2
  <2>3. "req" \notin Terminal
    BY DEF Terminal, UpstreamKind
  <2> HIDE DEF Sum, AndSum
  <2>4. CASE Unfinished(req[r]) = Unfinished(q) /\ cs \cap (Terminal \cup {"req"}) = {}
    BY <1>3, <1>5, <1>6, <1>7, <2>1, <2>2, <2>4 DEF Unfinished
  <2>5. CASE ~Unfinished(req[r]) /\ Unfinished(q) /\ "req" \in cs /\ cs \cap Terminal = {}
    BY <1>3, <1>5, <1>6, <1>7, <2>1, <2>2, <2>5 DEF Unfinished
  <2>6. CASE /\ Unfinished(req[r]) /\ ~Unfinished(q) /\ "req" \notin cs
             /\ \E c : cs \cap Terminal = {c}
    <3>1. AndSum = Sum + 1
      BY <1>3, <2>6
    <3> QED BY <1>3, <1>5, <1>6, <1>7, <2>1, <2>2, <2>6, <3>1 DEF Unfinished
  <2> QED BY <2>4, <2>5, <2>6 DEF Moves
<1>9. Reconciled'
  BY <1>8 DEF Counted, Reconciled, InFlight, LeftOpen
<1>10. /\ Answered(401) \in Nat /\ Answered(401)' \in Nat
       /\ Answered(401)' + (IF req[r].answer = 401 THEN 1 ELSE 0)
            = Answered(401) + (IF q.answer = 401 THEN 1 ELSE 0)
       /\ Answered(402) \in Nat /\ Answered(402)' \in Nat
       /\ Answered(402)' + (IF req[r].answer = 402 THEN 1 ELSE 0)
            = Answered(402) + (IF q.answer = 402 THEN 1 ELSE 0)
  BY <1>4, AnsweredMoves
<1>11. Tally'["gate:auth"] = Answered(401)' /\ Tally'["gate:funds"] = Answered(402)'
  <2>1. /\ Tally'["gate:auth"] = Tally["gate:auth"] + (IF "gate:auth" \in cs THEN 1 ELSE 0)
        /\ Tally'["gate:funds"] = Tally["gate:funds"] + (IF "gate:funds" \in cs THEN 1 ELSE 0)
    BY <1>1, <1>2
  <2>2. Tally["gate:auth"] = Answered(401) /\ Tally["gate:funds"] = Answered(402)
    BY DEF Counted
  <2> QED BY <1>10, <2>1, <2>2 DEF Denials
<1> QED BY <1>9, <1>11 DEF Counted

(* A step of a request that keeps what is known of it, and counts what it  *)
(* does, keeps the invariant.                                              *)
LEMMA RequestStep ==
  ASSUME OutcomeInv, NEW r \in Requests, NEW q \in Request, NEW cs,
         Become(r, q), Count(cs), journal' = journal, Surroundings', Moves(req[r], q, cs),
         q.charge <= HoldMicros, SoundRequest(q), req[r].answer \notin Denials,
         q.answer = 401 <=> "gate:auth" \in cs, q.answer = 402 <=> "gate:funds" \in cs
  PROVE  OutcomeInv'
<1>1. OutcomeTyping /\ Sound /\ Counted
  BY DEF OutcomeInv
<1>2. req \in [Requests -> Request] /\ req' = [req EXCEPT ![r] = q]
  BY <1>1 DEF OutcomeTyping, Become
<1>3. req' \in [Requests -> Request] /\ \A p \in Requests : req'[p] = IF p = r THEN q ELSE req[p]
  BY <1>2
<1>4. \A p \in Requests : req'[p].charge <= HoldMicros
  BY <1>1, <1>3 DEF OutcomeTyping
<1>5. window' \in [Counter -> Nat]
  BY <1>1, TallyMoves
<1>6. OutcomeTyping'
  BY <1>1, <1>3, <1>4, <1>5 DEF OutcomeTyping
<1>7. ASSUME NEW p \in Requests PROVE SoundRequest(req[p])'
  <2>1. SoundRequest(req'[p])
    BY <1>1, <1>3 DEF Sound
  <2> QED BY <2>1 DEF SoundRequest, Masked, OfOperator, Masks, Untouched, Charged, RefusedStream,
                    Clamp, Gates, InFlight, Denials
<1>8. Sound'
  BY <1>7 DEF Sound
<1>9. Counted'
  BY <1>1, RequestCounted
<1> QED BY <1>6, <1>8, <1>9 DEF OutcomeInv

(* What the assumptions say of the constants, one by one.                  *)
LEMMA OutcomeConstants ==
  /\ HoldMicros \in Nat /\ InputFloor \in Nat /\ Costs \subseteq Nat
  /\ MaxRejects \in Nat /\ MaxBackground \in Nat
  /\ Openings \subseteq [Tokens -> Nat \cup {Unknown}] /\ TokenOf \in [Requests -> Tokens]
  /\ \A reply \in Replies : reply.status \in 100 .. 599
<1>1. /\ {HoldMicros, InputFloor, MaxRejects, MaxBackground} \subseteq Nat
      /\ Openings \subseteq [Tokens -> Nat \cup {Unknown}] /\ TokenOf \in [Requests -> Tokens]
      /\ Costs \subseteq Nat
      /\ Replies \subseteq [status : (100 .. 599) \ (200 .. 299),
                          tag : {"", "auth", "billing", "model"}]
  BY Zenon, OutcomesAssumption
<1> DEFINE Status == (100 .. 599) \ (200 .. 299)
           Tag == {"", "auth", "billing", "model"}
<1>2. Replies \subseteq [status : Status, tag : Tag]
  BY <1>1
<1>3. Status \subseteq 100 .. 599
  OBVIOUS
<1>4. \A reply \in Replies : reply.status \in 100 .. 599
  <2> HIDE DEF Status, Tag
  <2> QED BY <1>2, <1>3
<1>5. HoldMicros \in Nat /\ InputFloor \in Nat /\ MaxRejects \in Nat /\ MaxBackground \in Nat
  <2>1. {HoldMicros, InputFloor, MaxRejects, MaxBackground} \subseteq Nat
    BY <1>1
  <2> QED BY <2>1
<1> QED BY <1>1, <1>4, <1>5, Zenon

(* What is left of a request, and what it is before.                       *)
LEMMA GoneShape ==
  ASSUME NEW stage \in Stages, NEW answer \in Nat, NEW sent \in SUBSET Nat,
         NEW charge, charge \in Nat \/ charge = NoCharge
  PROVE  /\ Gone(stage, answer, charge, sent) \in Request
         /\ Gone(stage, answer, charge, sent).stage = stage
         /\ Gone(stage, answer, charge, sent).answer = answer
         /\ Gone(stage, answer, charge, sent).charge = charge
         /\ Gone(stage, answer, charge, sent).sent = sent
         /\ Gone(stage, answer, charge, sent).reply = NoReply
<1> DEFINE gone == Gone(stage, answer, charge, sent)
<1>1. Arrived \in Request
  BY DEF Arrived, Request, Stages
<1>2. gone = [Arrived EXCEPT !.stage = stage, !.answer = answer, !.charge = charge, !.sent = sent]
  BY DEF Gone
<1> HIDE DEF gone
<1>3. /\ gone \in Request
      /\ gone.stage = stage /\ gone.answer = answer /\ gone.charge = charge /\ gone.sent = sent
      /\ gone.reply = NoReply
  BY <1>1, <1>2 DEF Arrived, Request
<1> QED BY <1>3 DEF gone

\* No answer is not one about the operator.
LEMMA NoReplyIsSilent == ~OfOperator(NoReply) /\ ~OfOperator(BodylessOk)
BY DEF OfOperator, NoReply, BodylessOk

(* A request before its first gate is sound.                               *)
LEMMA ArrivedShape ==
  Arrived \in Request /\ SoundRequest(Arrived) /\ Arrived.stage = "arrived"
    /\ Arrived.answer = 0 /\ Arrived.charge = NoCharge
<1>1. Arrived \in Request
  BY DEF Arrived, Request, Stages
<1> QED BY <1>1 DEF Arrived, SoundRequest, Masked, Untouched, Gates, InFlight, LeftOpen

(* A charge is natural and within the hold.                                *)
LEMMA ClampBounds ==
  ASSUME NEW actual \in Nat
  PROVE  Clamp(actual) \in Nat /\ Clamp(actual) <= HoldMicros /\ Clamp(actual) # NoCharge
         /\ NoCharge <= HoldMicros
<1>1. HoldMicros \in Nat
  BY OutcomeConstants
<1> QED BY <1>1 DEF Clamp, NoCharge

(* An ending is known from the absence of one.                             *)
LEMMA EndsShape ==
  ASSUME NEW count \in Terminal, NEW status \in Nat, NEW details \in SUBSET FailureKind
  PROVE  /\ Ends(count, status, details) \in Ending
         /\ Ends(count, status, details).count = count
         /\ Ends(count, status, details).status = status
         /\ Ends(count, status, details).details = details
BY DEF Ends, Ending

(* The absence of an ending is none.                                       *)
LEMMA EndingIsSomething == NoEnding \notin Ending
<1>1. "none" \notin Terminal
  BY DEF Terminal, UpstreamKind
<1>2. ASSUME NoEnding \in Ending PROVE FALSE
  <2>1. NoEnding.count \in Terminal
    BY <1>2 DEF Ending
  <2> QED BY <1>1, <2>1 DEF NoEnding
<1> QED BY <1>2

(* relayOrSanitizeUpstream: whatever the upstream says, the request lands  *)
(* in one of the upstream's counters, and a refusal of the operator's      *)
(* credential or account is not relayed.                                   *)
LEMMA RelayedShape ==
  ASSUME NEW reply \in Replies \cup {BodylessOk}
  PROVE  /\ Relayed(reply) \in Ending /\ Relayed(reply).status \notin Denials
         /\ OfOperator(reply) => Relayed(reply).status \in Masks
<1>1. reply.status \in Nat
  <2>1. CASE reply \in Replies
    BY <2>1, OutcomeConstants
  <2>2. CASE reply = BodylessOk
    BY <2>2 DEF BodylessOk
  <2> QED BY <2>1, <2>2
<1>2. StatusKind(reply.status) \in UpstreamKind
  <2>1. {"upstream:throttle", "upstream:5xx", "upstream:4xx", "upstream:other"} \subseteq UpstreamKind
    BY DEF UpstreamKind
  <2> QED BY <2>1 DEF StatusKind
<1> DEFINE told == relayOrSanitizeUpstream(reply)
<1>3. /\ told.count \in UpstreamKind /\ told.status \in Nat /\ told.status \notin Denials
      /\ OfOperator(reply) => told.status \in Masks
  <2>1. {"upstream:auth", "upstream:billing", "upstream:notfound"} \subseteq UpstreamKind
    BY DEF UpstreamKind
  <2>2. CASE isOperatorAuthError(reply)
    BY <2>1, <2>2 DEF relayOrSanitizeUpstream, Denials, Masks
  <2>3. CASE ~isOperatorAuthError(reply) /\ (isBillingError(reply) \/ reply.status = 402)
    BY <2>1, <2>3 DEF relayOrSanitizeUpstream, Denials, Masks
  <2>4. CASE ~isOperatorAuthError(reply) /\ ~(isBillingError(reply) \/ reply.status = 402)
    <3>1. told = [count |-> IF isModelNotFound(reply) THEN "upstream:notfound"
                            ELSE StatusKind(reply.status), status |-> reply.status]
      BY <2>4 DEF relayOrSanitizeUpstream
    <3>2. reply.status # 401 /\ reply.status # 402 /\ ~OfOperator(reply)
      BY <2>4 DEF isOperatorAuthError, isBillingError, OfOperator
    <3> QED BY <1>1, <1>2, <2>1, <3>1, <3>2 DEF Denials
  <2> QED BY <2>2, <2>3, <2>4
<1>4. told.count \in Terminal
  BY <1>3 DEF Terminal
<1>5. Relayed(reply) = Ends(told.count, told.status, {})
  BY DEF Relayed
<1> HIDE DEF told
<1> QED BY <1>3, <1>4, <1>5, EndsShape

(* A fetch or a read that fails ends in 502 or 504.                        *)
LEMMA TransportShape ==
  ASSUME NEW timedOut \in BOOLEAN, NEW details \in SUBSET FailureKind
  PROVE  /\ TransportFailure(timedOut, details) \in Ending
         /\ TransportFailure(timedOut, details).status \notin Denials
         /\ TransportFailure(timedOut, details).status \in Masks
<1>1. "upstream:timeout" \in Terminal /\ "upstream:unreachable" \in Terminal
  BY DEF Terminal, UpstreamKind
<1>2. Ends("upstream:timeout", 504, details) \in Ending
      /\ Ends("upstream:timeout", 504, details).status = 504
  BY <1>1, EndsShape
<1>3. Ends("upstream:unreachable", 502, details) \in Ending
      /\ Ends("upstream:unreachable", 502, details).status = 502
  BY <1>1, EndsShape
<1> QED BY <1>2, <1>3 DEF TransportFailure, Denials, Masks

(* Whatever a stream decides, its client was answered 200 long before.     *)
LEMMA StreamDecisionShape ==
  ASSUME NEW d \in StreamDecision
  PROVE  d.actual \in Nat /\ d.ending \in Ending /\ d.ending.status \notin Denials
<1> DEFINE Of(count, costs, details) ==
             {[actual |-> c, ending |-> Ends(count, 200, x)] : c \in costs, x \in details}
<1>1. ASSUME NEW count \in Terminal, NEW costs \in SUBSET Nat,
             NEW details \in SUBSET (SUBSET FailureKind), d \in Of(count, costs, details)
      PROVE  d.actual \in Nat /\ d.ending \in Ending /\ d.ending.status \notin Denials
  <2>1. PICK c \in costs, x \in details : d = [actual |-> c, ending |-> Ends(count, 200, x)]
    BY <1>1
  <2>2. Ends(count, 200, x) \in Ending /\ Ends(count, 200, x).status = 200
    BY EndsShape
  <2> QED BY <2>1, <2>2 DEF Denials
<1>2. {"served", "stream:partial", "stream:aborted", "bill:refunded"} \subseteq Terminal
  BY DEF Terminal
<1>3. Costs \subseteq Nat /\ Costs \cup {InputFloor} \subseteq Nat /\ {0} \subseteq Nat
  BY OutcomeConstants
<1> DEFINE Failed(kind) == {{kind}, {kind, "failure:stream-timeout"}}
<1>4. /\ {{}} \subseteq SUBSET FailureKind
      /\ Failed("failure:stream-billed") \subseteq SUBSET FailureKind
      /\ {{}} \cup Failed("failure:stream-refunded") \subseteq SUBSET FailureKind
  BY DEF FailureKind
<1>5. \/ d \in Of("served", Costs, {{}})
      \/ d \in Of("stream:partial", Costs \cup {InputFloor}, {{}})
      \/ d \in Of("stream:partial", Costs, Failed("failure:stream-billed"))
      \/ d \in Of("stream:aborted", {0}, {{}} \cup Failed("failure:stream-refunded"))
      \/ d \in Of("bill:refunded", {0}, {{}})
  BY SMT DEF StreamDecision
<1> HIDE DEF Of, Failed
<1> QED BY <1>1, <1>2, <1>3, <1>4, <1>5

(* What the invariant says of one request.                                 *)
LEMMA RequestFacts ==
  ASSUME OutcomeInv, NEW r \in Requests
  PROVE  /\ req[r] \in Request /\ SoundRequest(req[r]) /\ req[r].charge <= HoldMicros
         /\ TokenOf[r] \in Tokens
BY OutcomeConstants DEF OutcomeInv, OutcomeTyping, Sound

(* The counters a step names are apart: gates, ends, details and the rest. *)
LEMMA CountersApart ==
  /\ Terminal \subseteq Counter /\ GateKind \subseteq Counter
  /\ GateKind \cap (Terminal \cup {"req"}) = {}
  /\ FailureKind \cap (Terminal \cup GateKind \cup {"req"}) = {}
  /\ Terminal \cap (GateKind \cup {"req"}) = {}
  /\ "bill:holdexceeded" \notin Terminal \cup GateKind \cup {"req"}
  /\ "gate:auth" \in GateKind /\ "gate:funds" \in GateKind
BY DEF Terminal, UpstreamKind, GateKind, FailureKind, Counter

(* A refusal at a gate: 401 and 402 are counted at their own gates.        *)
LEMMA DenyStep ==
  ASSUME OutcomeInv, NEW r \in Requests, NEW gate \in GateKind, NEW status \in Nat,
         req[r].stage \in Gates, Deny(r, gate, status),
         status = 401 <=> gate = "gate:auth", status = 402 <=> gate = "gate:funds",
         UNCHANGED <<balance, journal, process, bounds>>
  PROVE  OutcomeInv'
<1> DEFINE q == Gone("ended", status, NoCharge, {})
<1>1. /\ q \in Request /\ q.stage = "ended" /\ q.answer = status /\ q.charge = NoCharge
      /\ q.sent = {} /\ q.reply = NoReply
  BY GoneShape DEF Stages
<1>2. Become(r, q) /\ Count({gate})
  BY DEF Deny
<1> HIDE DEF q
<1>3. SoundRequest(q)
  BY <1>1, NoReplyIsSilent DEF SoundRequest, Masked, Untouched, Gates, InFlight
<1>4. req[r].answer = 0 /\ ~Unfinished(req[r]) /\ ~Unfinished(q)
  BY <1>1, RequestFacts DEF SoundRequest, Gates, InFlight, LeftOpen, Unfinished
<1>5. Moves(req[r], q, {gate})
  BY <1>4, CountersApart DEF Moves, Unfinished
<1>6. q.charge <= HoldMicros
  BY <1>1, ClampBounds
<1>7. Surroundings'
  BY DEF OutcomeInv, OutcomeTyping, Surroundings
<1> QED BY <1>1, <1>2, <1>3, <1>4, <1>5, <1>6, <1>7, RequestStep DEF Denials

(* A step between two stages that are both before, or both after, the      *)
(* forward, and count nothing.                                             *)
LEMMA QuietStep ==
  ASSUME OutcomeInv, NEW r \in Requests, NEW q \in Request, Become(r, q),
         UNCHANGED <<window, journal>>, Surroundings',
         req[r].stage \in Gates \cup InFlight, Unfinished(req[r]) = Unfinished(q),
         SoundRequest(q), q.charge <= HoldMicros, q.answer \notin Denials
  PROVE  OutcomeInv'
<1>1. Count({})
  BY CountNothing DEF OutcomeInv
<1>2. req[r].answer = 0
  BY RequestFacts DEF SoundRequest
<1>3. Moves(req[r], q, {})
  BY DEF Moves
<1> QED BY <1>1, <1>2, <1>3, RequestStep DEF Denials

(* billActual asks for the one charge of a request, or asks for nothing    *)
(* because that charge is definite.                                        *)
LEMMA BillStep ==
  ASSUME OutcomeInv, NEW r \in Requests, NEW q \in Request, NEW actual \in Nat, NEW ending,
         Bill(r, q, actual, ending), UNCHANGED <<balance, journal, process, bounds>>,
         req[r].stage \in InFlight, q.answer = 0,
         \/ q.charge = NoCharge /\ q.sent \subseteq {Clamp(actual)}
         \/ Charged(q, Clamp(actual)),
         IF ending = NoEnding THEN actual = 0 /\ RefusedStream(q)
         ELSE ending \in Ending /\ ending.status \notin Denials,
         OfOperator(q.reply) /\ ending # NoEnding => ending.status \in Masks
  PROVE  OutcomeInv'
<1> DEFINE p == [q EXCEPT !.stage = "billing", !.actual = actual, !.ending = ending,
                          !.sent = IF q.charge = NoCharge THEN @ \cup {Clamp(actual)} ELSE @]
           cs == IF actual > HoldMicros THEN {"bill:holdexceeded"} ELSE {}
<1>1. Become(r, p) /\ Count(cs)
  BY DEF Bill
<1>2. Clamp(actual) \in Nat /\ Clamp(actual) # NoCharge /\ NoCharge <= HoldMicros
  BY ClampBounds
<1> DEFINE sent == IF q.charge = NoCharge THEN q.sent \cup {Clamp(actual)} ELSE q.sent
<1>3. sent = {Clamp(actual)} /\ q.charge \in {NoCharge, Clamp(actual)}
  BY <1>2 DEF Charged
<1>4. ending \in Ending \cup {NoEnding}
  OBVIOUS
<1>5. /\ p \in Request /\ p.stage = "billing" /\ p.actual = actual /\ p.ending = ending
      /\ p.sent = {Clamp(actual)} /\ p.charge = q.charge /\ p.answer = 0
      /\ p.streaming = q.streaming /\ p.reply = q.reply
  BY <1>2, <1>3, <1>4 DEF Request, Stages
<1>6. cs \cap (Terminal \cup GateKind \cup {"req"}) = {}
  BY CountersApart
<1> HIDE DEF p, cs
<1>7. RefusedStream(p) <=> RefusedStream(q)
  BY <1>5 DEF RefusedStream
<1>8. SoundRequest(p)
  BY <1>3, <1>5, <1>7 DEF SoundRequest, Masked, Gates, InFlight
<1>9. req[r].answer = 0 /\ Unfinished(req[r]) /\ Unfinished(p)
  BY <1>5, RequestFacts DEF SoundRequest, InFlight, Unfinished
<1>10. Moves(req[r], p, cs)
  BY <1>6, <1>9 DEF Moves
<1>11. Surroundings'
  BY DEF OutcomeInv, OutcomeTyping, Surroundings
<1>12. "gate:auth" \notin cs /\ "gate:funds" \notin cs
  BY <1>6, CountersApart
<1>13. p.charge <= HoldMicros
  BY <1>2, <1>3, <1>5, ClampBounds
<1> QED BY <1>1, <1>5, <1>8, <1>9, <1>10, <1>11, <1>12, <1>13, RequestStep DEF Denials

(* A request whose charge is definite is counted where it ends and         *)
(* answered, by no denial.                                                 *)
LEMMA OverStep ==
  ASSUME OutcomeInv, NEW r \in Requests, NEW q, Over(r, q), journal' = journal, Surroundings',
         req[r].stage \in InFlight, q.charge \in Nat, q.charge <= HoldMicros,
         q.sent = {q.charge}, q.ending \in Ending, q.ending.status \notin Denials,
         q.reply \in Replies \cup {NoReply, BodylessOk},
         OfOperator(q.reply) => q.ending.status \in Masks
  PROVE  OutcomeInv'
<1> DEFINE gone == Gone("ended", q.ending.status, q.charge, q.sent)
           p == [gone EXCEPT !.reply = q.reply]
           cs == {q.ending.count} \cup q.ending.details
<1>1. Become(r, p) /\ Count(cs)
  BY DEF Over
<1>2. q.ending.count \in Terminal /\ q.ending.status \in Nat /\ q.ending.details \in SUBSET FailureKind
  BY DEF Ending
<1>3. /\ p \in Request /\ p.stage = "ended" /\ p.answer = q.ending.status
      /\ p.charge = q.charge /\ p.sent = {q.charge} /\ p.reply = q.reply
  <2>1. /\ gone \in Request /\ gone.stage = "ended" /\ gone.answer = q.ending.status
        /\ gone.charge = q.charge /\ gone.sent = {q.charge}
    BY <1>2, GoneShape DEF Stages
  <2> HIDE DEF gone
  <2> QED BY <2>1 DEF Request
<1>4. cs \cap (GateKind \cup {"req"}) = {} /\ cs \cap Terminal = {q.ending.count}
  BY <1>2, CountersApart
<1> HIDE DEF gone, p, cs
<1>5. p.charge # NoCharge
  BY <1>3 DEF NoCharge
<1>6. SoundRequest(p)
  BY <1>3, <1>5 DEF SoundRequest, Masked, Gates, InFlight
<1>7. req[r].answer = 0 /\ Unfinished(req[r]) /\ ~Unfinished(p)
  BY <1>3, RequestFacts DEF SoundRequest, InFlight, LeftOpen, Unfinished
<1>8. Moves(req[r], p, cs)
  BY <1>4, <1>7 DEF Moves
<1>9. "gate:auth" \notin cs /\ "gate:funds" \notin cs
  BY <1>4, CountersApart
<1>10. p.answer # 401 /\ p.answer # 402
  BY <1>3 DEF Denials
<1> QED BY <1>1, <1>3, <1>6, <1>7, <1>8, <1>9, <1>10, RequestStep DEF Denials

(* A step that counts nothing of a request, and moves none, keeps the      *)
(* books.                                                                  *)
LEMMA BooksStep ==
  ASSUME OutcomeInv, NEW cs, Count(cs), UNCHANGED <<req, journal>>, Surroundings',
         cs \cap (Terminal \cup {"req", "gate:auth", "gate:funds"}) = {}
  PROVE  OutcomeInv'
<1>1. OutcomeTyping /\ Sound /\ Counted
  BY DEF OutcomeInv
<1>2. /\ window' \in [Counter -> Nat]
      /\ Tally \in [Counter -> Nat] /\ Tally' \in [Counter -> Nat]
      /\ \A c \in Counter : Tally'[c] = Tally[c] + (IF c \in cs THEN 1 ELSE 0)
  BY <1>1, TallyMoves
<1>3. OutcomeTyping'
  BY <1>1, <1>2 DEF OutcomeTyping
<1>4. Sound'
  BY <1>1 DEF Sound, SoundRequest, Untouched, Charged, RefusedStream, Clamp
<1>5. \A c \in Terminal \cup {"req", "gate:auth", "gate:funds"} : Tally'[c] = Tally[c]
  BY <1>2 DEF Counter, GateKind
<1>6. SumFunctionOnSet(Tally', Terminal) = SumFunctionOnSet(Tally, Terminal)
  BY <1>5, TerminalIsFinite, SumAgree
<1>7. /\ \A stages : With(stages)' = With(stages)
      /\ \A status : Answered(status)' = Answered(status)
  BY DEF With, Answered
<1>8. Counted'
  BY <1>1, <1>5, <1>6, <1>7 DEF Counted, Reconciled
<1> QED BY <1>3, <1>4, <1>8 DEF OutcomeInv

(* A step that counts nothing at all.                                      *)
LEMMA BooksAlone ==
  ASSUME OutcomeInv, UNCHANGED <<req, window, journal>>, Surroundings'
  PROVE  OutcomeInv'
<1>1. Count({})
  BY CountNothing DEF OutcomeInv
<1> QED BY <1>1, BooksStep

-----------------------------------------------------------------------------
(* The gates *)

(* The length and the token are looked at before anything is awaited.      *)
LEMMA HeadersStep ==
  ASSUME OutcomeInv, NEW r \in Requests, Headers(r) PROVE OutcomeInv'
<1>1. /\ req[r].stage = "arrived" /\ UNCHANGED <<balance, journal, process, bounds>>
      /\ \E flaws \in FlawSets :
           IF "content_length" \in flaws THEN Deny(r, "gate:request", 413)
           ELSE IF "no_token" \in flaws THEN Deny(r, "gate:auth", 401)
           ELSE /\ Become(r, [req[r] EXCEPT !.stage = "known", !.flaws = flaws])
                /\ UNCHANGED window
  BY Zenon DEF Headers, At
<1>2. PICK flaws \in FlawSets :
        \/ Deny(r, "gate:request", 413) \/ Deny(r, "gate:auth", 401)
        \/ Become(r, [req[r] EXCEPT !.stage = "known", !.flaws = flaws]) /\ UNCHANGED window
  BY <1>1
<1>3. req[r].stage \in Gates /\ {"gate:request", "gate:auth"} \subseteq GateKind
  BY <1>1 DEF Gates, GateKind
<1>4. CASE Deny(r, "gate:request", 413)
  BY <1>1, <1>3, <1>4, DenyStep
<1>5. CASE Deny(r, "gate:auth", 401)
  BY <1>1, <1>3, <1>5, DenyStep
<1>6. CASE Become(r, [req[r] EXCEPT !.stage = "known", !.flaws = flaws]) /\ UNCHANGED window
  <2> DEFINE q == [req[r] EXCEPT !.stage = "known", !.flaws = flaws]
  <2>1. req[r] \in Request /\ SoundRequest(req[r]) /\ req[r].charge <= HoldMicros
    BY RequestFacts
  <2>2. /\ q \in Request /\ q.stage = "known" /\ q.charge = req[r].charge /\ q.sent = req[r].sent
        /\ q.reply = req[r].reply /\ q.ending = req[r].ending /\ q.answer = req[r].answer
    BY <2>1 DEF Request, Stages
  <2> HIDE DEF q
  <2>3. SoundRequest(q) /\ q.answer \notin Denials
    BY <1>1, <2>1, <2>2 DEF SoundRequest, Masked, Untouched, Gates, InFlight, Denials
  <2>4. Unfinished(req[r]) = Unfinished(q)
    BY <1>1, <2>2 DEF Unfinished, InFlight, LeftOpen
  <2>5. Surroundings'
    BY <1>1 DEF OutcomeInv, OutcomeTyping, Surroundings
  <2> QED BY <1>1, <1>3, <1>6, <2>1, <2>2, <2>3, <2>4, <2>5, QuietStep DEF q
<1> QED BY <1>2, <1>4, <1>5, <1>6

(* An unknown token is shed before the body is read.                       *)
LEMMA KnownStep ==
  ASSUME OutcomeInv, NEW r \in Requests, Known(r) PROVE OutcomeInv'
<1>1. /\ req[r].stage = "known" /\ UNCHANGED <<balance, journal, process, bounds>>
      /\ \/ Deny(r, "gate:auth", 401)
         \/ Become(r, [req[r] EXCEPT !.stage = "parsed"]) /\ UNCHANGED window
  BY Zenon DEF Known, At
<1>2. req[r].stage \in Gates /\ "gate:auth" \in GateKind
  BY <1>1 DEF Gates, GateKind
<1>3. CASE Deny(r, "gate:auth", 401)
  BY <1>1, <1>2, <1>3, DenyStep
<1>4. CASE Become(r, [req[r] EXCEPT !.stage = "parsed"]) /\ UNCHANGED window
  <2> DEFINE q == [req[r] EXCEPT !.stage = "parsed"]
  <2>1. req[r] \in Request /\ SoundRequest(req[r]) /\ req[r].charge <= HoldMicros
    BY RequestFacts
  <2>2. /\ q \in Request /\ q.stage = "parsed" /\ q.charge = req[r].charge /\ q.sent = req[r].sent
        /\ q.reply = req[r].reply /\ q.ending = req[r].ending /\ q.answer = req[r].answer
    BY <2>1 DEF Request, Stages
  <2> HIDE DEF q
  <2>3. SoundRequest(q) /\ q.answer \notin Denials
    BY <1>1, <2>1, <2>2 DEF SoundRequest, Masked, Untouched, Gates, InFlight, Denials
  <2>4. Unfinished(req[r]) = Unfinished(q)
    BY <1>1, <2>2 DEF Unfinished, InFlight, LeftOpen
  <2>5. Surroundings'
    BY <1>1 DEF OutcomeInv, OutcomeTyping, Surroundings
  <2> QED BY <1>1, <1>2, <1>4, <2>1, <2>2, <2>3, <2>4, <2>5, QuietStep DEF q
<1> QED BY <1>1, <1>3, <1>4

(* Every refusal of a body is counted at the gate it names.                *)
LEMMA BodyStep ==
  ASSUME OutcomeInv, NEW r \in Requests, Body(r) PROVE OutcomeInv'
<1>1. req[r].stage = "parsed" /\ UNCHANGED <<balance, journal, process, bounds>>
  BY Zenon DEF Body, At
<1>2. \/ Deny(r, "gate:request", 400) \/ Deny(r, "gate:model", 400)
      \/ Deny(r, "gate:premium", 400) \/ Deny(r, "gate:auth", 401)
      \/ Deny(r, "gate:funds", 402)
      \/ /\ \E streaming \in BOOLEAN :
              Become(r, [req[r] EXCEPT !.stage = "funded", !.streaming = streaming])
         /\ UNCHANGED window
  BY Zenon DEF Body, At
<1>3. req[r].stage \in Gates /\ {"gate:request", "gate:model", "gate:premium", "gate:auth", "gate:funds"} \subseteq GateKind
  BY <1>1 DEF Gates, GateKind
<1>4. CASE Deny(r, "gate:request", 400)
  BY <1>1, <1>3, <1>4, DenyStep
<1>5. CASE Deny(r, "gate:model", 400)
  BY <1>1, <1>3, <1>5, DenyStep
<1>6. CASE Deny(r, "gate:premium", 400)
  BY <1>1, <1>3, <1>6, DenyStep
<1>7. CASE Deny(r, "gate:auth", 401)
  BY <1>1, <1>3, <1>7, DenyStep
<1>8. CASE Deny(r, "gate:funds", 402)
  BY <1>1, <1>3, <1>8, DenyStep
<1>9. CASE /\ \E streaming \in BOOLEAN :
                Become(r, [req[r] EXCEPT !.stage = "funded", !.streaming = streaming])
           /\ UNCHANGED window
  <2>1. PICK streaming \in BOOLEAN :
          Become(r, [req[r] EXCEPT !.stage = "funded", !.streaming = streaming])
    BY <1>9
  <2> DEFINE q == [req[r] EXCEPT !.stage = "funded", !.streaming = streaming]
  <2>2. req[r] \in Request /\ SoundRequest(req[r]) /\ req[r].charge <= HoldMicros
    BY RequestFacts
  <2>3. /\ q \in Request /\ q.stage = "funded" /\ q.charge = req[r].charge /\ q.sent = req[r].sent
        /\ q.reply = req[r].reply /\ q.ending = req[r].ending /\ q.answer = req[r].answer
    BY <2>2 DEF Request, Stages
  <2>4. Become(r, q)
    BY <2>1
  <2> HIDE DEF q
  <2>5. SoundRequest(q) /\ q.answer \notin Denials
    BY <1>1, <2>2, <2>3 DEF SoundRequest, Masked, Untouched, Gates, InFlight, Denials
  <2>6. Unfinished(req[r]) = Unfinished(q)
    BY <1>1, <2>3 DEF Unfinished, InFlight, LeftOpen
  <2>7. Surroundings'
    BY <1>1 DEF OutcomeInv, OutcomeTyping, Surroundings
  <2> QED BY <1>1, <1>3, <1>9, <2>2, <2>3, <2>4, <2>5, <2>6, <2>7, QuietStep
<1> QED BY <1>2, <1>4, <1>5, <1>6, <1>7, <1>8, <1>9

(* openHold debits what is there, and the request is counted as forwarded. *)
LEMMA OpenHoldStep ==
  ASSUME OutcomeInv, NEW r \in Requests, OpenHold(r) PROVE OutcomeInv'
<1> DEFINE t == TokenOf[r]
<1>1. /\ req[r].stage = "funded" /\ UNCHANGED <<journal, process, bounds>>
      /\ \/ /\ balance[t] # Unknown /\ balance[t] >= HoldMicros
            /\ balance' = [balance EXCEPT ![t] = @ - HoldMicros]
            /\ Become(r, [req[r] EXCEPT !.stage = "forwarded"]) /\ Count({"req"})
         \/ /\ Become(r, [req[r] EXCEPT !.stage = "refused"])
            /\ UNCHANGED <<balance, window>>
  BY DEF OpenHold, At
<1>2. /\ req[r] \in Request /\ SoundRequest(req[r]) /\ req[r].charge <= HoldMicros
      /\ t \in Tokens
  BY RequestFacts
<1>3. req[r].stage \in Gates /\ req[r].answer = 0
  BY <1>1, <1>2 DEF SoundRequest, Gates
<1>4. CASE /\ balance[t] # Unknown /\ balance[t] >= HoldMicros
           /\ balance' = [balance EXCEPT ![t] = @ - HoldMicros]
           /\ Become(r, [req[r] EXCEPT !.stage = "forwarded"]) /\ Count({"req"})
  <2> DEFINE q == [req[r] EXCEPT !.stage = "forwarded"]
  <2>1. /\ q \in Request /\ q.stage = "forwarded" /\ q.charge = req[r].charge
        /\ q.sent = req[r].sent /\ q.reply = req[r].reply /\ q.ending = req[r].ending
        /\ q.answer = req[r].answer
    BY <1>2 DEF Request, Stages
  <2>2. Become(r, q)
    BY <1>4
  <2> HIDE DEF q
  <2>3. SoundRequest(q)
    BY <1>1, <1>2, <2>1 DEF SoundRequest, Masked, Untouched, Gates, InFlight
  <2>4. ~Unfinished(req[r]) /\ Unfinished(q)
    BY <1>1, <2>1 DEF Unfinished, InFlight, LeftOpen
  <2>5. Moves(req[r], q, {"req"})
    BY <2>4, CountersApart DEF Moves
  <2>6. balance \in [Tokens -> Nat \cup {Unknown}]
    BY DEF OutcomeInv, OutcomeTyping, Surroundings
  <2>7. balance[t] - HoldMicros \in Nat
    BY <1>2, <1>4, <2>6, OutcomeConstants
  <2>8. balance' \in [Tokens -> Nat \cup {Unknown}]
    BY <1>4, <2>6, <2>7
  <2>9. Surroundings'
    BY <1>1, <2>8 DEF OutcomeInv, OutcomeTyping, Surroundings
  <2>10. "gate:auth" \notin {"req"} /\ "gate:funds" \notin {"req"}
    OBVIOUS
  <2> QED BY <1>1, <1>2, <1>3, <1>4, <2>1, <2>2, <2>3, <2>5, <2>9, <2>10, RequestStep DEF Denials
<1>5. CASE Become(r, [req[r] EXCEPT !.stage = "refused"]) /\ UNCHANGED <<balance, window>>
  <2> DEFINE q == [req[r] EXCEPT !.stage = "refused"]
  <2>1. /\ q \in Request /\ q.stage = "refused" /\ q.charge = req[r].charge
        /\ q.sent = req[r].sent /\ q.reply = req[r].reply /\ q.ending = req[r].ending
        /\ q.answer = req[r].answer
    BY <1>2 DEF Request, Stages
  <2>2. Become(r, q)
    BY <1>5
  <2> HIDE DEF q
  <2>3. SoundRequest(q) /\ q.answer \notin Denials
    BY <1>1, <1>2, <2>1 DEF SoundRequest, Masked, Untouched, Gates, InFlight, Denials
  <2>4. Unfinished(req[r]) = Unfinished(q)
    BY <1>1, <2>1 DEF Unfinished, InFlight, LeftOpen
  <2>5. Surroundings'
    BY <1>1, <1>5 DEF OutcomeInv, OutcomeTyping, Surroundings
  <2> QED BY <1>1, <1>2, <1>3, <1>5, <2>1, <2>2, <2>3, <2>4, <2>5, QuietStep
<1> QED BY <1>1, <1>4, <1>5

(* A refused hold is answered by what the balance read after it says.      *)
LEMMA RefusedStep ==
  ASSUME OutcomeInv, NEW r \in Requests, Refused(r) PROVE OutcomeInv'
<1>1. /\ req[r].stage = "refused" /\ UNCHANGED <<balance, journal, process, bounds>>
      /\ Deny(r, "gate:auth", 401) \/ Deny(r, "gate:funds", 402)
  BY Zenon DEF Refused, At
<1>2. req[r].stage \in Gates /\ "gate:auth" \in GateKind /\ "gate:funds" \in GateKind
  BY <1>1 DEF Gates, GateKind
<1>3. CASE Deny(r, "gate:auth", 401)
  BY <1>1, <1>2, <1>3, DenyStep
<1>4. CASE Deny(r, "gate:funds", 402)
  BY <1>1, <1>2, <1>4, DenyStep
<1> QED BY <1>1, <1>3, <1>4

(* A rejected call is within its bound, and one more is typed.             *)
LEMMA RejectBounds ==
  ASSUME OutcomeInv, LedgerRejects, Bump("rejects"), UNCHANGED <<balance, process>>
  PROVE  Surroundings'
<1> DEFINE n == bounds.rejects + 1
<1>1. bounds \in [rejects : 0 .. MaxRejects, background : 0 .. MaxBackground]
  BY DEF OutcomeInv, OutcomeTyping, Surroundings
<1>2. n \in 0 .. MaxRejects
  BY <1>1, OutcomeConstants DEF LedgerRejects
<1>3. bounds' = [bounds EXCEPT !["rejects"] = n]
  BY DEF Bump
<1> HIDE DEF n
<1>4. bounds' \in [rejects : 0 .. MaxRejects, background : 0 .. MaxBackground]
  BY <1>1, <1>2, <1>3
<1> QED BY <1>4 DEF OutcomeInv, OutcomeTyping, Surroundings

(* A gate whose ledger call rejects answers 500 and counts nothing.        *)
LEMMA ThrowsStep ==
  ASSUME OutcomeInv, NEW r \in Requests, Throws(r) PROVE OutcomeInv'
<1> DEFINE q == Gone("thrown", 500, NoCharge, {})
<1>1. /\ req[r].stage \in {"known", "parsed", "funded", "refused"}
      /\ LedgerRejects /\ Become(r, q) /\ Bump("rejects")
      /\ UNCHANGED <<balance, window, journal, process>>
  BY DEF Throws, At
<1>2. q \in Request /\ q.stage = "thrown" /\ q.answer = 500 /\ q.charge = NoCharge /\ q.sent = {}
  BY GoneShape DEF Stages
<1> HIDE DEF q
<1>3. SoundRequest(q) /\ q.answer \notin Denials
  BY <1>2 DEF SoundRequest, Masked, Untouched, Gates, InFlight, Denials
<1>4. req[r].stage \in Gates /\ Unfinished(req[r]) = Unfinished(q)
  BY <1>1, <1>2 DEF Gates, Unfinished, InFlight, LeftOpen
<1>5. q.charge <= HoldMicros
  BY <1>2, ClampBounds
<1>6. Surroundings'
  BY <1>1, RejectBounds
<1> QED BY <1>1, <1>2, <1>3, <1>4, <1>5, <1>6, QuietStep

(* An account that is removed by hand is no counter's business.            *)
LEMMA TokenDeletedStep ==
  ASSUME OutcomeInv, NEW t \in Tokens, TokenDeleted(t) PROVE OutcomeInv'
<1>1. /\ balance' = [balance EXCEPT ![t] = Unknown]
      /\ UNCHANGED <<req, window, journal, process, bounds>>
  BY DEF TokenDeleted
<1>2. Surroundings'
  BY <1>1 DEF OutcomeInv, OutcomeTyping, Surroundings
<1> QED BY <1>1, <1>2, BooksAlone

-----------------------------------------------------------------------------
(* The upstream *)

(* A fetch that fails is billed nothing.                                   *)
LEMMA FetchFailsStep ==
  ASSUME OutcomeInv, NEW r \in Requests, FetchFails(r) PROVE OutcomeInv'
<1>1. req[r].stage = "forwarded" /\ UNCHANGED <<balance, journal, process, bounds>>
  BY DEF FetchFails, At
<1>2. PICK timedOut \in BOOLEAN : Bill(r, req[r], 0, TransportFailure(timedOut, {}))
  BY Zenon DEF FetchFails
<1>3. /\ req[r] \in Request /\ req[r].charge = NoCharge /\ req[r].sent = {} /\ req[r].answer = 0
      /\ req[r].stage \in InFlight /\ ~OfOperator(req[r].reply)
  BY <1>1, RequestFacts, NoReplyIsSilent DEF SoundRequest, Untouched, InFlight
<1>4. /\ TransportFailure(timedOut, {}) \in Ending
      /\ TransportFailure(timedOut, {}).status \notin Denials
  BY TransportShape
<1>5. TransportFailure(timedOut, {}) # NoEnding
  BY <1>4, EndingIsSomething
<1> QED BY <1>1, <1>2, <1>3, <1>4, <1>5, BillStep

(* An accepted request has been asked for nothing yet.                     *)
LEMMA AcceptsStep ==
  ASSUME OutcomeInv, NEW r \in Requests, Accepts(r) PROVE OutcomeInv'
<1> DEFINE next == IF req[r].streaming THEN "open" ELSE "reading"
           q == [req[r] EXCEPT !.stage = next]
<1>1. /\ req[r].stage = "forwarded" /\ Become(r, q)
      /\ UNCHANGED <<balance, window, journal, process, bounds>>
  BY DEF Accepts, At
<1>2. req[r] \in Request /\ SoundRequest(req[r]) /\ req[r].charge <= HoldMicros
  BY RequestFacts
<1>3. next \in {"open", "reading"}
  OBVIOUS
<1> HIDE DEF next
<1>4. /\ q \in Request /\ q.stage = next /\ q.charge = req[r].charge /\ q.sent = req[r].sent
      /\ q.reply = req[r].reply /\ q.ending = req[r].ending /\ q.answer = req[r].answer
  BY <1>2, <1>3 DEF Request, Stages
<1> HIDE DEF q
<1>5. /\ Untouched(req[r]) /\ req[r].reply = NoReply /\ req[r].ending = NoEnding
      /\ req[r].answer = 0
  BY <1>1, <1>2 DEF SoundRequest, InFlight
<1>6. SoundRequest(q) /\ q.answer \notin Denials
  BY <1>3, <1>4, <1>5 DEF SoundRequest, Masked, Untouched, RefusedStream, Gates, InFlight, Denials
<1>7. req[r].stage \in InFlight /\ Unfinished(req[r]) = Unfinished(q)
  BY <1>1, <1>3, <1>4 DEF Unfinished, InFlight, LeftOpen
<1>8. Surroundings'
  BY <1>1 DEF OutcomeInv, OutcomeTyping, Surroundings
<1> QED BY <1>1, <1>2, <1>4, <1>6, <1>7, <1>8, QuietStep

(* A refused stream is billed nothing before its body is read.             *)
LEMMA RefusesStep ==
  ASSUME OutcomeInv, NEW r \in Requests, Refuses(r) PROVE OutcomeInv'
<1>1. req[r].stage = "forwarded" /\ UNCHANGED <<balance, journal, process, bounds>>
  BY Zenon DEF Refuses, At
<1>2. PICK reply \in Replies \cup (IF req[r].streaming THEN {BodylessOk} ELSE {}) :
        LET q == [req[r] EXCEPT !.reply = reply]
        IN IF q.streaming THEN Bill(r, q, 0, NoEnding)
           ELSE Become(r, [q EXCEPT !.stage = "reading"]) /\ UNCHANGED window
  BY Zenon DEF Refuses
<1> DEFINE q == [req[r] EXCEPT !.reply = reply]
<1>3. req[r] \in Request /\ SoundRequest(req[r]) /\ req[r].charge <= HoldMicros
  BY RequestFacts
<1>4. reply \in Replies \cup {BodylessOk} /\ reply # NoReply
  <2>1. NoReply.status = 0
    BY DEF NoReply
  <2>2. CASE reply \in Replies
    <3>1. reply.status \in (100 .. 599)
      BY <2>2, OutcomeConstants
    <3> QED BY <2>1, <2>2, <3>1
  <2>3. CASE reply = BodylessOk
    <3>1. reply.status = 200
      BY <2>3 DEF BodylessOk
    <3> QED BY <2>1, <2>3, <3>1
  <2> QED BY <2>2, <2>3
<1>5. /\ q \in Request /\ q.stage = "forwarded" /\ q.charge = req[r].charge
      /\ q.sent = req[r].sent /\ q.streaming = req[r].streaming /\ q.reply = reply
      /\ q.ending = req[r].ending /\ q.answer = req[r].answer
  BY <1>1, <1>3, <1>4 DEF Request
<1>6. IF q.streaming THEN Bill(r, q, 0, NoEnding)
      ELSE Become(r, [q EXCEPT !.stage = "reading"]) /\ UNCHANGED window
  BY <1>2
<1> HIDE DEF q
<1>7. /\ Untouched(req[r]) /\ req[r].ending = NoEnding /\ req[r].answer = 0
      /\ req[r].stage \in InFlight
  BY <1>1, <1>3 DEF SoundRequest, InFlight
<1>8. CASE q.streaming
  <2>1. RefusedStream(q)
    BY <1>4, <1>5, <1>8 DEF RefusedStream
  <2>2. q.charge = NoCharge /\ q.sent \subseteq {Clamp(0)} /\ q.answer = 0
    BY <1>5, <1>7 DEF Untouched
  <2>3. Bill(r, q, 0, NoEnding)
    BY <1>6, <1>8
  <2> QED BY <1>1, <1>5, <1>7, <2>1, <2>2, <2>3, BillStep
<1>9. CASE ~q.streaming
  <2> DEFINE p == [q EXCEPT !.stage = "reading"]
  <2>1. Become(r, p) /\ UNCHANGED window
    BY <1>6, <1>9
  <2>2. /\ p \in Request /\ p.stage = "reading" /\ p.charge = NoCharge /\ p.sent = {}
        /\ ~p.streaming /\ p.ending = NoEnding /\ p.answer = 0
    BY <1>5, <1>7, <1>9 DEF Request, Stages, Untouched
  <2> HIDE DEF p
  <2>3. SoundRequest(p) /\ p.answer \notin Denials
    BY <2>2 DEF SoundRequest, Masked, Untouched, RefusedStream, Gates, InFlight, Denials
  <2>4. Unfinished(req[r]) = Unfinished(p)
    BY <1>1, <2>2 DEF Unfinished, InFlight, LeftOpen
  <2>5. Surroundings' /\ p.charge <= HoldMicros
    BY <1>1, <2>2, ClampBounds DEF OutcomeInv, OutcomeTyping, Surroundings
  <2> QED BY <1>1, <1>7, <2>1, <2>2, <2>3, <2>4, <2>5, QuietStep
<1> QED BY <1>8, <1>9

(* The body is read: a success is billed or refunded, a refusal            *)
(* classified, and a refused stream, already billed, only counted.         *)
LEMMA BodyReadStep ==
  ASSUME OutcomeInv, NEW r \in Requests, BodyRead(r) PROVE OutcomeInv'
<1> DEFINE q == req[r]
<1>1. q.stage = "reading" /\ UNCHANGED <<balance, journal, process, bounds>>
  BY Zenon DEF BodyRead, At
<1>2. IF q.reply = NoReply
      THEN \/ \E cost \in Costs : Bill(r, q, cost, Ends("served", 200, {}))
           \/ Bill(r, q, 0, Ends("bill:refunded", 200, {}))
      ELSE IF q.streaming THEN Over(r, [q EXCEPT !.ending = Relayed(q.reply)])
      ELSE Bill(r, q, 0, Relayed(q.reply))
  BY Zenon DEF BodyRead
<1>3. /\ q \in Request /\ SoundRequest(q) /\ q.charge <= HoldMicros
      /\ q.stage \in InFlight /\ q.answer = 0
  BY <1>1, RequestFacts DEF SoundRequest, InFlight
<1>4. IF RefusedStream(q) THEN Charged(q, Clamp(0)) ELSE Untouched(q)
  BY <1>1, <1>3 DEF SoundRequest
<1>5. CASE q.reply = NoReply
  <2>1. q.charge = NoCharge /\ q.sent = {}
    BY <1>4, <1>5 DEF RefusedStream, Untouched
  <2>2. \E cost \in Nat, ending \in Ending : ending.status \notin Denials /\ Bill(r, q, cost, ending)
    <3>1. /\ Ends("served", 200, {}) \in Ending /\ Ends("served", 200, {}).status \notin Denials
          /\ Ends("bill:refunded", 200, {}) \in Ending
          /\ Ends("bill:refunded", 200, {}).status \notin Denials
      BY EndsShape DEF Terminal, Denials
    <3>2. CASE Bill(r, q, 0, Ends("bill:refunded", 200, {}))
      BY <3>1, <3>2
    <3>3. CASE \E cost \in Costs : Bill(r, q, cost, Ends("served", 200, {}))
      BY <3>1, <3>3, OutcomeConstants
    <3> QED BY <1>2, <1>5, <3>2, <3>3
  <2>3. PICK cost \in Nat, ending \in Ending : ending.status \notin Denials /\ Bill(r, q, cost, ending)
    BY <2>2
  <2>4. ending # NoEnding /\ ~OfOperator(q.reply)
    BY <1>5, EndingIsSomething, NoReplyIsSilent
  <2> QED BY <1>1, <1>3, <2>1, <2>3, <2>4, BillStep
<1>6. CASE q.reply # NoReply
  <2>1. q.reply \in Replies \cup {BodylessOk}
    BY <1>3, <1>6 DEF Request
  <2>2. /\ Relayed(q.reply) \in Ending /\ Relayed(q.reply).status \notin Denials
        /\ Relayed(q.reply) # NoEnding
        /\ OfOperator(q.reply) => Relayed(q.reply).status \in Masks
    BY <2>1, RelayedShape, EndingIsSomething
  <2>3. CASE q.streaming
    <3> DEFINE p == [q EXCEPT !.ending = Relayed(q.reply)]
    <3>1. Over(r, p)
      BY <1>2, <1>6, <2>3
    <3>2. Charged(q, Clamp(0))
      BY <1>4, <1>6, <2>3 DEF RefusedStream
    <3>3. /\ p.charge = q.charge /\ p.sent = q.sent /\ p.ending = Relayed(q.reply)
          /\ p.reply = q.reply /\ q.reply \in Replies \cup {NoReply, BodylessOk}
      BY <1>3 DEF Request
    <3> HIDE DEF p
    <3>4. p.charge \in Nat /\ p.charge <= HoldMicros /\ p.sent = {p.charge}
      BY <3>2, <3>3, ClampBounds DEF Charged
    <3>5. Surroundings'
      BY <1>1 DEF OutcomeInv, OutcomeTyping, Surroundings
    <3> QED BY <1>1, <1>3, <2>2, <3>1, <3>3, <3>4, <3>5, OverStep
  <2>4. CASE ~q.streaming
    <3>1. Bill(r, q, 0, Relayed(q.reply))
      BY <1>2, <1>6, <2>4
    <3>2. q.charge = NoCharge /\ q.sent \subseteq {Clamp(0)}
      BY <1>4, <2>4 DEF RefusedStream, Untouched
    <3> QED BY <1>1, <1>3, <2>2, <3>1, <3>2, BillStep
  <2> QED BY <2>3, <2>4
<1> QED BY <1>5, <1>6

(* The body breaks off: the accepted input is billed, or nothing; of a     *)
(* stream that was refused, nothing once more.                             *)
LEMMA ReadFailsStep ==
  ASSUME OutcomeInv, NEW r \in Requests, ReadFails(r) PROVE OutcomeInv'
<1> DEFINE q == req[r]
<1>1. q.stage = "reading" /\ UNCHANGED <<balance, journal, process, bounds>>
  BY Zenon DEF ReadFails, At
<1>2. PICK timedOut \in BOOLEAN :
        IF q.reply = NoReply
        THEN Bill(r, q, InputFloor, TransportFailure(timedOut, {"failure:http-input-floor"}))
        ELSE Bill(r, q, 0, TransportFailure(timedOut, {}))
  BY Zenon DEF ReadFails
<1>3. /\ q \in Request /\ SoundRequest(q) /\ q.stage \in InFlight /\ q.answer = 0
  BY <1>1, RequestFacts DEF SoundRequest, InFlight
<1>4. IF RefusedStream(q) THEN Charged(q, Clamp(0)) ELSE Untouched(q)
  BY <1>1, <1>3 DEF SoundRequest
<1>5. ASSUME NEW actual \in Nat, NEW details \in SUBSET FailureKind,
             Bill(r, q, actual, TransportFailure(timedOut, details)),
             \/ q.charge = NoCharge /\ q.sent \subseteq {Clamp(actual)}
             \/ Charged(q, Clamp(actual))
      PROVE  OutcomeInv'
  <2>1. /\ TransportFailure(timedOut, details) \in Ending
        /\ TransportFailure(timedOut, details).status \notin Denials
        /\ TransportFailure(timedOut, details).status \in Masks
        /\ TransportFailure(timedOut, details) # NoEnding
    BY TransportShape, EndingIsSomething
  <2> QED BY <1>1, <1>3, <1>5, <2>1, BillStep
<1>6. CASE q.reply = NoReply
  <2>1. q.charge = NoCharge /\ q.sent \subseteq {Clamp(InputFloor)}
    BY <1>4, <1>6 DEF RefusedStream, Untouched
  <2>2. InputFloor \in Nat /\ {"failure:http-input-floor"} \in SUBSET FailureKind
    BY OutcomeConstants DEF FailureKind
  <2> QED BY <1>2, <1>5, <1>6, <2>1, <2>2
<1>7. CASE q.reply # NoReply
  <2>1. \/ q.charge = NoCharge /\ q.sent \subseteq {Clamp(0)}
        \/ Charged(q, Clamp(0))
    BY <1>4 DEF Untouched
  <2> QED BY <1>2, <1>5, <1>7, <2>1
<1> QED BY <1>6, <1>7

(* A stream is billed what it decided.                                     *)
LEMMA StreamEndsStep ==
  ASSUME OutcomeInv, NEW r \in Requests, StreamEnds(r) PROVE OutcomeInv'
<1>1. req[r].stage = "open" /\ UNCHANGED <<balance, journal, process, bounds>>
  BY Zenon DEF StreamEnds, At
<1>2. PICK d \in StreamDecision : Bill(r, req[r], d.actual, d.ending)
  BY Zenon DEF StreamEnds
<1>3. /\ req[r] \in Request /\ req[r].charge = NoCharge /\ req[r].sent = {} /\ req[r].answer = 0
      /\ req[r].stage \in InFlight /\ ~OfOperator(req[r].reply)
  BY <1>1, RequestFacts, NoReplyIsSilent DEF SoundRequest, Untouched, InFlight
<1>4. /\ d.actual \in Nat /\ d.ending \in Ending /\ d.ending.status \notin Denials
      /\ d.ending # NoEnding
  BY StreamDecisionShape, EndingIsSomething
<1>5. req[r].sent \subseteq {Clamp(d.actual)}
  BY <1>3
<1> HIDE DEF StreamDecision
<1> QED BY <1>1, <1>2, <1>3, <1>4, <1>5, BillStep

(* A retry asks for the charge that was asked for before.                  *)
LEMMA StreamRetriesStep ==
  ASSUME OutcomeInv, NEW r \in Requests, StreamRetries(r) PROVE OutcomeInv'
<1> DEFINE q == req[r]
<1>1. /\ q.stage = "retry" /\ UNCHANGED <<balance, journal, process, bounds>>
      /\ Bill(r, q, q.actual, q.ending)
  BY Zenon DEF StreamRetries, At
<1>2. q \in Request /\ SoundRequest(q)
  BY RequestFacts
<1>3. /\ q.sent = {Clamp(q.actual)} /\ q.charge = NoCharge /\ q.answer = 0
      /\ q.ending # NoEnding /\ q.ending.status \notin Denials /\ q.stage \in InFlight
      /\ OfOperator(q.reply) => q.ending.status \in Masks
  BY <1>1, <1>2 DEF SoundRequest, Masked, InFlight
<1>4. q.actual \in Nat /\ q.ending \in Ending
  BY <1>2, <1>3 DEF Request
<1> HIDE DEF q
<1>5. q.sent \subseteq {Clamp(q.actual)}
  BY <1>3
<1>6. req[r].stage \in InFlight
  BY <1>3 DEF q
<1> QED BY <1>1, <1>2, <1>3, <1>4, <1>5, <1>6, BillStep

-----------------------------------------------------------------------------
(* The ledger *)

(* The charge is definite: the body of a refused stream is read next,      *)
(* anything else is counted where it ends.                                 *)
LEMMA SettledStep ==
  ASSUME OutcomeInv, NEW r \in Requests, Settled(r, Clamp(req[r].actual)),
         req[r].stage = "billing", journal' = journal, Surroundings'
  PROVE  OutcomeInv'
<1> DEFINE charge == Clamp(req[r].actual)
           q == [req[r] EXCEPT !.charge = charge]
<1>1. /\ req[r] \in Request /\ SoundRequest(req[r])
  BY RequestFacts
<1>2. charge \in Nat /\ charge <= HoldMicros /\ charge # NoCharge
  BY <1>1, ClampBounds DEF Request
<1>3. IF q.ending = NoEnding
      THEN Become(r, [q EXCEPT !.stage = "reading"]) /\ UNCHANGED window
      ELSE Over(r, q)
  BY Zenon DEF Settled
<1>4. /\ req[r].sent = {charge} /\ req[r].answer = 0 /\ req[r].stage \in InFlight
      /\ IF req[r].ending = NoEnding THEN req[r].actual = 0 /\ RefusedStream(req[r])
         ELSE /\ req[r].ending.status \notin Denials
              /\ OfOperator(req[r].reply) => req[r].ending.status \in Masks
  BY <1>1 DEF SoundRequest, Masked, InFlight
<1>5. req[r].ending = NoEnding => charge = Clamp(0)
  BY <1>4
<1> HIDE DEF charge
<1>6. /\ q \in Request /\ q.charge = charge /\ q.sent = {charge} /\ q.answer = 0
      /\ q.ending = req[r].ending /\ q.streaming = req[r].streaming /\ q.reply = req[r].reply
  BY <1>1, <1>2, <1>4 DEF Request
<1> HIDE DEF q
<1>7. CASE q.ending = NoEnding
  <2> DEFINE p == [q EXCEPT !.stage = "reading"]
  <2>1. Become(r, p) /\ UNCHANGED window
    BY <1>3, <1>7
  <2>2. /\ p \in Request /\ p.stage = "reading" /\ p.charge = charge /\ p.sent = {charge}
        /\ p.answer = 0 /\ p.ending = NoEnding
        /\ p.streaming = req[r].streaming /\ p.reply = req[r].reply
    BY <1>6, <1>7 DEF Request, Stages
  <2> HIDE DEF p
  <2>3. RefusedStream(p) /\ Charged(p, Clamp(0))
    BY <1>4, <1>5, <1>6, <1>7, <2>2 DEF RefusedStream, Charged
  <2>4. SoundRequest(p) /\ p.answer \notin Denials
    BY <2>2, <2>3 DEF SoundRequest, Masked, Gates, InFlight, Denials
  <2>5. Unfinished(req[r]) = Unfinished(p)
    BY <1>4, <2>2 DEF Unfinished, InFlight, LeftOpen
  <2> QED BY <1>2, <1>4, <2>1, <2>2, <2>4, <2>5, QuietStep
<1>8. CASE q.ending # NoEnding
  <2>1. /\ q.ending \in Ending /\ q.ending.status \notin Denials
        /\ q.reply \in Replies \cup {NoReply, BodylessOk}
        /\ OfOperator(q.reply) => q.ending.status \in Masks
    BY <1>4, <1>6, <1>8 DEF Request
  <2>2. Over(r, q)
    BY <1>3, <1>8
  <2> QED BY <1>2, <1>4, <1>6, <2>1, <2>2, OverStep
<1> QED BY <1>7, <1>8

(* The ledger's answer makes the charge definite and returns the rest.     *)
LEMMA ConfirmedStep ==
  ASSUME OutcomeInv, NEW r \in Requests, Confirmed(r) PROVE OutcomeInv'
<1> DEFINE t == TokenOf[r]
           more == balance[t] + HoldMicros - Clamp(req[r].actual)
<1>1. /\ req[r].stage = "billing" /\ UNCHANGED <<journal, process, bounds>>
      /\ balance' = [balance EXCEPT ![t] = more]
      /\ Settled(r, Clamp(req[r].actual))
  BY DEF Confirmed, At
<1>2. req[r].actual \in Nat /\ t \in Tokens
  BY RequestFacts DEF Request
<1>3. balance \in [Tokens -> Nat \cup {Unknown}]
  BY DEF OutcomeInv, OutcomeTyping, Surroundings
<1>4. more \in Nat \cup {Unknown}
  <2>1. balance[t] \in Nat \cup {-1}
    BY <1>2, <1>3 DEF Unknown
  <2> DEFINE c == Clamp(req[r].actual)
  <2>2. c \in Nat /\ c <= HoldMicros /\ HoldMicros \in Nat
    BY <1>2, ClampBounds, OutcomeConstants
  <2> HIDE DEF c
  <2>3. balance[t] + HoldMicros - c \in Nat \cup {-1}
    BY <2>1, <2>2
  <2> QED BY <2>3 DEF c, Unknown
<1> HIDE DEF more
<1>5. balance' \in [Tokens -> Nat \cup {Unknown}]
  BY <1>1, <1>2, <1>3, <1>4
<1>6. Surroundings'
  BY <1>1, <1>5 DEF OutcomeInv, OutcomeTyping, Surroundings
<1> QED BY <1>1, <1>6, SettledStep

(* A second call finds the charge it asks for, never a conflict.           *)
LEMMA RepeatedStep ==
  ASSUME OutcomeInv, NEW r \in Requests, Repeated(r) PROVE OutcomeInv'
<1>1. /\ req[r].stage = "billing" /\ UNCHANGED <<balance, journal, process, bounds>>
      /\ req[r].charge # NoCharge
      /\ req[r].charge = Clamp(req[r].actual) => Settled(r, req[r].charge)
  BY DEF Repeated, At
<1>2. req[r].charge = Clamp(req[r].actual)
  BY <1>1, RequestFacts DEF SoundRequest
<1>3. Surroundings'
  BY <1>1 DEF OutcomeInv, OutcomeTyping, Surroundings
<1> QED BY <1>1, <1>2, <1>3, SettledStep

(* A rejected settlement is kept for a retry, or its hold left open.       *)
LEMMA RejectedStep ==
  ASSUME OutcomeInv, NEW r \in Requests, Rejected(r) PROVE OutcomeInv'
<1> DEFINE q == IF Streamed(req[r]) THEN [req[r] EXCEPT !.stage = "retry"]
                ELSE Gone("unsettled", 500, NoCharge, req[r].sent)
<1>1. /\ req[r].stage = "billing" /\ req[r].charge = NoCharge
      /\ LedgerRejects /\ Bump("rejects") /\ Become(r, q)
      /\ UNCHANGED <<balance, window, journal, process>>
  BY DEF Rejected, At
<1>2. req[r] \in Request /\ SoundRequest(req[r]) /\ req[r].charge <= HoldMicros
  BY RequestFacts
<1>3. /\ req[r].sent = {Clamp(req[r].actual)} /\ req[r].answer = 0 /\ req[r].stage \in InFlight
      /\ req[r].ending # NoEnding =>
           /\ req[r].ending.status \notin Denials
           /\ OfOperator(req[r].reply) => req[r].ending.status \in Masks
  BY <1>1, <1>2 DEF SoundRequest, Masked, InFlight
<1>4. Clamp(req[r].actual) \in Nat
  BY <1>2, ClampBounds DEF Request
<1>5. Surroundings'
  BY <1>1, RejectBounds
<1>6. CASE Streamed(req[r])
  <2> DEFINE p == [req[r] EXCEPT !.stage = "retry"]
  <2>1. Become(r, p)
    BY <1>1, <1>6
  <2>2. /\ p \in Request /\ p.stage = "retry" /\ p.charge = req[r].charge /\ p.sent = req[r].sent
        /\ p.actual = req[r].actual /\ p.ending = req[r].ending /\ p.answer = req[r].answer
        /\ p.reply = req[r].reply
    BY <1>2 DEF Request, Stages
  <2> HIDE DEF p
  <2>3. req[r].ending # NoEnding
    BY <1>6 DEF Streamed
  <2>4. SoundRequest(p) /\ p.answer \notin Denials
    BY <1>1, <1>3, <2>2, <2>3 DEF SoundRequest, Masked, Gates, InFlight, Denials
  <2>5. Unfinished(req[r]) = Unfinished(p)
    BY <1>3, <2>2 DEF Unfinished, InFlight
  <2> QED BY <1>1, <1>2, <1>3, <1>5, <2>1, <2>2, <2>4, <2>5, QuietStep
<1>7. CASE ~Streamed(req[r])
  <2> DEFINE p == Gone("unsettled", 500, NoCharge, req[r].sent)
  <2>1. Become(r, p)
    BY <1>1, <1>7
  <2>2. req[r].sent \in SUBSET Nat
    BY <1>3, <1>4
  <2>3. /\ p \in Request /\ p.stage = "unsettled" /\ p.charge = NoCharge /\ p.sent = req[r].sent
        /\ p.answer = 500
    BY <2>2, GoneShape DEF Stages
  <2> HIDE DEF p
  <2>4. \E charge \in Nat : p.sent = {charge}
    BY <1>3, <1>4, <2>3
  <2>5. SoundRequest(p) /\ p.answer \notin Denials
    BY <2>3, <2>4 DEF SoundRequest, Masked, Gates, InFlight, Denials
  <2>6. Unfinished(req[r]) = Unfinished(p)
    BY <1>3, <2>3 DEF Unfinished, LeftOpen
  <2> QED BY <1>1, <1>2, <1>3, <1>5, <2>1, <2>3, <2>5, <2>6, QuietStep
<1> QED BY <1>6, <1>7

-----------------------------------------------------------------------------
(* The free reads, and the windows *)

(* The free reads count nothing of a metered request.                      *)
LEMMA ReadStep ==
  ASSUME OutcomeInv, Read PROVE OutcomeInv'
<1>1. bounds \in [rejects : 0 .. MaxRejects, background : 0 .. MaxBackground]
  BY DEF OutcomeInv, OutcomeTyping, Surroundings
<1>2. ASSUME ReadBounded, UNCHANGED <<balance, process>>,
             \/ Bump("background")
             \/ LedgerRejects /\ bounds' = [bounds EXCEPT !.background = @ + 1, !.rejects = @ + 1]
      PROVE  Surroundings'
  <2> DEFINE n == bounds.background + 1
             m == bounds.rejects + 1
  <2>1. n \in 0 .. MaxBackground
    BY <1>1, <1>2, OutcomeConstants DEF ReadBounded
  <2>2. LedgerRejects => m \in 0 .. MaxRejects
    BY <1>1, OutcomeConstants DEF LedgerRejects
  <2>3. \/ bounds' = [bounds EXCEPT !["background"] = n]
        \/ LedgerRejects /\ bounds' = [bounds EXCEPT !.background = n, !.rejects = m]
    BY <1>2 DEF Bump
  <2> HIDE DEF n, m
  <2>4. bounds' \in [rejects : 0 .. MaxRejects, background : 0 .. MaxBackground]
    BY <1>1, <2>1, <2>2, <2>3
  <2> QED BY <1>2, <2>4 DEF OutcomeInv, OutcomeTyping, Surroundings
<1>3. ASSUME NEW cs \in SUBSET {"reject:read", "balance:throttled", "balance:unknown",
                                "balance:ok", "balance:error"},
             Count(cs), UNCHANGED <<req, journal>>, Surroundings'
      PROVE  OutcomeInv'
  <2>1. cs \cap (Terminal \cup {"req", "gate:auth", "gate:funds"}) = {}
    BY DEF Terminal, UpstreamKind
  <2> QED BY <1>3, <2>1, BooksStep
<1>4. CASE Throttled
  <2>1. ReadBounded /\ Bump("background") /\ UNCHANGED <<req, balance, journal, process>>
        /\ (Count({"reject:read", "balance:throttled"}) \/ Count({"reject:read"}))
    BY <1>4, Zenon DEF Throttled
  <2> QED BY <1>2, <1>3, <2>1
<1>5. CASE GetBalanceFails
  <2>1. /\ ReadBounded /\ LedgerRejects /\ Count({"balance:error"})
        /\ bounds' = [bounds EXCEPT !.background = @ + 1, !.rejects = @ + 1]
        /\ UNCHANGED <<req, balance, journal, process>>
    BY <1>5, Zenon DEF GetBalanceFails
  <2> QED BY <1>2, <1>3, <2>1
<1>6. CASE \E t \in Tokens : GetBalance(t)
  <2>1. PICK t \in Tokens : GetBalance(t)
    BY <1>6
  <2> DEFINE c == IF balance[t] = Unknown THEN "balance:unknown" ELSE "balance:ok"
  <2>2. ReadBounded /\ Count({c}) /\ Bump("background") /\ UNCHANGED <<req, balance, journal, process>>
    BY <2>1, Zenon DEF GetBalance
  <2>3. {c} \in SUBSET {"reject:read", "balance:throttled", "balance:unknown",
                        "balance:ok", "balance:error"}
    OBVIOUS
  <2> HIDE DEF c
  <2> QED BY <1>2, <1>3, <2>2, <2>3
<1> QED BY <1>4, <1>5, <1>6 DEF Read

(* A flush moves the window into the journal: nothing is counted twice or  *)
(* lost, only "served" of a window that forwarded nothing is not printed,  *)
(* and a line that shows a problem is a warning.                           *)
LEMMA FlushStep ==
  ASSUME OutcomeInv, flushMetrics, req' = req, Surroundings' PROVE OutcomeInv'
<1> DEFINE problem == \E c \in Problem : window[c] > 0
           level == IF problem THEN "warn" ELSE "info"
           line == [window EXCEPT !["served"] = IF window["req"] > 0 THEN @ ELSE 0]
           rest == [c \in Counter |-> window[c] - line[c]]
           Added(sums, more) == [c \in Counter |-> sums[c] + more[c]]
<1>1. OutcomeTyping /\ Sound /\ Counted
  BY DEF OutcomeInv
<1>2. /\ window \in [Counter -> Nat]
      /\ journal \in [{"info", "warn", "silent"} -> [Counter -> Nat]]
  BY <1>1 DEF OutcomeTyping
<1>3. formatMetricsLine(window) = [level |-> level, line |-> line]
  BY Zenon DEF formatMetricsLine
<1>4. /\ formatMetricsLine(window).level = level
      /\ formatMetricsLine(window).line = line
  <2> HIDE DEF level, line
  <2> QED BY <1>3
<1>5. /\ journal' = [journal EXCEPT ![formatMetricsLine(window).level] = Added(@, formatMetricsLine(window).line),
                                    !.silent = Added(@, [c \in Counter |-> window[c] - formatMetricsLine(window).line[c]])]
      /\ window' = Zero
  BY Zenon DEF flushMetrics
<1>6. journal' = [journal EXCEPT ![level] = Added(@, line), !["silent"] = Added(@, rest)]
  BY <1>4, <1>5
<1>7. level \in {"info", "warn"}
  OBVIOUS
<1>8. /\ line \in [Counter -> Nat] /\ rest \in [Counter -> Nat]
      /\ \A c \in Counter : line[c] + rest[c] = window[c]
      /\ \A c \in Counter \ {"served"} : line[c] = window[c] /\ rest[c] = 0
  <2>1. window["req"] \in Nat
    BY <1>2 DEF Counter
  <2>2. \A c \in Counter : line[c] = IF c = "served" /\ ~(window["req"] > 0) THEN 0 ELSE window[c]
    BY <1>2
  <2>3. line \in [Counter -> Nat]
    BY <1>2
  <2> HIDE DEF line
  <2> QED BY <1>2, <2>2, <2>3
<1>9. level = "info" => \A c \in Problem : line[c] = 0
  <2>1. Problem \subseteq Counter \ {"served"}
    BY DEF Problem, Counter, Terminal, UpstreamKind, BalanceKind
  <2> SUFFICES ASSUME level = "info", NEW c \in Problem PROVE line[c] = 0
    OBVIOUS
  <2>2. ~(window[c] > 0)
    OBVIOUS
  <2>3. window[c] \in Nat /\ line[c] = window[c]
    BY <1>2, <1>8, <2>1
  <2> QED BY <2>2, <2>3
<1> HIDE DEF problem, level, line, rest
<1>10. /\ DOMAIN journal' = {"info", "warn", "silent"}
       /\ \A l \in {"info", "warn"} : \A c \in Counter :
            journal'[l][c] = journal[l][c] + (IF l = level THEN line[c] ELSE 0)
       /\ \A c \in Counter : journal'["silent"][c] = journal["silent"][c] + rest[c]
       /\ \A l \in {"info", "warn", "silent"} : journal'[l] \in [Counter -> Nat]
  <2>1. /\ Added(journal[level], line) \in [Counter -> Nat]
        /\ Added(journal["silent"], rest) \in [Counter -> Nat]
    BY <1>2, <1>7, <1>8
  <2>2. \A l \in {"info", "warn", "silent"} :
          journal'[l] = IF l = level THEN Added(journal[level], line)
                        ELSE IF l = "silent" THEN Added(journal["silent"], rest)
                        ELSE journal[l]
    BY <1>2, <1>6, <1>7
  <2>3. DOMAIN journal' = {"info", "warn", "silent"}
    BY <1>2, <1>6
  <2>4. \A l \in {"info", "warn", "silent"} : journal[l] \in [Counter -> Nat]
    BY <1>2
  <2>5. ASSUME NEW l \in {"info", "warn"}, NEW c \in Counter
        PROVE  journal'[l][c] = journal[l][c] + (IF l = level THEN line[c] ELSE 0)
    <3>1. journal[l][c] \in Nat
      BY <2>4
    <3> QED BY <2>2, <3>1
  <2>6. ASSUME NEW c \in Counter PROVE journal'["silent"][c] = journal["silent"][c] + rest[c]
    BY <1>7, <2>2
  <2>7. \A l \in {"info", "warn", "silent"} : journal'[l] \in [Counter -> Nat]
    BY <2>1, <2>2, <2>4
  <2> QED BY <2>3, <2>5, <2>6, <2>7
<1>11. window' = [c \in Counter |-> 0]
  BY <1>5 DEF Zero
<1>12. journal' \in [{"info", "warn", "silent"} -> [Counter -> Nat]] /\ window' \in [Counter -> Nat]
  <2> DEFINE printed == Added(journal[level], line)
             left == Added(journal["silent"], rest)
  <2>1. printed \in [Counter -> Nat] /\ left \in [Counter -> Nat]
    BY <1>2, <1>7, <1>8
  <2>2. journal' = [journal EXCEPT ![level] = printed, !["silent"] = left]
    BY <1>2, <1>6, <1>7
  <2> HIDE DEF printed, left
  <2>3. journal' \in [{"info", "warn", "silent"} -> [Counter -> Nat]]
    BY <1>2, <1>7, <2>1, <2>2
  <2> QED BY <1>11, <2>3
<1>13. OutcomeTyping' /\ Sound'
  <2>1. Sound'
    BY <1>1 DEF Sound, SoundRequest, Untouched, Charged, RefusedStream, Clamp
  <2> QED BY <1>1, <1>12, <2>1 DEF OutcomeTyping
<1>14. Tally' = Tally
  <2>1. ASSUME NEW c \in Counter
        PROVE  window'[c] + journal'.info[c] + journal'.warn[c] + journal'.silent[c]
                 = window[c] + journal.info[c] + journal.warn[c] + journal.silent[c]
    <3>1. /\ window[c] \in Nat /\ window'[c] = 0 /\ line[c] \in Nat /\ rest[c] \in Nat
          /\ line[c] + rest[c] = window[c]
      BY <1>2, <1>8, <1>11
    <3>2. /\ journal.info[c] \in Nat /\ journal.warn[c] \in Nat /\ journal.silent[c] \in Nat
      BY <1>2
    <3>3. /\ journal'.info[c] = journal.info[c] + (IF "info" = level THEN line[c] ELSE 0)
          /\ journal'.warn[c] = journal.warn[c] + (IF "warn" = level THEN line[c] ELSE 0)
          /\ journal'.silent[c] = journal.silent[c] + rest[c]
      BY <1>10
    <3>4. ("info" = level /\ "warn" # level) \/ ("info" # level /\ "warn" = level)
      BY <1>7
    <3> QED BY <3>1, <3>2, <3>3, <3>4
  <2> QED BY <2>1 DEF Tally
<1>15. \A c \in Counter \ {"served"} : journal'.silent[c] = 0
  <2>1. \A c \in Counter \ {"served"} : journal.silent[c] = 0
    BY <1>1 DEF Counted, Reconciled
  <2> QED BY <1>8, <1>10, <2>1
<1>16. \A c \in Problem : journal'.info[c] = 0
  <2>1. Problem \subseteq Counter
    BY DEF Problem, Counter, Terminal, UpstreamKind, BalanceKind
  <2>2. \A c \in Problem : journal.info[c] = 0
    BY <1>1 DEF Counted, Reconciled
  <2>3. ASSUME NEW c \in Problem PROVE journal'.info[c] = 0
    <3>1. journal'.info[c] = journal.info[c] + (IF "info" = level THEN line[c] ELSE 0)
      BY <1>10, <2>1
    <3> QED BY <1>9, <2>2, <3>1
  <2> QED BY <2>3
<1>17. /\ \A stages : With(stages)' = With(stages)
       /\ \A status : Answered(status)' = Answered(status)
  BY DEF With, Answered
<1>18. Counted'
  BY <1>1, <1>14, <1>15, <1>16, <1>17 DEF Counted, Reconciled
<1> QED BY <1>13, <1>18 DEF OutcomeInv

(* Flushes and the stages of the shutdown.                                 *)
LEMMA ProcessKept ==
  ASSUME OutcomeInv, ProcessStep PROVE OutcomeInv'
<1>1. Surroundings
  BY DEF OutcomeInv, OutcomeTyping
<1>2. CASE Flush
  <2> DEFINE n == bounds.background + 1
  <2>1. /\ bounds.background < MaxBackground /\ flushMetrics /\ Bump("background")
        /\ UNCHANGED <<req, balance, process>>
    BY <1>2, Zenon DEF Flush
  <2>2. n \in 0 .. MaxBackground
    BY <1>1, <2>1, OutcomeConstants DEF Surroundings
  <2>3. bounds' = [bounds EXCEPT !["background"] = n]
    BY <2>1 DEF Bump
  <2> HIDE DEF n
  <2>4. Surroundings'
    BY <1>1, <2>1, <2>2, <2>3 DEF Surroundings
  <2> QED BY <2>1, <2>4, FlushStep
<1>3. CASE FinalFlush
  <2>1. flushMetrics /\ process' = "closing" /\ UNCHANGED <<req, balance, bounds>>
    BY <1>3, Zenon DEF FinalFlush
  <2>2. Surroundings'
    BY <1>1, <2>1 DEF Surroundings
  <2> QED BY <2>1, <2>2, FlushStep
<1>4. CASE SigTerm \/ Exit
  <2>1. process' \in {"draining", "exited"} /\ UNCHANGED <<req, balance, window, journal, bounds>>
    BY <1>4 DEF SigTerm, Exit
  <2>2. Surroundings'
    BY <1>1, <2>1 DEF Surroundings
  <2> QED BY <2>1, <2>2, BooksAlone
<1> QED BY <1>2, <1>3, <1>4 DEF ProcessStep

-----------------------------------------------------------------------------
(* The theorems *)

(* Nothing is counted and nobody has asked for anything at the start.      *)
LEMMA OutcomeInitInv == OutcomeInit => OutcomeInv
<1> SUFFICES ASSUME OutcomeInit PROVE OutcomeInv
  OBVIOUS
<1>1. req \in [Requests -> Request] /\ \A r \in Requests : req[r] = Arrived
  BY ArrivedShape DEF OutcomeInit
<1>2. Zero \in [Counter -> Nat] /\ \A c \in Counter : Zero[c] = 0
  BY DEF Zero
<1>3. /\ window \in [Counter -> Nat]
      /\ journal \in [{"info", "warn", "silent"} -> [Counter -> Nat]]
  BY <1>2 DEF OutcomeInit
<1>4. Surroundings
  BY OutcomeConstants DEF OutcomeInit, Surroundings
<1>5. \A r \in Requests : req[r].charge <= HoldMicros
  BY <1>1, ArrivedShape, ClampBounds
<1>6. OutcomeTyping
  BY <1>1, <1>3, <1>4, <1>5 DEF OutcomeTyping
<1>7. Sound
  BY <1>1, ArrivedShape DEF Sound
<1>8. Tally = Zero
  <2>1. \A c \in Counter : window[c] + journal.info[c] + journal.warn[c] + journal.silent[c] = 0
    BY <1>2 DEF OutcomeInit
  <2> QED BY <2>1 DEF Tally, Zero
<1>9. SumFunctionOnSet(Tally, Terminal) = 0
  <2>1. ASSUME NEW S, IsFiniteSet(S), S \subseteq Counter PROVE SumFunctionOnSet(Zero, S) = 0
    BY <1>2, <2>1, SumOfZeroes
  <2> QED BY <1>8, <2>1, TerminalIsFinite, CountersApart
<1>10. \A stages : "arrived" \notin stages => With(stages) = 0
  BY <1>1, ArrivedShape, FS_EmptySet DEF With
<1>11. \A status : status # 0 => Answered(status) = 0
  BY <1>1, ArrivedShape, FS_EmptySet DEF Answered
<1>12. Tally["req"] = 0 /\ Tally["gate:auth"] = 0 /\ Tally["gate:funds"] = 0
  BY <1>2, <1>8 DEF Counter, GateKind
<1>13. Reconciled
  <2>1. /\ \A c \in Counter : journal.silent[c] = 0 /\ journal.info[c] = 0
        /\ Problem \subseteq Counter
    BY <1>2 DEF OutcomeInit, Problem, Counter, Terminal, UpstreamKind, BalanceKind
  <2> QED BY <1>9, <1>10, <1>12, <2>1 DEF Reconciled
<1>14. Counted
  BY <1>11, <1>12, <1>13 DEF Counted
<1> QED BY <1>6, <1>7, <1>14 DEF OutcomeInv

(* Every step keeps the invariant.                                         *)
LEMMA OutcomeNextInv == OutcomeInv /\ [OutcomeNext]_outcomeVars => OutcomeInv'
<1> SUFFICES ASSUME OutcomeInv, [OutcomeNext]_outcomeVars PROVE OutcomeInv'
  OBVIOUS
<1>1. ASSUME NEW r \in Requests, Gate(r) PROVE OutcomeInv'
  BY <1>1, HeadersStep, KnownStep, BodyStep, OpenHoldStep, RefusedStep, ThrowsStep DEF Gate
<1>2. ASSUME NEW r \in Requests, Upstream(r) PROVE OutcomeInv'
  BY <1>2, FetchFailsStep, AcceptsStep, RefusesStep, BodyReadStep, ReadFailsStep,
     StreamEndsStep, StreamRetriesStep DEF Upstream
<1>3. ASSUME NEW r \in Requests, Ledger(r) PROVE OutcomeInv'
  BY <1>3, ConfirmedStep, RepeatedStep, RejectedStep DEF Ledger
<1>4. ASSUME NEW t \in Tokens, TokenDeleted(t) PROVE OutcomeInv'
  BY <1>4, TokenDeletedStep
<1>5. CASE UNCHANGED outcomeVars
  <2>1. Surroundings'
    BY <1>5 DEF outcomeVars, OutcomeInv, OutcomeTyping, Surroundings
  <2> QED BY <1>5, <2>1, BooksAlone DEF outcomeVars
<1> QED BY <1>1, <1>2, <1>3, <1>4, <1>5, ReadStep, ProcessKept DEF OutcomeNext

(* The inductive invariant holds in every reachable state.                 *)
THEOREM OutcomeInvariant == OutcomeSpec => []OutcomeInv
BY OutcomeInitInv, OutcomeNextInv, PTL DEF OutcomeSpec

(* OutcomeTypeOK: every variable of the metered path keeps its type, and a *)
(* definite charge is within the hold (handler.ts, metrics.ts).            *)
THEOREM OutcomeTypeCorrect == OutcomeSpec => []OutcomeTypeOK
<1>1. OutcomeInv => OutcomeTypeOK
  BY DEF OutcomeInv, OutcomeTyping, Surroundings, OutcomeTypeOK
<1> QED BY <1>1, OutcomeInvariant, PTL

(* Reconciled: the identity metrics.ts states of its counters, over the    *)
(* whole life of the process, for any requests, replies and flushes.       *)
THEOREM OutcomesReconcile == OutcomeSpec => []Reconciled
<1>1. OutcomeInv => Reconciled
  BY DEF OutcomeInv, Counted
<1> QED BY <1>1, OutcomeInvariant, PTL

(* OneChargePerHold: however often billActual is called for a request, and *)
(* whatever fails between, the ledger is asked for one charge, and the     *)
(* conflict it guards against does not occur.                              *)
THEOREM OutcomesChargeOnce == OutcomeSpec => []OneChargePerHold
<1>1. ASSUME OutcomeInv, NEW r \in Requests
      PROVE  /\ Cardinality(req[r].sent) <= 1
             /\ req[r].charge # NoCharge => req[r].sent = {req[r].charge}
             /\ req[r].stage # "conflict"
  <2>1. req[r] \in Request /\ SoundRequest(req[r])
    BY <1>1, RequestFacts
  <2>2. req[r].stage # "conflict" /\ req[r].stage \in Stages
    BY <2>1 DEF SoundRequest, Request
  <2>3. /\ req[r].sent = {} \/ \E charge : req[r].sent = {charge}
        /\ req[r].charge # NoCharge => req[r].sent = {req[r].charge}
    <3>1. CASE req[r].stage \in Gates \cup {"forwarded", "open", "thrown"}
      BY <2>1, <3>1 DEF SoundRequest, Untouched
    <3>2. CASE req[r].stage = "reading"
      BY <2>1, <3>2 DEF SoundRequest, Untouched, Charged
    <3>3. CASE req[r].stage \in {"billing", "retry"}
      BY <2>1, <3>3 DEF SoundRequest
    <3>4. CASE req[r].stage = "ended"
      BY <2>1, <3>4 DEF SoundRequest, Untouched
    <3>5. CASE req[r].stage = "unsettled"
      BY <2>1, <3>5 DEF SoundRequest
    <3> QED BY <2>2, <3>1, <3>2, <3>3, <3>4, <3>5 DEF Stages, Gates
  <2>4. Cardinality(req[r].sent) <= 1
    <3>1. CASE req[r].sent = {}
      BY <3>1, FS_EmptySet
    <3>2. CASE \E charge : req[r].sent = {charge}
      <4>1. PICK charge : req[r].sent = {charge}
        BY <3>2
      <4>2. Cardinality({charge}) = 1
        BY FS_Singleton
      <4> QED BY <4>1, <4>2
    <3> QED BY <2>3, <3>1, <3>2
  <2> QED BY <2>2, <2>3, <2>4
<1>2. OutcomeInv => OneChargePerHold
  BY <1>1 DEF OneChargePerHold
<1> QED BY <1>2, OutcomeInvariant, PTL

(* DenialsAreOurs: a client that reads 401 or 402 was counted at the       *)
(* proxy's own gate before anything was forwarded or charged for it, and   *)
(* what the upstream says of the operator's account is told to nobody, for *)
(* any requests, replies and balances (handler.ts, upstreamErrors.ts).     *)
THEOREM OutcomesDenials == OutcomeSpec => []DenialsAreOurs
<1>1. ASSUME OutcomeInv, NEW r \in Requests
      PROVE  /\ req[r].answer \in {401, 402} => req[r].sent = {}
             /\ OfOperator(req[r].reply) => req[r].answer \in {0, 500, 502, 503, 504}
  <2>1. req[r] \in Request /\ SoundRequest(req[r])
    BY <1>1, RequestFacts
  <2>2. \/ req[r].stage = "ended"
        \/ req[r].answer \in {0, 500}
    BY <2>1 DEF SoundRequest, Request, Stages, Gates, InFlight
  <2>3. CASE req[r].stage = "ended"
    BY <2>1, <2>3 DEF SoundRequest, Masked, Masks, Untouched, Denials
  <2>4. CASE req[r].answer \in {0, 500}
    BY <2>4
  <2> QED BY <2>2, <2>3, <2>4
<1>2. OutcomeInv => DenialsAreOurs
  BY <1>1 DEF DenialsAreOurs, OutcomeInv, Counted
<1> QED BY <1>2, OutcomeInvariant, PTL
=============================================================================
