------------------------------ MODULE Purchase ------------------------------
(***************************************************************************)
(* POST /buy (core/src/endpoints/buy.ts): the burst guard (core/src/       *)
(* ratelimit.ts), the cached, single-flight price fetch (core/src/rails/   *)
(* rate.ts), the in-memory reservation taken before the wallet mints an    *)
(* address, and the count-gated insert that claims the order (core/src/    *)
(* ledger/orders.ts).  Settlement says what becomes of the order.          *)
(*                                                                         *)
(* Rails share the cap and nothing else, so one rail stands for all.  The  *)
(* price itself is left out: a rate is known by its age, the time since    *)
(* its venue quoted it.                                                    *)
(***************************************************************************)
EXTENDS Integers, Sequences, FiniteSets, FiniteSetsExt

CONSTANTS
  Buyers,            \* requests, one per buyer
  Others,            \* orders of another instance on the same pending.db
  MaxOpen,           \* MAX_OPEN_ORDERS
  Capacity, Refill,  \* the bucket: its size, and what one unit of time adds
  Cost,              \* one token, in the units of the two above
  Sources,           \* how many price venues are tried
  CacheFor,          \* RATE_CACHE_MS
  Timeout,           \* RATE_TIMEOUT_MS, for each venue
  MaxTime,           \* bound: last value of the clock
  None

ASSUME PurchaseAssumption ==
  /\ MaxOpen \in Nat \ {0} /\ Capacity \in Nat /\ Refill \in Nat /\ Cost \in Nat \ {0}
  /\ Sources \in Nat \ {0} /\ CacheFor \in Nat /\ Timeout \in Nat /\ MaxTime \in Nat
  /\ Buyers \cap Others = {}
  /\ None \notin [source : Nat, since : Nat]

VARIABLES
  request,         \* buyer -> [step, age], the age of the rate it works with
  pendingCreates,  \* reservations of this process
  bucket,          \* [tokens, last]
  cached,          \* [quoted, at], or None
  inflight,        \* [source, since], the one fetch, or None
  pending_orders,  \* order -> age of its locked rate at created_at
  now,
  admitted,        \* history: when this process admitted a request
  shared           \* history: another instance has claimed an order

process == <<request, pendingCreates, bucket, cached, inflight, admitted>>
vars == <<process, pending_orders, now, shared>>

-----------------------------------------------------------------------------
Waiting == {"parsing", "rating", "rated", "creating"}
\* However it is denied: throttled, refused, shed, no rate, no wallet, or cut off.
Ended == {"denied", "orphaned", "answered"}

At(step) == {b \in Buyers : request[b].step = step}
\* The microtasks of a resolved rate run before any other event of the loop.
Settled == At("rated") = {}

openCount == Cardinality(DOMAIN pending_orders)
Full == openCount + pendingCreates >= MaxOpen
Goes(b, step) == request' = [request EXCEPT ![b] = [step |-> step, age |-> 0]]

NewBucket == [tokens |-> Capacity, last |-> now]

Init ==
  /\ request = [b \in Buyers |-> [step |-> "new", age |-> 0]]
  /\ pendingCreates = 0
  /\ now = 0 /\ bucket = NewBucket
  /\ cached = None /\ inflight = None
  /\ pending_orders = [o \in {} |-> 0]
  /\ admitted = <<>> /\ shared = FALSE

-----------------------------------------------------------------------------
(* The burst guard *)

\* Mutant: idle time is saved up beyond the capacity.
RefilledUncapped ==
  [tokens |-> bucket.tokens + (now - bucket.last) * Refill, last |-> now]

\* The lazy refill of tryConsume.
Refilled ==
  [tokens |-> Min({Capacity, bucket.tokens + (now - bucket.last) * Refill}), last |-> now]

Throttle(b) ==
  /\ Settled /\ request[b].step = "new" /\ Refilled.tokens < Cost
  /\ bucket' = Refilled /\ Goes(b, "denied")
  /\ UNCHANGED <<pendingCreates, cached, inflight, admitted, pending_orders, now, shared>>

Admit(b) ==
  /\ Settled /\ request[b].step = "new" /\ Refilled.tokens >= Cost
  /\ bucket' = [Refilled EXCEPT !.tokens = @ - Cost]
  /\ admitted' = Append(admitted, now) /\ Goes(b, "parsing")
  /\ UNCHANGED <<pendingCreates, cached, inflight, pending_orders, now, shared>>

\* A body that does not parse, or a hash, amount or rail that is refused.
Refuse(b) ==
  /\ Settled /\ request[b].step = "parsing" /\ Goes(b, "denied")
  /\ UNCHANGED <<pendingCreates, bucket, cached, inflight, admitted, pending_orders, now, shared>>

\* The open-order cap, at the pre-check or at the reservation.
Shed(b) ==
  /\ b \in At("rated") \cup At("parsing") /\ (Settled \/ b \in At("rated"))
  /\ Full /\ Goes(b, "denied")
  /\ UNCHANGED <<pendingCreates, bucket, cached, inflight, admitted, pending_orders, now, shared>>

-----------------------------------------------------------------------------
(* The price *)

Fresh == cached # None /\ now - cached.at < CacheFor

\* Mutant: a hit prolongs the life of the cached rate.
UseCachedSliding(b) ==
  /\ Settled /\ request[b].step = "parsing" /\ ~Full /\ Fresh
  /\ request' = [request EXCEPT ![b] = [step |-> "rated", age |-> now - cached.quoted]]
  /\ cached' = [cached EXCEPT !.at = now]
  /\ UNCHANGED <<pendingCreates, bucket, inflight, admitted, pending_orders, now, shared>>

UseCached(b) ==
  /\ Settled /\ request[b].step = "parsing" /\ ~Full /\ Fresh
  /\ request' = [request EXCEPT ![b] = [step |-> "rated", age |-> now - cached.quoted]]
  /\ UNCHANGED <<pendingCreates, bucket, cached, inflight, admitted, pending_orders, now, shared>>

\* Start the fetch, or join the one in flight.
AwaitRate(b) ==
  /\ Settled /\ request[b].step = "parsing" /\ ~Full /\ ~Fresh /\ Goes(b, "rating")
  /\ inflight' = IF inflight = None THEN [source |-> 1, since |-> now] ELSE inflight
  /\ UNCHANGED <<pendingCreates, bucket, cached, admitted, pending_orders, now, shared>>

\* Everyone who waits gets the rate; the cache window opens now, not when the
\* venue quoted.
SourceAnswers(quoted) ==
  /\ Settled /\ inflight # None /\ quoted >= inflight.since /\ quoted <= now
  /\ cached' = [quoted |-> quoted, at |-> now] /\ inflight' = None
  /\ request' = [b \in Buyers |->
                   IF b \in At("rating")
                   THEN [step |-> "rated", age |-> now - quoted] ELSE request[b]]
  /\ UNCHANGED <<pendingCreates, bucket, admitted, pending_orders, now, shared>>

\* Mutant: the sources are tried in a circle.
SourceFailsOver ==
  /\ Settled /\ inflight # None
  /\ inflight' = [source |-> 1 + (inflight.source % Sources), since |-> now]
  /\ UNCHANGED <<request, pendingCreates, bucket, cached, admitted, pending_orders, now, shared>>

\* A timeout, an HTTP error, a rate that does not parse or is out of band: the
\* next source is asked.  The last failure goes to everyone who waits and
\* leaves nothing behind.
SourceFails ==
  /\ Settled /\ inflight # None
  /\ IF inflight.source < Sources
     THEN /\ inflight' = [source |-> inflight.source + 1, since |-> now]
          /\ UNCHANGED request
     ELSE /\ inflight' = None
          /\ request' = [b \in Buyers |-> IF b \in At("rating")
                                          THEN [step |-> "denied", age |-> 0] ELSE request[b]]
  /\ UNCHANGED <<pendingCreates, bucket, cached, admitted, pending_orders, now, shared>>

-----------------------------------------------------------------------------
(* The reservation, the address and the claim *)

\* created_at is taken here, in the same turn of the loop as the rate.
\* Mutant: the pre-check is the only check.
ReserveUnchecked(b) ==
  /\ request[b].step = "rated"
  /\ request' = [request EXCEPT ![b].step = "creating"]
  /\ pendingCreates' = pendingCreates + 1
  /\ UNCHANGED <<bucket, cached, inflight, admitted, pending_orders, now, shared>>

Reserve(b) ==
  /\ request[b].step = "rated" /\ ~Full
  /\ request' = [request EXCEPT ![b].step = "creating"]
  /\ pendingCreates' = pendingCreates + 1
  /\ UNCHANGED <<bucket, cached, inflight, admitted, pending_orders, now, shared>>

\* Mutant: the slot is released by the claim only.
MintFailsKeepsSlot(b) ==
  /\ Settled /\ request[b].step = "creating" /\ Goes(b, "denied")
  /\ UNCHANGED <<pendingCreates, bucket, cached, inflight, admitted, pending_orders, now, shared>>

MintFails(b) ==
  /\ Settled /\ request[b].step = "creating" /\ Goes(b, "denied")
  /\ pendingCreates' = pendingCreates - 1
  /\ UNCHANGED <<bucket, cached, inflight, admitted, pending_orders, now, shared>>

\* Mutant: the insert trusts the reservation.
tryAddOrderUngated(order, age) ==
  pending_orders' = [o \in DOMAIN pending_orders \cup {order} |->
                       IF o = order THEN age ELSE pending_orders[o]]

\* The insert counts the rows in its own statement.
tryAddOrder(order, age) ==
  IF openCount < MaxOpen
  THEN pending_orders' = [o \in DOMAIN pending_orders \cup {order} |->
                            IF o = order THEN age ELSE pending_orders[o]]
  ELSE UNCHANGED pending_orders

\* The address exists: claim the order with it, and free the slot either way.
Claim(b) ==
  /\ Settled /\ request[b].step = "creating"
  /\ tryAddOrder(b, request[b].age)
  /\ Goes(b, IF b \in DOMAIN pending_orders' THEN "answered" ELSE "orphaned")
  /\ pendingCreates' = pendingCreates - 1
  /\ UNCHANGED <<bucket, cached, inflight, admitted, now, shared>>

-----------------------------------------------------------------------------
(* Around the handler *)

\* settle() credits or reaps an order.
Close(order) ==
  /\ Settled /\ order \in DOMAIN pending_orders
  /\ pending_orders' = [o \in DOMAIN pending_orders \ {order} |-> pending_orders[o]]
  /\ UNCHANGED <<process, now, shared>>

\* Another instance, whose reservations this one cannot see.
OtherClaims(order) ==
  /\ order \notin DOMAIN pending_orders
  /\ tryAddOrder(order, 0)
  /\ shared' = TRUE
  /\ UNCHANGED <<process, now>>

\* The process dies and starts again.
Restart ==
  /\ request' = [b \in Buyers |-> IF request[b].step \in Waiting
                                  THEN [step |-> "denied", age |-> 0] ELSE request[b]]
  /\ pendingCreates' = 0 /\ bucket' = NewBucket /\ admitted' = <<>>
  /\ cached' = None /\ inflight' = None
  /\ UNCHANGED <<pending_orders, now, shared>>

\* The abort timer of a fetch fires before the clock moves past it.
Pass ==
  /\ Settled /\ now < MaxTime /\ now' = now + 1
  /\ inflight # None => now < inflight.since + Timeout
  /\ UNCHANGED <<process, pending_orders, shared>>

-----------------------------------------------------------------------------
Next ==
  \/ Pass \/ Restart \/ SourceFails
  \/ \E quoted \in 0 .. MaxTime : SourceAnswers(quoted)
  \/ \E b \in Buyers :
       \/ Throttle(b) \/ Admit(b) \/ Refuse(b) \/ Shed(b) \/ UseCached(b)
       \/ AwaitRate(b) \/ Reserve(b) \/ MintFails(b) \/ Claim(b)
  \/ \E order \in Buyers \cup Others : Close(order)
  \/ \E order \in Others : OtherClaims(order)

Spec == Init /\ [][Next]_vars

\* A venue and a wallet answer or are aborted by their timers, and a request
\* that has its rate runs on.
Fairness ==
  /\ WF_vars(SourceFails)
  /\ \A b \in Buyers :
       /\ WF_vars(Reserve(b) \/ Shed(b))
       /\ WF_vars(MintFails(b) \/ Claim(b))

FairSpec == Spec /\ Fairness

-----------------------------------------------------------------------------
(* Types; every reservation belongs to a request that creates, so no exit  *)
(* path leaks a slot or returns one twice.                                 *)
TypeOK ==
  /\ \A b \in Buyers : request[b].step \in {"new"} \cup Waiting \cup Ended
  /\ pendingCreates = Cardinality(At("creating"))
  /\ bucket.tokens \in 0 .. Capacity /\ bucket.last \in 0 .. now
  /\ cached # None => cached.quoted <= cached.at /\ cached.at <= now
  /\ inflight # None => inflight.source \in 1 .. Sources /\ inflight.since <= now
  /\ inflight = None => At("rating") = {}

(* MAX_OPEN_ORDERS caps the open orders of everyone on pending.db, also    *)
(* of an instance that does not see this one's reservations.               *)
OpenOrdersCapped == openCount <= MaxOpen

(* buy.ts: the reservation sheds the loser of a race before it mints: on a *)
(* pending.db of one's own no claim is refused for an address that exists. *)
(* (A crash between the two leaves such an address too; nobody was told of *)
(* it, because the answer comes after the claim.)                          *)
NoOrphans == shared \/ At("orphaned") = {}

(* The bucket bounds every window, not only the first: what one process    *)
(* admits between two of its admissions is one burst and the refill.       *)
AdmissionBounded ==
  \A i, j \in DOMAIN admitted :
    i <= j => (j - i + 1) * Cost <= Capacity + (admitted[j] - admitted[i]) * Refill

(* No order is priced at a rate its venue quoted longer ago than one fetch *)
(* may take and the cache may keep it, whoever fetched it.                 *)
RateIsFresh ==
  \A order \in DOMAIN pending_orders :
    pending_orders[order] <= Timeout \/ pending_orders[order] < Timeout + CacheFor

(* Everyone who waits for a rate or a wallet is answered, also those who   *)
(* joined a fetch that failed at every source.                             *)
BuysAnswered ==
  \A b \in Buyers : request[b].step \in Waiting \ {"parsing"} ~> request[b].step \in Ended
=============================================================================
