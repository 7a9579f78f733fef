--------------------------- MODULE PurchaseProofs ---------------------------
(***************************************************************************)
(* Proofs about the two ends of a purchase.  POST /buy (Purchase), for any *)
(* number of buyers, slots, venues and any timeouts: the cap, the          *)
(* reservation and the age of a quoted rate.  The tab that asks for a      *)
(* quote, pays and waits (KeyFlow), for any keys, openings and number of   *)
(* orders: what its parts promise each other over late answers.  The two   *)
(* share no state; the tab's specification has its names prefixed by Tab.  *)
(***************************************************************************)
EXTENDS Purchase, KeyFlow, FiniteSetTheorems, TLAPS

-----------------------------------------------------------------------------
(* The inductive invariant, in parts.  NoOrphans needs Room: rows and      *)
(* reservations together stay under the cap, which in turn needs the       *)
(* counter to be exact (Slots).  RateIsFresh needs the ages of the rates   *)
(* that are still on their way into a row (Ages).                          *)
Steps == {"new"} \cup Waiting \cup Ended

Typing ==
  /\ now \in Nat
  /\ request \in [Buyers -> [step : Steps, age : Int]]
  /\ bucket \in [tokens : 0 .. Capacity, last : 0 .. now]
  /\ cached # None => /\ cached \in [quoted : Nat, at : Nat]
                      /\ cached.quoted <= cached.at /\ cached.at <= now
  /\ inflight # None => /\ inflight \in [source : 1 .. Sources, since : Nat]
                        /\ inflight.since <= now

Slots == IsFiniteSet(At("creating")) /\ pendingCreates = Cardinality(At("creating"))

Room ==
  /\ IsFiniteSet(DOMAIN pending_orders) /\ openCount <= MaxOpen
  /\ shared \/ (openCount + pendingCreates <= MaxOpen /\ At("orphaned") = {})

Waiters == inflight = None => At("rating") = {}

Usable(age) == age <= Timeout \/ age < Timeout + CacheFor

Ages ==
  /\ cached # None => cached.at - cached.quoted <= Timeout
  /\ inflight # None => now - inflight.since <= Timeout
  /\ \A b \in At("rated") \cup At("creating") : Usable(request[b].age)
  /\ \A order \in DOMAIN pending_orders : Usable(pending_orders[order])

IInv == Typing /\ Slots /\ Room /\ Waiters /\ Ages

-----------------------------------------------------------------------------
(* The steps that only end a request, and those that move it before its    *)
(* reservation.                                                            *)
Denies(b) == Throttle(b) \/ Refuse(b) \/ Shed(b)
Moves(b) == Admit(b) \/ UseCached(b) \/ AwaitRate(b)

(* A refill never leaves the bucket's bounds.                              *)
LEMMA RefillBounded ==
  ASSUME Typing
  PROVE  Refilled \in [tokens : 0 .. Capacity, last : 0 .. now] /\ Refilled.last = now
<1> DEFINE gain == (now - bucket.last) * Refill
           total == bucket.tokens + gain
<1>1. /\ bucket.tokens \in 0 .. Capacity /\ bucket.last \in 0 .. now
      /\ now \in Nat /\ Capacity \in Nat /\ Refill \in Nat
  BY PurchaseAssumption DEF Typing
<1>2. now - bucket.last \in Nat
  BY <1>1
<1>3. \A m, n \in Nat : m * n \in Nat
  OBVIOUS
<1>4. gain \in Nat
  BY <1>1, <1>2, <1>3
<1> HIDE DEF gain
<1>5. total \in Nat
  BY <1>1, <1>4
<1> HIDE DEF total
<1>6. Min({Capacity, total}) \in {Capacity, total} /\ Min({Capacity, total}) <= Capacity
  <2>1. \E x \in {Capacity, total} : \A y \in {Capacity, total} : x =< y
    BY <1>1, <1>5
  <2>2. /\ Min({Capacity, total}) \in {Capacity, total}
        /\ \A y \in {Capacity, total} : Min({Capacity, total}) =< y
    BY <2>1 DEF Min
  <2> QED BY <2>2
<1>7. Refilled = [tokens |-> Min({Capacity, total}), last |-> now]
  BY DEF Refilled, total, gain
<1> QED BY <1>1, <1>5, <1>6, <1>7

(* Moving one request moves it in or out of the sets of those at a step.   *)
LEMMA AtMoves ==
  ASSUME Typing, NEW b \in Buyers, NEW r \in [step : Steps, age : Int],
         request' = [request EXCEPT ![b] = r], NEW step
  PROVE  At(step)' = IF r.step = step THEN At(step) \cup {b} ELSE At(step) \ {b}
BY DEF Typing, At

-----------------------------------------------------------------------------
LEMMA InitIInv == Init => IInv
<1> SUFFICES ASSUME Init PROVE IInv
  OBVIOUS
<1>1. \A step : step # "new" => At(step) = {}
  BY DEF Init, At
<1>2. DOMAIN pending_orders = {}
  BY DEF Init
<1>3. Typing
  BY PurchaseAssumption DEF Init, Typing, NewBucket, Steps
<1>4. Slots /\ Waiters /\ Ages
  BY <1>1, <1>2, FS_EmptySet DEF Slots, Waiters, Ages, Init
<1>5. Room
  BY <1>1, <1>2, FS_EmptySet, PurchaseAssumption DEF Room, openCount, Init
<1> QED BY <1>3, <1>4, <1>5 DEF IInv

(* A request that is throttled, refused or shed gives nothing back because  *)
(* it held nothing.                                                         *)
LEMMA DeniesIInv ==
  ASSUME IInv, NEW b \in Buyers, Denies(b)
  PROVE  IInv'
<1> DEFINE r == [step |-> "denied", age |-> 0]
<1>1. /\ request' = [request EXCEPT ![b] = r] /\ r \in [step : Steps, age : Int]
      /\ request[b].step \in {"new", "parsing", "rated"}
      /\ UNCHANGED <<pendingCreates, cached, inflight, pending_orders, now, shared>>
      /\ bucket' = bucket \/ bucket' = Refilled
  BY DEF Denies, Throttle, Refuse, Shed, Goes, At, Steps, Ended
<1>2. /\ At("creating")' = At("creating") /\ At("rated")' \subseteq At("rated")
      /\ At("orphaned")' = At("orphaned") /\ At("rating")' = At("rating")
      /\ \A c \in Buyers \ {b} : request'[c] = request[c]
      /\ b \notin At("rated")' \cup At("creating")'
  BY <1>1 DEF IInv, Typing, At
<1>3. Typing'
  BY <1>1, RefillBounded DEF IInv, Typing
<1>4. Slots' /\ Waiters'
  BY <1>1, <1>2 DEF IInv, Slots, Waiters
<1>5. Room'
  BY <1>1, <1>2 DEF IInv, Room, openCount
<1>6. Ages'
  BY <1>1, <1>2 DEF IInv, Ages, Usable, At
<1> QED BY <1>3, <1>4, <1>5, <1>6 DEF IInv

(* Up to its reservation a request holds no slot; the rate a cache hit      *)
(* gives it is younger than one fetch and the cache window.                 *)
LEMMA MovesIInv ==
  ASSUME IInv, NEW b \in Buyers, Moves(b)
  PROVE  IInv'
<1>1. PICK r \in [step : {"parsing", "rating", "rated"}, age : Int] :
        request' = [request EXCEPT ![b] = r]
  BY PurchaseAssumption
     DEF Moves, Admit, UseCached, AwaitRate, Goes, IInv, Typing, Fresh
<1>2. /\ request[b].step \in {"new", "parsing"}
      /\ UNCHANGED <<pendingCreates, cached, pending_orders, now, shared>>
  BY DEF Moves, Admit, UseCached, AwaitRate
<1>3. /\ r \in [step : Steps, age : Int]
      /\ At("creating")' = At("creating") /\ At("orphaned")' = At("orphaned")
      /\ At("rated")' \subseteq At("rated") \cup {b}
      /\ \A c \in Buyers \ {b} : request'[c] = request[c]
      /\ request'[b] = r
  BY <1>1, <1>2 DEF IInv, Typing, At, Steps, Waiting
<1>4. bucket' \in [tokens : 0 .. Capacity, last : 0 .. now]
  <2>1. CASE Admit(b)
    BY <2>1, RefillBounded, PurchaseAssumption DEF Admit, IInv
  <2> QED BY <2>1 DEF Moves, UseCached, AwaitRate, IInv, Typing
<1>5. /\ inflight' # None => /\ inflight' \in [source : 1 .. Sources, since : Nat]
                             /\ inflight'.since <= now /\ now - inflight'.since <= Timeout
      /\ Waiters'
  <2>1. CASE AwaitRate(b)
    <3>1. [source |-> 1, since |-> now] \in [source : 1 .. Sources, since : Nat]
      BY PurchaseAssumption DEF IInv, Typing
    <3>2. inflight' # None
      BY <2>1, <3>1, PurchaseAssumption DEF AwaitRate
    <3> QED BY <2>1, <3>1, <3>2, PurchaseAssumption DEF AwaitRate, IInv, Typing, Ages, Waiters
  <2>2. CASE Admit(b) \/ UseCached(b)
    <3>1. inflight' = inflight /\ request'[b].step \in {"parsing", "rated"}
      BY <2>2 DEF Admit, UseCached, Goes, IInv, Typing
    <3>2. At("rating")' = At("rating")
      BY <1>2, <1>3, <3>1 DEF At
    <3> QED BY <1>2, <3>1, <3>2 DEF IInv, Typing, Ages, Waiters
  <2> QED BY <2>1, <2>2 DEF Moves
<1>6. Typing'
  BY <1>1, <1>2, <1>3, <1>4, <1>5 DEF IInv, Typing
<1>7. Slots'
  BY <1>2, <1>3 DEF IInv, Slots
<1>8. Room'
  BY <1>2, <1>3 DEF IInv, Room, openCount
<1>9. Ages'
  <2>1. ASSUME r.step = "rated" PROVE Usable(r.age)
    <3>1. UseCached(b)
      BY <1>3, <2>1 DEF Moves, Admit, AwaitRate, Goes, IInv, Typing
    <3>2. r.age = now - cached.quoted
      BY <1>3, <3>1 DEF UseCached, IInv, Typing
    <3> QED BY <3>1, <3>2, PurchaseAssumption DEF UseCached, Fresh, Usable, IInv, Typing, Ages
  <2>2. \A c \in At("rated")' \cup At("creating")' : Usable(request'[c].age)
    BY <1>1, <1>3, <2>1 DEF IInv, Ages, At
  <2> QED BY <1>2, <1>5, <2>2 DEF IInv, Ages, Usable
<1> QED BY <1>5, <1>6, <1>7, <1>8, <1>9 DEF IInv

(* Everyone who waited gets a rate no older than one fetch.                 *)
LEMMA SourceAnswersIInv ==
  ASSUME IInv, NEW quoted \in Nat, SourceAnswers(quoted)
  PROVE  IInv'
<1>1. /\ inflight \in [source : 1 .. Sources, since : Nat] /\ now \in Nat
      /\ quoted >= inflight.since /\ quoted <= now /\ now - inflight.since <= Timeout
      /\ UNCHANGED <<pendingCreates, bucket, pending_orders, now, shared>>
  BY DEF SourceAnswers, IInv, Typing, Ages
<1>2. now - quoted \in Int /\ now - quoted <= Timeout
  BY <1>1, PurchaseAssumption
<1>3. /\ At("creating")' = At("creating") /\ At("orphaned")' = At("orphaned")
      /\ At("rating")' = {} /\ At("rated")' = At("rating")
      /\ \A b \in At("rating") : request'[b].age = now - quoted
      /\ \A b \in At("creating") : request'[b] = request[b]
  BY DEF SourceAnswers, Settled, At, IInv, Typing
<1>4. request' \in [Buyers -> [step : Steps, age : Int]]
  BY <1>2 DEF SourceAnswers, IInv, Typing, Steps, Waiting
<1>5. /\ cached' = [quoted |-> quoted, at |-> now] /\ inflight' = None
      /\ cached'.quoted = quoted /\ cached'.at = now
  BY DEF SourceAnswers
<1>6. Typing'
  BY <1>1, <1>4, <1>5 DEF IInv, Typing
<1>7. Slots' /\ Waiters'
  BY <1>1, <1>3 DEF IInv, Slots, Waiters
<1>8. Room'
  BY <1>1, <1>3 DEF IInv, Room, openCount
<1>9. Ages'
  BY <1>1, <1>2, <1>3, <1>5 DEF IInv, Ages, Usable
<1> QED BY <1>6, <1>7, <1>8, <1>9 DEF IInv

(* A failing source passes the wait on, or ends it for everyone.            *)
LEMMA SourceFailsIInv ==
  ASSUME IInv, SourceFails
  PROVE  IInv'
<1>1. /\ inflight \in [source : 1 .. Sources, since : Nat] /\ now \in Nat
      /\ UNCHANGED <<pendingCreates, bucket, cached, pending_orders, now, shared>>
  BY DEF SourceFails, IInv, Typing
<1>2. CASE inflight.source < Sources
  <2> DEFINE next == [source |-> inflight.source + 1, since |-> now]
  <2>1. inflight' = next /\ request' = request
    BY <1>2 DEF SourceFails
  <2>2. next \in [source : 1 .. Sources, since : Nat] /\ next.since = now
    BY <1>1, <1>2, PurchaseAssumption
  <2>3. next # None
    BY <2>2, PurchaseAssumption
  <2>4. \A step : At(step)' = At(step)
    BY <2>1 DEF At
  <2> HIDE DEF next
  <2>5. Typing'
    BY <1>1, <2>1, <2>2 DEF IInv, Typing
  <2>6. Slots' /\ Waiters'
    BY <1>1, <2>1, <2>3, <2>4 DEF IInv, Slots, Waiters
  <2>7. Room'
    BY <1>1, <2>4 DEF IInv, Room, openCount
  <2>8. Ages'
    BY <1>1, <2>1, <2>2, <2>4, PurchaseAssumption DEF IInv, Ages, Usable
  <2> QED BY <2>5, <2>6, <2>7, <2>8 DEF IInv
<1>3. CASE ~(inflight.source < Sources)
  <2>1. /\ inflight' = None /\ request' \in [Buyers -> [step : Steps, age : Int]]
        /\ \A b \in Buyers : IF b \in At("rating") THEN request'[b].step = "denied"
                             ELSE request'[b] = request[b]
    BY <1>3 DEF SourceFails, IInv, Typing, Steps, Ended
  <2>2. /\ At("creating")' = At("creating") /\ At("orphaned")' = At("orphaned")
        /\ At("rating")' = {} /\ At("rated")' = At("rated")
    BY <2>1 DEF At
  <2>3. Typing'
    BY <1>1, <2>1 DEF IInv, Typing
  <2>4. Slots' /\ Waiters'
    BY <1>1, <2>2 DEF IInv, Slots, Waiters
  <2>5. Room'
    BY <1>1, <2>2 DEF IInv, Room, openCount
  <2>6. Ages'
    BY <1>1, <2>1, <2>2 DEF IInv, Ages, Usable, At
  <2> QED BY <2>3, <2>4, <2>5, <2>6 DEF IInv
<1> QED BY <1>2, <1>3

(* A reservation is made where there is room for it.                        *)
LEMMA ReserveIInv ==
  ASSUME IInv, NEW b \in Buyers, Reserve(b)
  PROVE  IInv'
<1> DEFINE r == [request[b] EXCEPT !.step = "creating"]
<1>1. /\ request' = [request EXCEPT ![b] = r] /\ r \in [step : Steps, age : Int]
      /\ r.step = "creating" /\ r.age = request[b].age
      /\ request[b].step = "rated" /\ ~Full /\ pendingCreates' = pendingCreates + 1
      /\ UNCHANGED <<bucket, cached, inflight, pending_orders, now, shared>>
  BY DEF Reserve, IInv, Typing, Steps, Waiting
<1> HIDE DEF r
<1>2. /\ At("creating")' = At("creating") \cup {b} /\ b \notin At("creating")
      /\ At("rated")' = At("rated") \ {b} /\ b \in At("rated")
      /\ At("orphaned")' = At("orphaned") /\ At("rating")' = At("rating")
      /\ request'[b] = r /\ \A c \in Buyers \ {b} : request'[c] = request[c]
  BY <1>1 DEF IInv, Typing, At
<1>3. Slots'
  BY <1>1, <1>2, FS_AddElement DEF IInv, Slots
<1>4. Room'
  <2>1. openCount \in Nat /\ pendingCreates \in Nat
    BY FS_CardinalityType DEF IInv, Room, Slots, openCount
  <2>2. openCount' = openCount
    BY <1>1 DEF openCount
  <2> QED BY <1>1, <1>2, <2>1, <2>2, PurchaseAssumption DEF IInv, Room, Full
<1>5. Typing' /\ Waiters'
  BY <1>1, <1>2 DEF IInv, Typing, Waiters
<1>6. Ages'
  BY <1>1, <1>2 DEF IInv, Ages, Usable, At
<1> QED BY <1>3, <1>4, <1>5, <1>6 DEF IInv

(* What leaves "creating" returns its slot, whatever becomes of it.         *)
LEMMA Releases ==
  ASSUME IInv, NEW b \in At("creating"), NEW step \in {"denied", "answered", "orphaned"},
         Goes(b, step), pendingCreates' = pendingCreates - 1,
         UNCHANGED <<bucket, cached, inflight, now>>
  PROVE  /\ Typing' /\ Slots' /\ Waiters' /\ pendingCreates \in Nat /\ pendingCreates >= 1
         /\ At("rated")' \cup At("creating")' \subseteq At("rated") \cup At("creating")
         /\ \A c \in At("rated")' \cup At("creating")' : request'[c] = request[c]
         /\ At("orphaned")' = IF step = "orphaned" THEN At("orphaned") \cup {b} ELSE At("orphaned")
<1> DEFINE r == [step |-> step, age |-> 0]
<1>1. /\ b \in Buyers /\ request[b].step = "creating" /\ request' = [request EXCEPT ![b] = r]
      /\ r \in [step : Steps, age : Int] /\ r.step = step
  BY DEF At, Goes, Steps, Ended
<1> HIDE DEF r
<1>2. /\ At("creating")' = At("creating") \ {b} /\ At("rated")' = At("rated")
      /\ At("rating")' = At("rating")
      /\ At("orphaned")' = IF step = "orphaned" THEN At("orphaned") \cup {b} ELSE At("orphaned")
      /\ \A c \in Buyers \ {b} : request'[c] = request[c]
  BY <1>1 DEF IInv, Typing, At
<1>3. Slots' /\ pendingCreates \in Nat /\ pendingCreates >= 1
  <2>1. IsFiniteSet(At("creating")) /\ pendingCreates = Cardinality(At("creating"))
    BY DEF IInv, Slots
  <2>2. pendingCreates \in Nat /\ pendingCreates # 0
    BY <2>1, FS_CardinalityType, FS_EmptySet
  <2> QED BY <1>2, <2>1, <2>2, FS_RemoveElement DEF Slots
<1>4. Typing'
  BY <1>1 DEF IInv, Typing
<1>5. Waiters'
  BY <1>2 DEF IInv, Waiters
<1> QED BY <1>2, <1>3, <1>4, <1>5 DEF At

LEMMA MintFailsIInv ==
  ASSUME IInv, NEW b \in Buyers, MintFails(b)
  PROVE  IInv'
<1>1. /\ b \in At("creating") /\ Goes(b, "denied") /\ pendingCreates' = pendingCreates - 1
      /\ UNCHANGED <<bucket, cached, inflight, pending_orders, now, shared>>
  BY DEF MintFails, At
<1>2. /\ Typing' /\ Slots' /\ Waiters' /\ pendingCreates \in Nat
      /\ At("rated")' \cup At("creating")' \subseteq At("rated") \cup At("creating")
      /\ \A c \in At("rated")' \cup At("creating")' : request'[c] = request[c]
      /\ At("orphaned")' = At("orphaned")
  BY <1>1, Releases
<1>3. Room'
  <2>1. openCount \in Nat /\ openCount' = openCount
    BY <1>1, FS_CardinalityType DEF IInv, Room, openCount
  <2> QED BY <1>1, <1>2, <2>1, PurchaseAssumption DEF IInv, Room
<1>4. Ages'
  BY <1>1, <1>2 DEF IInv, Ages, Usable
<1> QED BY <1>2, <1>3, <1>4 DEF IInv

(* The gated insert keeps the table finite, capped and usably priced, and   *)
(* lands whenever there is room.                                            *)
LEMMA InsertBounded ==
  ASSUME IInv, NEW order, NEW age, Usable(age), tryAddOrder(order, age)
  PROVE  /\ IsFiniteSet(DOMAIN pending_orders') /\ openCount \in Nat /\ openCount' \in Nat
         /\ openCount' <= MaxOpen /\ openCount' <= openCount + 1
         /\ openCount < MaxOpen => order \in DOMAIN pending_orders'
         /\ \A o \in DOMAIN pending_orders' : Usable(pending_orders'[o])
<1>1. /\ IsFiniteSet(DOMAIN pending_orders) /\ openCount \in Nat /\ openCount <= MaxOpen
      /\ \A o \in DOMAIN pending_orders : Usable(pending_orders[o])
  BY FS_CardinalityType DEF IInv, Room, Ages, openCount
<1>2. CASE openCount < MaxOpen
  <2>1. /\ DOMAIN pending_orders' = DOMAIN pending_orders \cup {order}
        /\ \A o \in DOMAIN pending_orders' :
             pending_orders'[o] = IF o = order THEN age ELSE pending_orders[o]
    BY <1>2 DEF tryAddOrder
  <2>2. /\ IsFiniteSet(DOMAIN pending_orders')
        /\ openCount' = openCount \/ openCount' = openCount + 1
    BY <1>1, <2>1, FS_AddElement DEF openCount
  <2>3. \A o \in DOMAIN pending_orders' : Usable(pending_orders'[o])
    BY <1>1, <2>1
  <2> QED BY <1>1, <1>2, <2>1, <2>2, <2>3, PurchaseAssumption
<1>3. CASE ~(openCount < MaxOpen)
  <2>1. pending_orders' = pending_orders
    BY <1>3 DEF tryAddOrder
  <2>2. openCount' = openCount
    BY <2>1 DEF openCount
  <2> QED BY <1>1, <1>3, <2>1, <2>2
<1> QED BY <1>2, <1>3

(* On a table of one's own the reservation is the room the claim needs.     *)
LEMMA ClaimIInv ==
  ASSUME IInv, NEW b \in Buyers, Claim(b)
  PROVE  IInv'
<1> DEFINE step == IF b \in DOMAIN pending_orders' THEN "answered" ELSE "orphaned"
<1>1. /\ b \in At("creating") /\ Goes(b, step) /\ pendingCreates' = pendingCreates - 1
      /\ tryAddOrder(b, request[b].age)
      /\ UNCHANGED <<bucket, cached, inflight, now, shared>>
  BY DEF Claim, At
<1>2. step \in {"denied", "answered", "orphaned"}
  OBVIOUS
<1> HIDE DEF step
<1>3. /\ Typing' /\ Slots' /\ Waiters' /\ pendingCreates \in Nat /\ pendingCreates >= 1
      /\ At("rated")' \cup At("creating")' \subseteq At("rated") \cup At("creating")
      /\ \A c \in At("rated")' \cup At("creating")' : request'[c] = request[c]
      /\ At("orphaned")' = IF step = "orphaned" THEN At("orphaned") \cup {b} ELSE At("orphaned")
  BY <1>1, <1>2, Releases
<1>4. Usable(request[b].age)
  BY <1>1 DEF IInv, Ages
<1>5. /\ IsFiniteSet(DOMAIN pending_orders') /\ openCount \in Nat /\ openCount' \in Nat
      /\ openCount' <= MaxOpen /\ openCount' <= openCount + 1
      /\ openCount < MaxOpen => b \in DOMAIN pending_orders'
      /\ \A o \in DOMAIN pending_orders' : Usable(pending_orders'[o])
  BY <1>1, <1>4, InsertBounded
<1>6. shared' \/ (openCount' + pendingCreates' <= MaxOpen /\ At("orphaned")' = {})
  <2>1. CASE shared
    BY <1>1, <2>1
  <2>2. CASE ~shared
    <3>1. openCount + pendingCreates <= MaxOpen /\ At("orphaned") = {}
      BY <2>2 DEF IInv, Room
    <3>2. step = "answered"
      BY <1>3, <1>5, <3>1, PurchaseAssumption DEF step
    <3>3. At("orphaned")' = {}
      BY <1>3, <3>1, <3>2
    <3>4. openCount' + pendingCreates' <= MaxOpen
      <4>1. /\ openCount \in Nat /\ openCount' \in Nat /\ pendingCreates \in Nat
            /\ MaxOpen \in Nat
        BY <1>3, <1>5, PurchaseAssumption
      <4>2. pendingCreates' = pendingCreates - 1 /\ openCount' <= openCount + 1
        BY <1>1, <1>5
      <4>3. openCount + pendingCreates <= MaxOpen
        BY <3>1
      <4> QED BY <4>1, <4>2, <4>3 DEF openCount
    <3> QED BY <3>3, <3>4
  <2> QED BY <2>1, <2>2
<1>7. Room'
  BY <1>5, <1>6 DEF Room
<1>8. Ages'
  <2>1. \A c \in At("rated")' \cup At("creating")' : Usable(request'[c].age)
    BY <1>3 DEF IInv, Ages
  <2>2. /\ cached' # None => cached'.at - cached'.quoted <= Timeout
        /\ inflight' # None => now' - inflight'.since <= Timeout
    BY <1>1 DEF IInv, Ages
  <2> QED BY <1>5, <2>1, <2>2 DEF Ages, Usable
<1> QED BY <1>3, <1>7, <1>8 DEF IInv

(* Closed orders make room.                                                 *)
LEMMA CloseIInv ==
  ASSUME IInv, NEW order, Close(order)
  PROVE  IInv'
<1>1. /\ DOMAIN pending_orders' = DOMAIN pending_orders \ {order}
      /\ order \in DOMAIN pending_orders
      /\ \A o \in DOMAIN pending_orders' : pending_orders'[o] = pending_orders[o]
      /\ UNCHANGED <<process, now, shared>>
  BY DEF Close
<1>2. \A step : At(step)' = At(step)
  BY <1>1 DEF At, process
<1>3. Typing' /\ Slots' /\ Waiters'
  BY <1>1, <1>2 DEF IInv, Typing, Slots, Waiters, process
<1>4. Room'
  <2>1. IsFiniteSet(DOMAIN pending_orders) /\ openCount \in Nat
    BY FS_CardinalityType DEF IInv, Room, openCount
  <2>2. /\ IsFiniteSet(DOMAIN pending_orders') /\ openCount' \in Nat
        /\ openCount' = openCount - 1
    BY <1>1, <2>1, FS_RemoveElement, FS_CardinalityType DEF openCount
  <2>3. pendingCreates' = pendingCreates /\ pendingCreates \in Nat
    BY <1>1, FS_CardinalityType DEF process, IInv, Slots
  <2> QED BY <1>1, <1>2, <2>1, <2>2, <2>3, PurchaseAssumption DEF IInv, Room
<1>5. Ages'
  BY <1>1, <1>2 DEF IInv, Ages, Usable, process
<1> QED BY <1>3, <1>4, <1>5 DEF IInv

(* Another instance meets the gate of the insert and nothing else.          *)
LEMMA OtherClaimsIInv ==
  ASSUME IInv, NEW order, OtherClaims(order)
  PROVE  IInv'
<1>1. tryAddOrder(order, 0) /\ shared' = TRUE /\ UNCHANGED <<process, now>>
  BY DEF OtherClaims
<1>2. Usable(0)
  BY PurchaseAssumption DEF Usable
<1>3. /\ IsFiniteSet(DOMAIN pending_orders') /\ openCount' <= MaxOpen
      /\ \A o \in DOMAIN pending_orders' : Usable(pending_orders'[o])
  BY <1>1, <1>2, InsertBounded
<1>4. \A step : At(step)' = At(step)
  BY <1>1 DEF At, process
<1>5. Typing' /\ Slots' /\ Waiters'
  BY <1>1, <1>4 DEF IInv, Typing, Slots, Waiters, process
<1>6. Room'
  BY <1>1, <1>3 DEF Room
<1>7. Ages'
  BY <1>1, <1>3, <1>4 DEF IInv, Ages, Usable, process
<1> QED BY <1>5, <1>6, <1>7 DEF IInv

(* A restart frees every slot, because the requests that held them are gone. *)
LEMMA RestartIInv ==
  ASSUME IInv, Restart
  PROVE  IInv'
<1>1. /\ request' \in [Buyers -> [step : Steps, age : Int]]
      /\ \A b \in Buyers : IF request[b].step \in Waiting THEN request'[b].step = "denied"
                           ELSE request'[b] = request[b]
  BY DEF Restart, IInv, Typing, Steps, Ended
<1>2. /\ pendingCreates' = 0 /\ cached' = None /\ inflight' = None
      /\ bucket' = [tokens |-> Capacity, last |-> now]
      /\ UNCHANGED <<pending_orders, now, shared>>
  BY DEF Restart, NewBucket
<1>3. /\ At("creating")' = {} /\ At("rated")' = {} /\ At("rating")' = {}
      /\ At("orphaned")' = At("orphaned")
  BY <1>1 DEF At, Waiting
<1>4. Typing'
  BY <1>1, <1>2, PurchaseAssumption DEF IInv, Typing
<1>5. Slots' /\ Waiters'
  BY <1>2, <1>3, FS_EmptySet DEF Slots, Waiters
<1>6. Room'
  <2>1. openCount \in Nat /\ openCount' = openCount /\ pendingCreates \in Nat
    BY <1>2, FS_CardinalityType DEF IInv, Room, Slots, openCount
  <2> QED BY <1>2, <1>3, <2>1, PurchaseAssumption DEF IInv, Room
<1>7. Ages'
  BY <1>2, <1>3 DEF IInv, Ages, Usable
<1> QED BY <1>4, <1>5, <1>6, <1>7 DEF IInv

(* The clock stops short of a timer that is due.                            *)
LEMMA PassIInv ==
  ASSUME IInv, Pass
  PROVE  IInv'
<1>1. /\ now \in Nat /\ now' = now + 1
      /\ inflight # None => now < inflight.since + Timeout /\ inflight.since \in Nat
      /\ UNCHANGED <<process, pending_orders, shared>>
  BY DEF Pass, IInv, Typing
<1>2. \A step : At(step)' = At(step)
  BY <1>1 DEF At, process
<1>3. Typing'
  BY <1>1 DEF IInv, Typing, process
<1>4. Slots' /\ Waiters'
  BY <1>1, <1>2 DEF IInv, Slots, Waiters, process
<1>5. Room'
  BY <1>1, <1>2 DEF IInv, Room, openCount, process
<1>6. Ages'
  BY <1>1, <1>2, PurchaseAssumption DEF IInv, Ages, Usable, process
<1> QED BY <1>3, <1>4, <1>5, <1>6 DEF IInv

-----------------------------------------------------------------------------
LEMMA NextIInv == IInv /\ [Next]_vars => IInv'
<1> SUFFICES ASSUME IInv, [Next]_vars PROVE IInv'
  OBVIOUS
<1>1. CASE UNCHANGED vars
  <2>1. \A step : At(step)' = At(step)
    BY <1>1 DEF At, vars, process
  <2> QED BY <1>1, <2>1
          DEF vars, process, IInv, Typing, Slots, Room, Waiters, Ages, Usable, openCount
<1>2. CASE Pass \/ Restart \/ SourceFails
  BY <1>2, PassIInv, RestartIInv, SourceFailsIInv
<1>3. ASSUME NEW quoted \in 0 .. MaxTime, SourceAnswers(quoted) PROVE IInv'
  <2>1. quoted \in Nat
    BY PurchaseAssumption
  <2> QED BY <1>3, <2>1, SourceAnswersIInv
<1>4. ASSUME NEW b \in Buyers, Throttle(b) \/ Refuse(b) \/ Shed(b) PROVE IInv'
  BY <1>4, DeniesIInv DEF Denies
<1>5. ASSUME NEW b \in Buyers, Admit(b) \/ UseCached(b) \/ AwaitRate(b) PROVE IInv'
  BY <1>5, MovesIInv DEF Moves
<1>6. ASSUME NEW b \in Buyers, Reserve(b) \/ MintFails(b) \/ Claim(b) PROVE IInv'
  BY <1>6, ReserveIInv, MintFailsIInv, ClaimIInv
<1>7. ASSUME NEW order, Close(order) \/ OtherClaims(order) PROVE IInv'
  BY <1>7, CloseIInv, OtherClaimsIInv
<1> QED BY <1>1, <1>2, <1>3, <1>4, <1>5, <1>6, <1>7 DEF Next

(* The inductive invariant holds in every reachable state.                  *)
THEOREM PurchaseInvariant == Spec => []IInv
BY InitIInv, NextIInv, PTL DEF Spec

(* Tables and counters are well formed, and the reservation counter is      *)
(* exact: no exit path of the handler leaks a slot or returns one twice.    *)
THEOREM PurchaseTypeOK == Spec => []TypeOK
<1>1. IInv => TypeOK
  BY DEF IInv, Typing, Slots, Waiters, TypeOK, Steps
<1> QED BY <1>1, PurchaseInvariant, PTL

(* The cap holds for everyone on pending.db.                                *)
THEOREM PurchaseCap == Spec => []OpenOrdersCapped
<1>1. IInv => OpenOrdersCapped
  BY DEF IInv, Room, OpenOrdersCapped
<1> QED BY <1>1, PurchaseInvariant, PTL

(* On a pending.db of one's own no address is minted and then refused its   *)
(* order.                                                                   *)
THEOREM PurchaseNoOrphans == Spec => []NoOrphans
<1>1. IInv => NoOrphans
  BY DEF IInv, Room, NoOrphans
<1> QED BY <1>1, PurchaseInvariant, PTL

(* No order locks a rate older than one fetch and one cache window.         *)
THEOREM PurchaseRateIsFresh == Spec => []RateIsFresh
<1>1. IInv => RateIsFresh
  BY DEF IInv, Ages, Usable, RateIsFresh
<1> QED BY <1>1, PurchaseInvariant, PTL

-----------------------------------------------------------------------------
(* The burst guard.  What was admitted since any admission, together with  *)
(* the tokens left, is paid for by one full bucket and the refill since.   *)
Cover(i, tokens, time) ==
  (Len(admitted) - i + 1) * Cost + tokens <= Capacity + (time - admitted[i]) * Refill
Paid ==
  /\ admitted \in Seq(Nat)
  /\ \A i \in DOMAIN admitted :
       admitted[i] <= bucket.last /\ Cover(i, bucket.tokens, bucket.last)
  /\ AdmissionBounded

LEMMA Distributes ==
  /\ \A m, n \in Int : m * n \in Int
  /\ \A m, n \in Nat : m * n \in Nat
  /\ \A m, n, k \in Int : (m + n) * k = m * k + n * k
  /\ \A n \in Int : 1 * n = n
OBVIOUS

(* A refill pays for itself.                                               *)
LEMMA RefillCovers ==
  ASSUME Typing, Paid
  PROVE  \A i \in DOMAIN admitted :
           admitted[i] <= now /\ Cover(i, Refilled.tokens, now)
<1> SUFFICES ASSUME NEW i \in DOMAIN admitted
             PROVE  admitted[i] <= now /\ Cover(i, Refilled.tokens, now)
  OBVIOUS
<1> DEFINE gain == (now - bucket.last) * Refill
           total == bucket.tokens + gain
           before == (bucket.last - admitted[i]) * Refill
           owed == (Len(admitted) - i + 1) * Cost
<1>1. /\ bucket.tokens \in 0 .. Capacity /\ bucket.last \in 0 .. now
      /\ now \in Nat /\ Capacity \in Nat /\ Refill \in Nat /\ Cost \in Nat
      /\ admitted[i] \in Nat /\ i \in 1 .. Len(admitted) /\ Len(admitted) \in Nat
      /\ admitted[i] <= bucket.last
  BY PurchaseAssumption DEF Typing, Paid
<1>2. gain \in Int /\ before \in Int /\ owed \in Int
  <2>1. /\ now - bucket.last \in Int /\ bucket.last - admitted[i] \in Int
        /\ Len(admitted) - i + 1 \in Int /\ Refill \in Int /\ Cost \in Int
    BY <1>1
  <2> QED BY <2>1, Distributes
<1>3. (now - admitted[i]) * Refill = before + gain
  <2>1. /\ now - bucket.last \in Int /\ bucket.last - admitted[i] \in Int /\ Refill \in Int
        /\ (bucket.last - admitted[i]) + (now - bucket.last) = now - admitted[i]
    BY <1>1
  <2> QED BY <2>1, Distributes
<1>4. owed + bucket.tokens <= Capacity + before
  BY DEF Paid, Cover
<1>5. Refilled.tokens <= total /\ Refilled.tokens \in 0 .. Capacity
  <2>1. Refilled.tokens = Min({Capacity, total}) /\ Refilled.tokens \in 0 .. Capacity
    BY RefillBounded DEF Refilled
  <2> HIDE DEF gain
  <2>2. total \in Int
    <3>1. bucket.tokens \in Int
      BY <1>1
    <3> QED BY <1>2, <3>1
  <2> HIDE DEF total
  <2>3. \E x \in {Capacity, total} : \A y \in {Capacity, total} : x =< y
    BY <1>1, <2>2
  <2>4. \A y \in {Capacity, total} : Min({Capacity, total}) =< y
    BY <2>3 DEF Min
  <2> QED BY <2>1, <2>4
<1> HIDE DEF gain, before, owed
<1>6. owed + Refilled.tokens <= Capacity + (before + gain)
  BY <1>1, <1>2, <1>4, <1>5
<1> QED BY <1>1, <1>3, <1>6 DEF Cover, owed

LEMMA PaidInit == Init => Paid
BY DEF Init, Paid, AdmissionBounded

(* An admission takes what it costs out of the bucket.                     *)
LEMMA AdmitPaid ==
  ASSUME Typing, Paid, NEW b \in Buyers, Admit(b)
  PROVE  Paid'
<1> DEFINE n == Len(admitted)
<1>1. /\ admitted \in Seq(Nat) /\ n \in Nat /\ DOMAIN admitted = 1 .. n
      /\ now \in Nat /\ Capacity \in Nat /\ Cost \in Nat /\ Refill \in Nat
      /\ Refilled.tokens \in 0 .. Capacity /\ Refilled.tokens >= Cost
      /\ now' = now
  BY RefillBounded, PurchaseAssumption DEF Typing, Paid, Admit
<1>2. bucket'.tokens = Refilled.tokens - Cost /\ bucket'.last = now
  BY RefillBounded DEF Admit
<1>3. /\ admitted' \in Seq(Nat) /\ Len(admitted') = n + 1 /\ DOMAIN admitted' = 1 .. n + 1
      /\ \A i \in 1 .. n : admitted'[i] = admitted[i]
      /\ admitted'[n + 1] = now
  BY <1>1 DEF Admit
<1>4. ASSUME NEW i \in 1 .. n + 1
      PROVE  /\ admitted'[i] \in Nat /\ admitted'[i] <= now
             /\ ((n + 1) - i + 1) * Cost + (Refilled.tokens - Cost)
                  <= Capacity + (now - admitted'[i]) * Refill
  <2>1. CASE i = n + 1
    <3>1. ((n + 1) - i + 1) * Cost = Cost
      <4>1. (n + 1) - i + 1 = 1
        BY <1>1, <2>1
      <4>2. 1 * Cost = Cost
        BY PurchaseAssumption
      <4> QED BY <4>1, <4>2
    <3>2. (now - admitted'[i]) * Refill = 0
      <4>1. now - admitted'[i] = 0
        BY <1>1, <1>3, <2>1
      <4>2. 0 * Refill = 0
        BY PurchaseAssumption
      <4> QED BY <4>1, <4>2
    <3>3. admitted'[i] \in Nat /\ admitted'[i] <= now
      BY <1>1, <1>3, <2>1
    <3>4. Cost + (Refilled.tokens - Cost) <= Capacity + 0
      BY <1>1
    <3> QED BY <3>1, <3>2, <3>3, <3>4
  <2>2. CASE i \in 1 .. n
    <3>1. admitted'[i] = admitted[i] /\ admitted[i] <= now /\ admitted[i] \in Nat
          /\ Cover(i, Refilled.tokens, now)
      <4>1. i \in DOMAIN admitted /\ admitted'[i] = admitted[i] /\ admitted[i] \in Nat
        BY <1>1, <1>3, <2>2
      <4> QED BY <4>1, RefillCovers
    <3>2. ((n + 1) - i + 1) * Cost = (n - i + 1) * Cost + Cost
      <4>1. /\ (n - i + 1) \in Int /\ 1 \in Int /\ Cost \in Int
            /\ (n + 1) - i + 1 = (n - i + 1) + 1
        BY <1>1, <2>2
      <4>2. ((n - i + 1) + 1) * Cost = (n - i + 1) * Cost + 1 * Cost
        BY <4>1, Distributes
      <4> QED BY <1>1, <4>1, <4>2, Distributes
    <3> DEFINE owed == (n - i + 1) * Cost
               earned == (now - admitted[i]) * Refill
    <3>3. owed \in Int /\ earned \in Int
      <4>1. (n - i + 1) \in Int /\ (now - admitted[i]) \in Int /\ Cost \in Int /\ Refill \in Int
        BY <1>1, <2>2, <3>1
      <4> QED BY <4>1, Distributes
    <3>4. owed + Refilled.tokens <= Capacity + earned
      BY <3>1 DEF Cover
    <3>5. ((n + 1) - i + 1) * Cost = owed + Cost /\ (now - admitted'[i]) * Refill = earned
      BY <3>1, <3>2
    <3> HIDE DEF owed, earned
    <3>6. owed + Cost + (Refilled.tokens - Cost) <= Capacity + earned
      BY <1>1, <3>3, <3>4
    <3> QED BY <3>1, <3>5, <3>6
  <2> QED BY <1>1, <2>1, <2>2
<1>5. \A i \in DOMAIN admitted' :
        admitted'[i] <= bucket'.last /\ Cover(i, bucket.tokens, bucket.last)'
  BY <1>1, <1>2, <1>3, <1>4 DEF Cover
<1>6. AdmissionBounded'
  <2> SUFFICES ASSUME NEW i \in 1 .. n + 1, NEW j \in 1 .. n + 1, i <= j
               PROVE  (j - i + 1) * Cost <= Capacity + (admitted'[j] - admitted'[i]) * Refill
    BY <1>3 DEF AdmissionBounded
  <2>1. CASE j = n + 1
    <3>1. (now - admitted'[i]) * Refill \in Int /\ ((n + 1) - i + 1) * Cost \in Int
      <4>1. /\ now - admitted'[i] \in Int /\ (n + 1) - i + 1 \in Int
            /\ Cost \in Int /\ Refill \in Int
        BY <1>1, <1>4
      <4> QED BY <4>1, Distributes
    <3>2. ((n + 1) - i + 1) * Cost + (Refilled.tokens - Cost)
            <= Capacity + (now - admitted'[i]) * Refill
      BY <1>4
    <3>3. ((n + 1) - i + 1) * Cost <= Capacity + (now - admitted'[i]) * Refill
      BY <1>1, <3>1, <3>2
    <3> QED BY <1>3, <2>1, <3>3
  <2>2. CASE j \in 1 .. n
    <3>1. i \in 1 .. n
      BY <1>1, <2>2
    <3> QED BY <1>1, <1>3, <2>2, <3>1 DEF Paid, AdmissionBounded
  <2> QED BY <1>1, <2>1, <2>2
<1> QED BY <1>3, <1>5, <1>6 DEF Paid

LEMMA PaidNext == IInv /\ Paid /\ [Next]_vars => Paid'
<1> SUFFICES ASSUME Typing, Paid, [Next]_vars PROVE Paid'
  BY DEF IInv
<1>1. CASE UNCHANGED <<bucket, admitted>>
  BY <1>1 DEF Paid, Cover, AdmissionBounded
<1>2. ASSUME NEW b \in Buyers, Admit(b) PROVE Paid'
  BY <1>2, AdmitPaid
<1>3. ASSUME NEW b \in Buyers, Throttle(b) PROVE Paid'
  <2>1. bucket' = Refilled /\ admitted' = admitted /\ Refilled.last = now
    BY <1>3, RefillBounded DEF Throttle
  <2> QED BY <2>1, RefillCovers DEF Paid, Cover, AdmissionBounded
<1>4. CASE Restart
  BY <1>4 DEF Restart, Paid, AdmissionBounded
<1>5. ASSUME NEW b \in Buyers,
             \/ Refuse(b) \/ Shed(b) \/ UseCached(b) \/ AwaitRate(b)
             \/ Reserve(b) \/ MintFails(b) \/ Claim(b)
      PROVE  UNCHANGED <<bucket, admitted>>
  BY <1>5 DEF Refuse, Shed, UseCached, AwaitRate, Reserve, MintFails, Claim
<1>6. ASSUME NEW order, Close(order) \/ OtherClaims(order)
      PROVE  UNCHANGED <<bucket, admitted>>
  BY <1>6 DEF Close, OtherClaims, process
<1>7. ASSUME NEW quoted, SourceAnswers(quoted) PROVE UNCHANGED <<bucket, admitted>>
  BY <1>7 DEF SourceAnswers
<1>8. Pass \/ SourceFails \/ UNCHANGED vars => UNCHANGED <<bucket, admitted>>
  BY DEF Pass, SourceFails, vars, process
<1> QED BY <1>1, <1>2, <1>3, <1>4, <1>5, <1>6, <1>7, <1>8 DEF Next

(* Between any two admissions of one process there is one burst and the    *)
(* refill of the time between, whatever was throttled in the meantime.     *)
THEOREM PurchaseAdmission == Spec => []AdmissionBounded
<1>1. Paid => AdmissionBounded
  BY DEF Paid
<1> QED BY <1>1, PaidInit, PaidNext, PurchaseInvariant, PTL DEF Spec

-----------------------------------------------------------------------------
(* The tab *)

(* The inductive invariant of KeyFlow, in parts.  PurchaseIsKept speaks of *)
(* what is on the screen; the parts say the same of every answer that is   *)
(* still on its way there.                                                 *)
TabTyping ==
  /\ purchase \in [phase : {"home", "pay", "done"}, order : Order \cup {NoOrder},
                   quote : Addresses \cup {NoQuote}, savedAck : BOOLEAN, busy : BOOLEAN]
  /\ submitting \in {Idle}
       \cup [step : {"baseline"}, token : PastedKeys, answer : Balance, landed : Nat]
       \cup [step : {"quote"}, answer : Addresses, order : Order]
  /\ requoting \in {Idle} \cup [step : {"quote"}, answer : Addresses]
  /\ cycle \in {Idle}
       \cup [step : {"status"}, address : Addresses, answer : Status]
       \cup [step : {"balance"}, address : Addresses, answer : Balance]
  /\ status \in [state : Status \cup {"none"}, address : Addresses \cup {NoQuote},
                 error : Errors]
  /\ orders \in [Addresses -> ServerOrder]
  /\ balance \in [Keys -> Balance]
  /\ history \in [landed : [Keys -> Nat], saved : SUBSET Keys,
                  asked : Addresses \cup {NoQuote}, spends : Nat, fails : Nat]

\* What may be on its way in each phase.
Phases ==
  /\ purchase.phase # "home" <=> purchase.order # NoOrder
  /\ submitting.step # "none" =>
       purchase.busy /\ purchase.phase = "home" /\ requoting.step = "none"
  /\ requoting.step # "none" => purchase.busy
  /\ cycle.step # "none" => purchase.phase = "pay"
  /\ purchase.phase # "pay" => status = NoStatus
  /\ purchase.phase = "home" => ~purchase.savedAck

\* Every address that was asked for is one of an order for its key.
Quotes ==
  /\ \A a \in Addresses : orders[a].stage = "free" <=> orders[a].key = Nobody
  /\ purchase.phase = "pay" =>
       purchase.quote # NoQuote /\ orders[purchase.quote].key = purchase.order.token
  /\ submitting.step = "quote" =>
       orders[submitting.answer].key = submitting.order.token
  /\ requoting.step = "quote" /\ purchase.phase # "home" =>
       orders[requoting.answer].key = purchase.order.token

\* A key is one the user brought, or affirmed as saved before the gate opened.
HeldKeys ==
  /\ PaidKeysAreHeld
  /\ submitting.step = "quote" /\ ~submitting.order.wasNew =>
       submitting.order.token \in PastedKeys
  /\ purchase.phase # "home" =>
       IF purchase.order.wasNew
       THEN purchase.savedAck => purchase.order.token \in history.saved
       ELSE purchase.order.token \in PastedKeys

\* A balance has risen above a baseline by no more than has landed since.
Worth(b) == IF b = Unknown THEN 0 ELSE b
Ahead(b, key, baseline, landed) ==
  Worth(b) - baseline <= history.landed[key] - landed
Deltas ==
  /\ \A k \in MintedKeys : Ahead(balance[k], k, 0, 0)
  /\ submitting.step = "baseline" =>
       Ahead(balance[submitting.token], submitting.token, Worth(submitting.answer),
             submitting.landed)
  /\ submitting.step = "quote" =>
       LET o == submitting.order IN Ahead(balance[o.token], o.token, o.baseline, o.landed)
  /\ purchase.phase # "home" =>
       LET o == purchase.order
       IN /\ Ahead(balance[o.token], o.token, o.baseline, o.landed)
          /\ cycle.step = "balance" => Ahead(cycle.answer, o.token, o.baseline, o.landed)
  /\ DoneMeansCredited

\* An answer says what was true when it was asked for, and what it says of
\* a payment stays true.
Noticed == Final \cup {"seen"}
Answers ==
  /\ cycle.step = "status" =>
       /\ cycle.answer = "waiting" =>
            history.asked = cycle.address /\ (ToldSeen => cycle.address # status.address)
       /\ cycle.answer # "waiting" => orders[cycle.address].stage \in Noticed
       /\ cycle.answer \in {"finalizing", "closed"} => orders[cycle.address].stage \in Final
  /\ cycle.step = "balance" => status.state \in {"finalizing", "closed"}
  /\ SecretStays
  /\ ToldSeen =>
       status.address # NoQuote /\ orders[status.address].stage \in Noticed
  /\ NotSeenIsCurrent

TabInv == TabTyping /\ Phases /\ Quotes /\ HeldKeys /\ Deltas /\ Answers

(* What a record of the tab holds follows from the step it is at.          *)
LEMMA TabShapes ==
  ASSUME TabTyping
  PROVE  /\ submitting.step \in {"none", "baseline", "quote"}
         /\ submitting.step = "baseline" =>
              /\ submitting.token \in PastedKeys /\ submitting.answer \in Balance
              /\ submitting.landed \in Nat
         /\ submitting.step = "quote" =>
              submitting.answer \in Addresses /\ submitting.order \in Order
         /\ requoting.step \in {"none", "quote"}
         /\ requoting.step = "quote" => requoting.answer \in Addresses
         /\ cycle.step \in {"none", "status", "balance"}
         /\ cycle.step # "none" => cycle.address \in Addresses
         /\ cycle.step = "status" => cycle.answer \in Status
         /\ cycle.step = "balance" => cycle.answer \in Balance
BY DEF TabTyping, Idle

(* An order for somebody has a key; the absence of one has none.           *)
LEMMA OrderShapes ==
  /\ NoOrder \notin Order
  /\ \A o \in Order : /\ o.token \in Keys /\ o.wasNew \in BOOLEAN
                      /\ o.baseline \in Nat /\ o.landed \in Nat
BY KeyFlowAssumption DEF NoOrder, Order

(* A key that was never used is left while there is an address to open:    *)
(* orders are opened in order, each for one key, and there are at least as *)
(* many keys as orders.                                                    *)
LEMMA MintedKeyIsFresh ==
  ASSUME TabTyping, Quotes, NEW a \in Addresses,
         \A b \in Addresses : orders[b].stage = "free" <=> b >= a
  PROVE  generateToken \in MintedKeys /\ \A b \in Addresses : orders[b].key # generateToken
<1> DEFINE Unused(k) == \A b \in Addresses : orders[b].key # k
           used == 1 .. (a - 1)
<1>1. /\ MaxOrders \in Nat /\ a \in 1 .. MaxOrders
      /\ \A k \in MintedKeys : k # Nobody
      /\ IsFiniteSet(MintedKeys) /\ Cardinality(MintedKeys) >= MaxOrders
  BY KeyFlowAssumption DEF Addresses, Keys
<1>2. \E k \in MintedKeys : Unused(k)
  <2> SUFFICES ASSUME \A k \in MintedKeys : ~Unused(k) PROVE FALSE
    OBVIOUS
  <2> DEFINE f == [k \in MintedKeys |-> CHOOSE b \in Addresses : orders[b].key = k]
  <2>1. ASSUME NEW k \in MintedKeys PROVE f[k] \in used /\ orders[f[k]].key = k
    <3>1. f[k] \in Addresses /\ orders[f[k]].key = k
      OBVIOUS
    <3>2. orders[f[k]].stage # "free"
      BY <1>1, <3>1 DEF Quotes
    <3>3. ~(f[k] >= a)
      BY <3>1, <3>2
    <3> HIDE DEF f
    <3> QED BY <1>1, <3>1, <3>3 DEF Addresses
  <2>2. f \in [MintedKeys -> used]
    <3> HIDE DEF used
    <3> QED BY <2>1
  <2>3. IsFiniteSet(used) /\ Cardinality(used) < Cardinality(MintedKeys)
    <3>1. IsFiniteSet(used) /\ Cardinality(used) = a - 1
      BY <1>1, FS_Interval
    <3>2. Cardinality(MintedKeys) \in Nat
      BY <1>1, FS_CardinalityType
    <3> QED BY <1>1, <3>1, <3>2
  <2>4. PICK j, k \in MintedKeys : j # k /\ f[j] = f[k]
    <3> HIDE DEF f, used
    <3> QED BY <1>1, <2>2, <2>3, FS_PigeonHole
  <2> QED BY <2>1, <2>4
<1>3. Unused(generateToken) /\ generateToken \in MintedKeys
  BY <1>2 DEF generateToken
<1> QED BY <1>3

(* What no step of the server takes back: an order keeps its key, and what *)
(* was noticed of its payment.                                             *)
Onward ==
  /\ orders' \in [Addresses -> ServerOrder]
  /\ \A a \in Addresses :
       /\ orders'[a].stage = "free" <=> orders'[a].key = Nobody
       /\ orders[a].key # Nobody => orders'[a].key = orders[a].key
       /\ orders[a].stage \in Noticed => orders'[a].stage \in Noticed
       /\ orders[a].stage \in Final => orders'[a].stage \in Final

(* Opening an order takes a free address and nothing else.                 *)
LEMMA OpensOnward ==
  ASSUME TabTyping, Quotes, NEW key \in Keys, NEW a \in Addresses, Opens(key, a)
  PROVE  /\ Onward
         /\ orders'[a].key = key /\ orders'[a].stage = "waiting"
         /\ \A b \in Addresses : b # a => orders'[b] = orders[b]
<1>1. /\ orders \in [Addresses -> ServerOrder] /\ key # Nobody
      /\ \A b \in Addresses : b >= b
  BY KeyFlowAssumption DEF TabTyping, Addresses, Keys
<1>2. orders[a].stage = "free" /\ orders[a].key = Nobody
  BY <1>1 DEF Opens, Quotes
<1> DEFINE opened == [Free EXCEPT !.key = key, !.stage = "waiting"]
<1>3. opened \in ServerOrder /\ opened.key = key /\ opened.stage = "waiting"
  <2>1. Free \in [key : Keys \cup {Nobody}, stage : OrderStages, expired : BOOLEAN]
    BY DEF Free, OrderStages
  <2> QED BY <2>1 DEF ServerOrder, OrderStages
<1>4. orders' = [orders EXCEPT ![a] = opened]
  BY DEF Opens
<1> HIDE DEF opened
<1>5. /\ orders' \in [Addresses -> ServerOrder]
      /\ orders'[a].key = key /\ orders'[a].stage = "waiting"
      /\ \A b \in Addresses : b # a => orders'[b] = orders[b]
  BY <1>1, <1>3, <1>4
<1> QED BY <1>1, <1>2, <1>5 DEF Onward, Quotes, Noticed, Final

(* An order that moves on keeps its key.                                   *)
LEMMA AdvanceOnward ==
  ASSUME TabTyping, Quotes, NEW a \in Addresses, NEW from, NEW to, Advance(a, from, to),
         \/ from = "waiting" /\ to \in {"seen", "reaped"}
         \/ from = "seen" /\ to = "final"
         \/ from = "final" /\ to = "booked"
         \/ from = "booked" /\ to = "credited"
  PROVE  /\ Onward
         /\ orders'[a].key = orders[a].key /\ orders'[a].stage = to
         /\ orders[a].stage = from
         /\ \A b \in Addresses : b # a => orders'[b] = orders[b]
<1>1. orders \in [Addresses -> ServerOrder]
  BY DEF TabTyping
<1>2. orders[a].stage = from /\ orders' = [orders EXCEPT ![a].stage = to]
  BY DEF Advance
<1>3. orders' \in [Addresses -> ServerOrder]
  BY <1>1, <1>2 DEF ServerOrder, OrderStages
<1>4. /\ orders'[a].key = orders[a].key /\ orders'[a].stage = to
      /\ \A b \in Addresses : b # a => orders'[b] = orders[b]
  BY <1>1, <1>2 DEF ServerOrder
<1>5. orders[a].key # Nobody
  BY <1>2 DEF Quotes
<1> QED BY <1>2, <1>3, <1>4, <1>5 DEF Onward, Quotes, Noticed, Final

LEMMA SameOrdersOnward ==
  ASSUME TabTyping, Quotes, orders' = orders
  PROVE  Onward
BY DEF Onward, TabTyping, Quotes

(* The parts of the invariant a step keeps that leaves alone what they     *)
(* speak of, whatever the server does meanwhile.                           *)
LEMMA QuotesKept ==
  ASSUME TabTyping, Phases, Quotes, Onward, UNCHANGED <<submitting, requoting>>,
         purchase'.phase = purchase.phase, purchase'.order = purchase.order,
         purchase'.quote = purchase.quote
  PROVE  Quotes'
<1>1. \A a \in Addresses : \A k \in Keys : orders[a].key = k => orders'[a].key = k
  BY KeyFlowAssumption DEF Onward, Keys
<1>2. purchase.phase # "home" => purchase.order.token \in Keys
  BY OrderShapes DEF TabTyping, Phases
<1>3. purchase.phase = "pay" /\ purchase.quote # NoQuote => purchase.quote \in Addresses
  BY DEF TabTyping
<1> QED BY <1>1, <1>2, <1>3, TabShapes, OrderShapes DEF Quotes, Onward

LEMMA HeldKeysKept ==
  ASSUME HeldKeys, PaidKeysAreHeld', UNCHANGED submitting,
         purchase'.phase = purchase.phase, purchase'.order = purchase.order,
         purchase'.savedAck = purchase.savedAck, history'.saved = history.saved
  PROVE  HeldKeys'
BY DEF HeldKeys

LEMMA DeltasKept ==
  ASSUME Deltas, UNCHANGED <<submitting, cycle, balance>>, history'.landed = history.landed,
         purchase'.phase = purchase.phase, purchase'.order = purchase.order
  PROVE  Deltas'
BY DEF Deltas, Ahead, Worth, DoneMeansCredited

(* Credits that land count as much as they bring; spending brings nothing. *)
LEMMA DeltasOnward ==
  ASSUME TabTyping, Phases, Deltas, UNCHANGED <<submitting, cycle>>,
         purchase'.phase = purchase.phase, purchase'.order = purchase.order,
         balance' \in [Keys -> Balance],
         \A k \in Keys : /\ history'.landed[k] \in Nat
                         /\ history.landed[k] <= history'.landed[k]
                         /\ Worth(balance'[k]) - history'.landed[k]
                              <= Worth(balance[k]) - history.landed[k]
  PROVE  Deltas'
<1>1. \A k \in Keys : /\ history.landed[k] \in Nat /\ balance[k] \in Balance
                      /\ Worth(balance[k]) \in Int /\ Worth(balance'[k]) \in Int
  BY DEF TabTyping, Balance, Worth, Unknown
<1>2. ASSUME NEW b \in Balance, NEW k \in Keys, NEW baseline \in Nat, NEW landed \in Nat,
             \/ Ahead(b, k, baseline, landed)
             \/ b = balance'[k] /\ Ahead(balance[k], k, baseline, landed)
      PROVE  Worth(b) - baseline <= history'.landed[k] - landed
  <2>1. Worth(b) \in Int
    BY DEF Balance, Worth, Unknown
  <2> QED BY <1>1, <1>2, <2>1 DEF Ahead
<1>3. purchase.phase # "home" => purchase.order \in Order
  BY DEF TabTyping, Phases
<1>4. /\ \A k \in Keys : balance'[k] \in Balance
      /\ MintedKeys \subseteq Keys /\ PastedKeys \subseteq Keys
      /\ \A b \in Balance : Worth(b) \in Nat
  BY DEF Keys, Balance, Worth, Unknown
<1>5. \A k \in MintedKeys : Worth(balance'[k]) - 0 <= history'.landed[k] - 0
  BY <1>2, <1>4 DEF Deltas
<1>6. submitting.step = "baseline" =>
        Worth(balance'[submitting.token]) - Worth(submitting.answer)
          <= history'.landed[submitting.token] - submitting.landed
  BY <1>2, <1>4, TabShapes DEF Deltas
<1>7. ASSUME NEW o \in Order, Ahead(balance[o.token], o.token, o.baseline, o.landed)
      PROVE  Worth(balance'[o.token]) - o.baseline <= history'.landed[o.token] - o.landed
  BY <1>2, <1>4, <1>7, OrderShapes
<1>8. ASSUME NEW o \in Order, cycle.step = "balance",
             Ahead(cycle.answer, o.token, o.baseline, o.landed)
      PROVE  Worth(cycle.answer) - o.baseline <= history'.landed[o.token] - o.landed
  BY <1>2, <1>8, OrderShapes, TabShapes
<1>9. DoneMeansCredited'
  <2> SUFFICES ASSUME purchase.phase = "done"
               PROVE  history'.landed[purchase.order.token] > purchase.order.landed
    BY DEF DoneMeansCredited
  <2>1. history.landed[purchase.order.token] > purchase.order.landed
    BY DEF Deltas, DoneMeansCredited
  <2>2. purchase.order.token \in Keys /\ purchase.order.landed \in Nat
    BY <1>3, OrderShapes
  <2> QED BY <1>1, <2>1, <2>2
<1> QED BY <1>3, <1>5, <1>6, <1>7, <1>8, <1>9, TabShapes DEF Deltas, Ahead

LEMMA AnswersKept ==
  ASSUME TabTyping, Answers, Onward, UNCHANGED <<cycle, status>>,
         history'.asked = history.asked,
         purchase'.phase = purchase.phase
  PROVE  Answers'
<1>1. status.address # NoQuote => status.address \in Addresses
  BY DEF TabTyping
<1>2. cycle.step # "none" => cycle.address \in Addresses
  BY TabShapes
<1>3. cycle.step = "balance" => cycle.step # "none"
  OBVIOUS
<1> QED BY <1>1, <1>2, <1>3 DEF Answers, Onward, SecretStays, NotSeenIsCurrent, ToldSeen

LEMMA PhasesKept ==
  ASSUME Phases, UNCHANGED <<submitting, requoting, cycle, status>>,
         purchase'.phase = purchase.phase, purchase'.order = purchase.order,
         purchase'.busy = purchase.busy, purchase'.savedAck = purchase.savedAck
  PROVE  Phases'
BY DEF Phases

(* What the server does by itself. *)
LEMMA ServerKeepsTabInv ==
  ASSUME TabInv, ServerStep
  PROVE  TabInv'
<1>0. TabTyping /\ Phases /\ Quotes /\ HeldKeys /\ Deltas /\ Answers
  BY DEF TabInv
<1>1. ASSUME NEW a \in Addresses, Confirms(a) \/ Books(a) \/ Reaps(a)
      PROVE  TabInv'
  <2>1. /\ UNCHANGED <<purchase, submitting, requoting, cycle, status, balance, history>>
        /\ Onward
        /\ orders'[a].key = orders[a].key
        /\ orders[a].stage \in {"seen", "final"} \/ orders'[a].stage = "reaped"
        /\ \A b \in Addresses : b # a => orders'[b] = orders[b]
    BY <1>0, <1>1, AdvanceOnward DEF Confirms, Books, Reaps, client, Advance
  <2>2. TabTyping'
    BY <1>0, <2>1 DEF TabTyping, Onward
  <2>3. Phases' /\ Quotes' /\ Deltas' /\ Answers'
    BY <1>0, <2>1, PhasesKept, QuotesKept, DeltasKept, AnswersKept
  <2>4. PaidKeysAreHeld'
    BY <1>0, <2>1 DEF HeldKeys, PaidKeysAreHeld
  <2> QED BY <1>0, <2>1, <2>2, <2>3, <2>4, HeldKeysKept DEF TabInv
<1>2. ASSUME NEW a \in Addresses, Expires(a)
      PROVE  TabInv'
  <2>1. /\ UNCHANGED <<purchase, submitting, requoting, cycle, status, balance, history>>
        /\ orders' = [orders EXCEPT ![a].expired = TRUE]
    BY <1>2 DEF Expires, client
  <2>2. /\ orders' \in [Addresses -> ServerOrder]
        /\ \A b \in Addresses : orders'[b].key = orders[b].key /\ orders'[b].stage = orders[b].stage
    <3> DEFINE late == [orders[a] EXCEPT !.expired = TRUE]
    <3>1. orders \in [Addresses -> ServerOrder] /\ a \in Addresses
      BY <1>0, <1>2 DEF TabTyping
    <3>2. late \in ServerOrder /\ late.key = orders[a].key /\ late.stage = orders[a].stage
      BY <3>1 DEF ServerOrder
    <3>3. orders' = [orders EXCEPT ![a] = late]
      BY <2>1
    <3> HIDE DEF late
    <3> QED BY <3>1, <3>2, <3>3
  <2>3. Onward
    BY <1>0, <2>2 DEF Onward, Quotes
  <2>4. TabTyping'
    BY <1>0, <2>1, <2>2 DEF TabTyping
  <2>5. Phases' /\ Quotes' /\ Deltas' /\ Answers'
    BY <1>0, <2>1, <2>3, PhasesKept, QuotesKept, DeltasKept, AnswersKept
  <2>6. PaidKeysAreHeld'
    BY <1>0, <2>1, <2>2 DEF HeldKeys, PaidKeysAreHeld
  <2> QED BY <1>0, <2>1, <2>4, <2>5, <2>6, HeldKeysKept DEF TabInv
<1>3. ASSUME NEW a \in Addresses, Credits(a)
      PROVE  TabInv'
  <2> DEFINE k == orders[a].key
             more == IF balance[k] = Unknown THEN 1 ELSE balance[k] + 1
             sum == history.landed[k] + 1
  <2>1. /\ UNCHANGED <<purchase, submitting, requoting, cycle, status>>
        /\ Onward
        /\ orders'[a].key = orders[a].key /\ orders[a].stage = "booked"
        /\ \A b \in Addresses : b # a => orders'[b] = orders[b]
        /\ balance' = [balance EXCEPT ![k] = more]
        /\ history' = [history EXCEPT !.landed[k] = sum]
    BY <1>0, <1>3, AdvanceOnward DEF Credits, client
  <2>2. k \in Keys /\ k # Nobody
    BY <1>0, <2>1 DEF TabTyping, ServerOrder, Quotes
  <2>3. history.landed \in [Keys -> Nat] /\ balance \in [Keys -> Balance]
    BY <1>0 DEF TabTyping
  <2>4. more \in Nat /\ sum \in Nat /\ more = Worth(balance[k]) + 1 /\ Worth(more) = more
    BY <1>0, <2>2, <2>3 DEF Balance, Unknown, Worth
  <2> HIDE DEF more, sum
  <2>5. /\ history'.landed = [history.landed EXCEPT ![k] = sum]
        /\ history'.saved = history.saved /\ history'.asked = history.asked
        /\ balance' \in [Keys -> Balance]
        /\ history' \in [landed : [Keys -> Nat], saved : SUBSET Keys,
                         asked : Addresses \cup {NoQuote}, spends : Nat, fails : Nat]
    BY <1>0, <2>1, <2>2, <2>3, <2>4 DEF TabTyping, Balance
  <2>6. TabTyping'
    BY <1>0, <2>1, <2>5 DEF TabTyping, Onward
  <2>7. Phases' /\ Quotes' /\ Answers'
    BY <1>0, <2>1, <2>5, PhasesKept, QuotesKept, AnswersKept
  <2>8. PaidKeysAreHeld'
    BY <1>0, <2>1, <2>5 DEF HeldKeys, PaidKeysAreHeld
  <2>9. Deltas'
    <3>1. ASSUME NEW q \in Keys
          PROVE  /\ history'.landed[q] \in Nat /\ history.landed[q] <= history'.landed[q]
                 /\ Worth(balance'[q]) - history'.landed[q]
                      <= Worth(balance[q]) - history.landed[q]
      <4>1. Worth(balance[q]) \in Nat /\ Worth(balance[k]) \in Nat
        BY <1>0, <2>2, <2>3 DEF Balance, Worth, Unknown
      <4>2. CASE q = k
        <5>1. balance'[q] = more /\ history'.landed[q] = sum
          BY <2>1, <2>2, <2>3, <2>5, <4>2
        <5>2. Worth(balance'[q]) = Worth(balance[q]) + 1
          BY <2>4, <4>2, <5>1
        <5> QED BY <2>2, <2>3, <2>4, <4>1, <4>2, <5>1, <5>2 DEF sum
      <4>3. CASE q # k
        <5>1. balance'[q] = balance[q] /\ history'.landed[q] = history.landed[q]
          BY <2>1, <2>2, <2>3, <2>5, <4>3
        <5> QED BY <2>3, <4>1, <5>1
      <4> QED BY <4>2, <4>3
    <3> QED BY <1>0, <2>1, <2>5, <3>1, DeltasOnward
  <2> QED BY <1>0, <2>1, <2>5, <2>6, <2>7, <2>8, <2>9, HeldKeysKept DEF TabInv
<1>4. ASSUME NEW k \in Keys, Spends(k)
      PROVE  TabInv'
  <2> DEFINE less == balance[k] - 1
             count == history.spends + 1
  <2>1. /\ UNCHANGED <<purchase, submitting, requoting, cycle, status, orders>>
        /\ balance[k] > 0
        /\ balance' = [balance EXCEPT ![k] = less]
        /\ history' = [history EXCEPT !.spends = count]
    BY <1>4 DEF Spends, client
  <2>2. history.landed \in [Keys -> Nat] /\ balance \in [Keys -> Balance]
        /\ history.spends \in Nat
    BY <1>0 DEF TabTyping
  <2>3. less \in Nat /\ Worth(less) <= Worth(balance[k]) /\ count \in Nat
        /\ \A q \in Keys : Worth(balance[q]) \in Nat
    BY <1>0, <2>1, <2>2 DEF Balance, Unknown, Worth
  <2> HIDE DEF less, count
  <2>4. /\ history'.landed = history.landed
        /\ history'.saved = history.saved /\ history'.asked = history.asked
        /\ balance' \in [Keys -> Balance]
        /\ history' \in [landed : [Keys -> Nat], saved : SUBSET Keys,
                         asked : Addresses \cup {NoQuote}, spends : Nat, fails : Nat]
    BY <1>0, <2>1, <2>2, <2>3 DEF TabTyping, Balance
  <2>5. TabTyping' /\ Onward
    BY <1>0, <2>1, <2>4, SameOrdersOnward DEF TabTyping
  <2>6. Phases' /\ Quotes' /\ Answers'
    BY <1>0, <2>1, <2>4, <2>5, PhasesKept, QuotesKept, AnswersKept
  <2>7. PaidKeysAreHeld'
    BY <1>0, <2>1, <2>4 DEF HeldKeys, PaidKeysAreHeld
  <2>8. Deltas'
    <3>1. \A q \in Keys : Worth(balance'[q]) \in Nat /\ Worth(balance'[q]) <= Worth(balance[q])
      BY <1>0, <2>1, <2>2, <2>3, <2>4 DEF Worth, Balance, Unknown
    <3>2. \A q \in Keys : /\ history'.landed[q] \in Nat
                          /\ history.landed[q] <= history'.landed[q]
                          /\ Worth(balance'[q]) - history'.landed[q]
                               <= Worth(balance[q]) - history.landed[q]
      BY <2>2, <2>3, <2>4, <3>1
    <3> QED BY <1>0, <2>1, <2>4, <3>2, DeltasOnward
  <2> QED BY <1>0, <2>1, <2>4, <2>5, <2>6, <2>7, <2>8, HeldKeysKept DEF TabInv
<1> QED BY <1>1, <1>2, <1>3, <1>4 DEF ServerStep

(* A failing call is counted and nothing else.                             *)
LEMMA FailureCounted ==
  ASSUME TabTyping, Failed
  PROVE  /\ history' \in [landed : [Keys -> Nat], saved : SUBSET Keys,
                          asked : Addresses \cup {NoQuote}, spends : Nat, fails : Nat]
         /\ history'.landed = history.landed /\ history'.saved = history.saved
         /\ history'.asked = history.asked
BY DEF TabTyping, Failed

(* Steps that change neither the orders nor the history keep what is said  *)
(* of paid keys.                                                           *)
LEMMA PaidKeysKept ==
  ASSUME PaidKeysAreHeld, history'.saved = history.saved,
         \A a \in Addresses :
           \/ orders'[a] = orders[a]
           \/ orders'[a].stage \in {"free", "waiting", "reaped"}
  PROVE  PaidKeysAreHeld'
BY DEF PaidKeysAreHeld

(* Submitting a key, pasted or minted.                                     *)
LEMMA SubmitKeepsTabInv ==
  ASSUME TabInv, NEW paste \in PastedKeys \cup {Blank}, Submit(paste)
  PROVE  TabInv'
<1>0. TabTyping /\ Phases /\ Quotes /\ HeldKeys /\ Deltas /\ Answers
  BY DEF TabInv
<1>1. /\ purchase.phase = "home" /\ ~purchase.busy /\ submitting.step = "none"
      /\ purchase' = [purchase EXCEPT !.busy = TRUE]
      /\ UNCHANGED <<requoting, cycle, status, balance, history>>
  BY DEF Submit
<1>2. /\ purchase' \in [phase : {"home", "pay", "done"}, order : Order \cup {NoOrder},
                        quote : Addresses \cup {NoQuote}, savedAck : BOOLEAN, busy : BOOLEAN]
      /\ purchase'.phase = "home" /\ purchase'.order = purchase.order
      /\ purchase'.quote = purchase.quote /\ purchase'.savedAck = purchase.savedAck
      /\ purchase'.busy
  BY <1>0, <1>1 DEF TabTyping
<1>3. requoting.step = "none" /\ cycle.step = "none"
  BY <1>0, <1>1, TabShapes DEF Phases
<1>4. Phases'
  BY <1>0, <1>1, <1>2, <1>3 DEF Phases
<1>5. CASE willTopUp(paste) /\ UNCHANGED orders
           /\ submitting' = [step |-> "baseline", token |-> paste,
                             answer |-> balance[paste], landed |-> history.landed[paste]]
  <2>1. paste \in PastedKeys /\ paste \in Keys
    BY <1>5 DEF willTopUp, Keys
  <2>2. balance[paste] \in Balance /\ history.landed[paste] \in Nat
    BY <1>0, <2>1 DEF TabTyping
  <2>3. /\ submitting'.step = "baseline" /\ submitting'.token = paste
        /\ submitting'.answer = balance[paste] /\ submitting'.landed = history.landed[paste]
        /\ submitting' \in [step : {"baseline"}, token : PastedKeys, answer : Balance,
                            landed : Nat]
    BY <1>5, <2>1, <2>2
  <2>4. TabTyping'
    BY <1>0, <1>1, <1>2, <1>5, <2>3 DEF TabTyping
  <2>5. Quotes' /\ HeldKeys'
    BY <1>0, <1>1, <1>2, <1>3, <1>5, <2>3 DEF Quotes, HeldKeys, PaidKeysAreHeld
  <2>6. Worth(balance[paste]) \in Nat
    BY <2>2 DEF Worth, Balance, Unknown
  <2>7. Deltas'
    BY <1>0, <1>1, <1>2, <2>1, <2>2, <2>3, <2>6 DEF Deltas, Ahead, DoneMeansCredited
  <2>8. Answers'
    BY <1>0, <1>1, <1>2, <1>5, SameOrdersOnward, AnswersKept
  <2> QED BY <1>4, <2>4, <2>5, <2>7, <2>8 DEF TabInv
<1>6. ASSUME NEW a \in Addresses, Opens(generateToken, a),
             submitting' = [step |-> "quote", answer |-> a,
                            order |-> [token |-> generateToken, wasNew |-> TRUE,
                                       baseline |-> 0, landed |-> 0]]
      PROVE  TabInv'
  <2> DEFINE new == [token |-> generateToken, wasNew |-> TRUE, baseline |-> 0, landed |-> 0]
  <2>1. generateToken \in MintedKeys /\ generateToken \in Keys
    <3>1. \A b \in Addresses : orders[b].stage = "free" <=> b >= a
      BY <1>6 DEF Opens
    <3>2. generateToken \in MintedKeys
      BY <1>0, <3>1, MintedKeyIsFresh
    <3> QED BY <3>2 DEF Keys
  <2>2. /\ Onward /\ orders'[a].key = generateToken /\ orders'[a].stage = "waiting"
        /\ \A b \in Addresses : b # a => orders'[b] = orders[b]
    BY <1>0, <1>6, <2>1, OpensOnward
  <2>3. /\ new \in Order /\ new.token = generateToken /\ new.wasNew
        /\ new.baseline = 0 /\ new.landed = 0
    BY <2>1 DEF Order
  <2>4. submitting' = [step |-> "quote", answer |-> a, order |-> new]
    BY <1>6
  <2> HIDE DEF new
  <2>5. /\ submitting'.step = "quote" /\ submitting'.answer = a /\ submitting'.order = new
        /\ submitting' \in [step : {"quote"}, answer : Addresses, order : Order]
    BY <2>3, <2>4
  <2>6. TabTyping'
    BY <1>0, <1>1, <1>2, <2>2, <2>5 DEF TabTyping, Onward
  <2>7. Quotes'
    BY <1>1, <1>2, <1>3, <2>2, <2>3, <2>5 DEF Quotes, Onward
  <2>8. PaidKeysAreHeld'
    BY <1>0, <1>1, <2>2, PaidKeysKept DEF HeldKeys
  <2>9. HeldKeys'
    BY <1>2, <2>3, <2>5, <2>8 DEF HeldKeys
  <2>10. Deltas'
    BY <1>0, <1>1, <1>2, <2>1, <2>3, <2>5 DEF Deltas, Ahead, DoneMeansCredited
  <2>11. Answers'
    BY <1>0, <1>1, <1>2, <2>2, AnswersKept
  <2> QED BY <1>4, <2>6, <2>7, <2>9, <2>10, <2>11 DEF TabInv
<1> QED BY <1>5, <1>6 DEF Submit

(* The balance is in, and the quote is asked for.                          *)
LEMMA BaselineKeepsTabInv ==
  ASSUME TabInv, Baseline
  PROVE  TabInv'
<1>0. TabTyping /\ Phases /\ Quotes /\ HeldKeys /\ Deltas /\ Answers
  BY DEF TabInv
<1> DEFINE base == IF submitting.answer = Unknown THEN 0 ELSE submitting.answer
           o == [token |-> submitting.token, wasNew |-> FALSE,
                 baseline |-> base, landed |-> submitting.landed]
<1>1. PICK a \in Addresses :
        /\ submitting.step = "baseline"
        /\ Opens(submitting.token, a)
        /\ submitting' = [step |-> "quote", answer |-> a, order |-> o]
        /\ UNCHANGED <<purchase, requoting, cycle, status, balance, history>>
  BY DEF Baseline
<1>2. /\ submitting.token \in PastedKeys /\ submitting.token \in Keys
      /\ submitting.answer \in Balance /\ submitting.landed \in Nat
  BY <1>0, <1>1, TabShapes DEF Keys
<1>3. base \in Nat /\ base = Worth(submitting.answer)
  BY <1>2 DEF Balance, Worth, Unknown
<1> HIDE DEF base
<1>4. /\ o \in Order /\ o.token = submitting.token /\ ~o.wasNew
      /\ o.baseline = base /\ o.landed = submitting.landed
  BY <1>2, <1>3 DEF Order
<1> HIDE DEF o
<1>5. /\ submitting'.step = "quote" /\ submitting'.answer = a /\ submitting'.order = o
      /\ submitting' \in [step : {"quote"}, answer : Addresses, order : Order]
  BY <1>1, <1>4
<1>6. /\ Onward /\ orders'[a].key = submitting.token /\ orders'[a].stage = "waiting"
      /\ \A b \in Addresses : b # a => orders'[b] = orders[b]
  BY <1>0, <1>1, <1>2, OpensOnward
<1>7. /\ purchase' = purchase /\ purchase.phase = "home" /\ purchase.busy
      /\ requoting' = requoting /\ requoting.step = "none"
      /\ history' = history /\ balance' = balance /\ cycle' = cycle /\ status' = status
  BY <1>0, <1>1 DEF Phases
<1>8. TabTyping'
  BY <1>0, <1>5, <1>6, <1>7 DEF TabTyping, Onward
<1>9. Phases' /\ Quotes'
  BY <1>0, <1>4, <1>5, <1>6, <1>7 DEF Phases, Quotes, Onward
<1>10. PaidKeysAreHeld'
  BY <1>0, <1>6, <1>7, PaidKeysKept DEF HeldKeys
<1>11. HeldKeys'
  BY <1>2, <1>4, <1>5, <1>7, <1>10 DEF HeldKeys
<1>12. Deltas'
  BY <1>0, <1>1, <1>3, <1>4, <1>5, <1>7 DEF Deltas, Ahead, DoneMeansCredited
<1>13. Answers'
  BY <1>0, <1>6, <1>7, AnswersKept
<1> QED BY <1>8, <1>9, <1>11, <1>12, <1>13 DEF TabInv

(* No baseline, or no quote: back to the form.                             *)
LEMMA SubmitFailsKeepsTabInv ==
  ASSUME TabInv, BaselineFails \/ QuoteFails
  PROVE  TabInv'
<1>0. TabTyping /\ Phases /\ Quotes /\ HeldKeys /\ Deltas /\ Answers
  BY DEF TabInv
<1>1. /\ submitting.step # "none" /\ submitting' = Idle /\ Failed
      /\ purchase' = [purchase EXCEPT !.busy = FALSE]
      /\ UNCHANGED <<requoting, cycle, status, orders, balance>>
  BY DEF BaselineFails, QuoteFails, server
<1>2. /\ purchase' \in [phase : {"home", "pay", "done"}, order : Order \cup {NoOrder},
                        quote : Addresses \cup {NoQuote}, savedAck : BOOLEAN, busy : BOOLEAN]
      /\ purchase'.phase = purchase.phase /\ purchase'.order = purchase.order
      /\ purchase'.quote = purchase.quote /\ purchase'.savedAck = purchase.savedAck
  BY <1>0, <1>1 DEF TabTyping
<1>3. /\ purchase.phase = "home" /\ requoting.step = "none" /\ submitting'.step = "none"
  BY <1>0, <1>1 DEF Phases, Idle
<1>4. TabTyping'
  BY <1>0, <1>1, <1>2, FailureCounted DEF TabTyping
<1>5. Phases' /\ Quotes'
  BY <1>0, <1>1, <1>2, <1>3 DEF Phases, Quotes
<1>6. HeldKeys' /\ Deltas'
  BY <1>0, <1>1, <1>2, <1>3, FailureCounted
  DEF HeldKeys, PaidKeysAreHeld, Deltas, Ahead, Worth, DoneMeansCredited
<1>7. Answers'
  BY <1>0, <1>1, <1>2, FailureCounted, SameOrdersOnward, AnswersKept
<1> QED BY <1>4, <1>5, <1>6, <1>7 DEF TabInv

(* The quote is in: the payment screen, with no status yet.                *)
LEMMA QuotedKeepsTabInv ==
  ASSUME TabInv, Quoted
  PROVE  TabInv'
<1>0. TabTyping /\ Phases /\ Quotes /\ HeldKeys /\ Deltas /\ Answers
  BY DEF TabInv
<1>1. /\ submitting.step = "quote" /\ submitting' = Idle
      /\ purchase' = [purchase EXCEPT !.phase = "pay", !.order = submitting.order,
                                      !.quote = submitting.answer, !.busy = FALSE]
      /\ UNCHANGED <<requoting, cycle, status, orders, balance, history>>
  BY DEF Quoted, server
<1>2. submitting.answer \in Addresses /\ submitting.order \in Order
  BY <1>0, <1>1, TabShapes
<1>3. /\ purchase' \in [phase : {"home", "pay", "done"}, order : Order \cup {NoOrder},
                        quote : Addresses \cup {NoQuote}, savedAck : BOOLEAN, busy : BOOLEAN]
      /\ purchase'.phase = "pay" /\ purchase'.order = submitting.order
      /\ purchase'.quote = submitting.answer /\ purchase'.savedAck = purchase.savedAck
      /\ ~purchase'.busy
  BY <1>0, <1>1, <1>2 DEF TabTyping
<1>4. /\ purchase.phase = "home" /\ requoting.step = "none" /\ submitting'.step = "none"
      /\ cycle.step = "none" /\ status = NoStatus /\ ~purchase.savedAck
      /\ submitting.step # "none"
  BY <1>0, <1>1, TabShapes DEF Phases, Idle
<1>5. submitting.answer # NoQuote /\ submitting.order # NoOrder
  BY <1>2, OrderShapes, KeyFlowAssumption DEF Addresses, NoQuote
<1>6. TabTyping'
  BY <1>0, <1>1, <1>3 DEF TabTyping
<1>7. Phases'
  BY <1>0, <1>1, <1>3, <1>4, <1>5 DEF Phases
<1>8. Quotes'
  BY <1>0, <1>1, <1>3, <1>4, <1>5 DEF Quotes
<1>9. HeldKeys'
  BY <1>0, <1>1, <1>3, <1>4, <1>5 DEF HeldKeys, PaidKeysAreHeld
<1>10. Deltas'
  BY <1>0, <1>1, <1>3, <1>4, <1>5 DEF Deltas, Ahead, DoneMeansCredited
<1>11. Answers'
  <2>1. ~ToldSeen /\ settledStatus(status.state) = "watching"
    BY <1>4 DEF ToldSeen, settledStatus, NoStatus
  <2>2. status' = status /\ cycle' = cycle
    BY <1>1
  <2> QED BY <1>4, <2>1, <2>2 DEF Answers, SecretStays, NotSeenIsCurrent, ToldSeen
<1> QED BY <1>6, <1>7, <1>8, <1>9, <1>10, <1>11 DEF TabInv

(* The save gate.                                                          *)
LEMMA SavedMyKeyKeepsTabInv ==
  ASSUME TabInv, SavedMyKey
  PROVE  TabInv'
<1>0. TabTyping /\ Phases /\ Quotes /\ HeldKeys /\ Deltas /\ Answers
  BY DEF TabInv
<1>1. /\ purchase.phase = "pay"
      /\ purchase' = [purchase EXCEPT !.savedAck = TRUE]
      /\ history' = [history EXCEPT !.saved = @ \cup {purchase.order.token}]
      /\ UNCHANGED <<submitting, requoting, cycle, status, orders, balance>>
  BY DEF SavedMyKey, server
<1>2. purchase.order.token \in Keys
  BY <1>0, <1>1, OrderShapes DEF TabTyping, Phases
<1>3. /\ purchase' \in [phase : {"home", "pay", "done"}, order : Order \cup {NoOrder},
                        quote : Addresses \cup {NoQuote}, savedAck : BOOLEAN, busy : BOOLEAN]
      /\ purchase'.phase = "pay" /\ purchase'.order = purchase.order
      /\ purchase'.quote = purchase.quote /\ purchase'.busy = purchase.busy
  BY <1>0, <1>1 DEF TabTyping
<1>4. /\ history' \in [landed : [Keys -> Nat], saved : SUBSET Keys,
                       asked : Addresses \cup {NoQuote}, spends : Nat, fails : Nat]
      /\ history'.landed = history.landed /\ history'.asked = history.asked
      /\ history'.saved = history.saved \cup {purchase.order.token}
  BY <1>0, <1>1, <1>2 DEF TabTyping
<1>5. TabTyping'
  BY <1>0, <1>1, <1>3, <1>4 DEF TabTyping
<1>6. Phases'
  BY <1>0, <1>1, <1>3 DEF Phases
<1>7. HeldKeys'
  BY <1>0, <1>1, <1>3, <1>4 DEF HeldKeys, PaidKeysAreHeld
<1>8. Onward
  BY <1>0, <1>1, SameOrdersOnward
<1>9. Quotes' /\ Deltas' /\ Answers'
  BY <1>0, <1>1, <1>3, <1>4, <1>8, QuotesKept, DeltasKept, AnswersKept
<1> QED BY <1>5, <1>6, <1>7, <1>9 DEF TabInv

(* The payment: the key on the screen was brought, or affirmed as saved.   *)
LEMMA PaysKeepsTabInv ==
  ASSUME TabInv, Pays
  PROVE  TabInv'
<1>0. TabTyping /\ Phases /\ Quotes /\ HeldKeys /\ Deltas /\ Answers
  BY DEF TabInv
<1> DEFINE a == purchase.quote
<1>1. /\ purchase.phase = "pay" /\ (purchase.order.wasNew => purchase.savedAck)
      /\ Advance(a, "waiting", "seen")
      /\ UNCHANGED <<purchase, submitting, requoting, cycle, status, balance, history>>
  BY DEF Pays, Paying, Gated, client
<1>2. a \in Addresses /\ orders[a].key = purchase.order.token
  BY <1>0, <1>1 DEF Quotes, TabTyping
<1> HIDE DEF a
<1>3. /\ Onward /\ orders'[a].key = orders[a].key
      /\ \A b \in Addresses : b # a => orders'[b] = orders[b]
  BY <1>0, <1>1, <1>2, AdvanceOnward
<1>4. TabTyping'
  BY <1>0, <1>1, <1>3 DEF TabTyping, Onward
<1>5. Phases' /\ Quotes' /\ Deltas' /\ Answers'
  BY <1>0, <1>1, <1>3, PhasesKept, QuotesKept, DeltasKept, AnswersKept
<1>6. orders[a].key \in PastedKeys \cup history.saved
  BY <1>0, <1>1, <1>2 DEF HeldKeys
<1>7. PaidKeysAreHeld'
  BY <1>0, <1>1, <1>3, <1>6 DEF HeldKeys, PaidKeysAreHeld
<1> QED BY <1>0, <1>1, <1>4, <1>5, <1>7, HeldKeysKept DEF TabInv

(* A new quote for the same key, asked for and answered.                   *)
LEMMA AsksNewQuoteKeepsTabInv ==
  ASSUME TabInv, AsksNewQuote
  PROVE  TabInv'
<1>0. TabTyping /\ Phases /\ Quotes /\ HeldKeys /\ Deltas /\ Answers
  BY DEF TabInv
<1>1. PICK a \in Addresses :
        /\ purchase.phase = "pay" /\ ~purchase.busy
        /\ Opens(purchase.order.token, a)
        /\ requoting' = [step |-> "quote", answer |-> a]
        /\ purchase' = [purchase EXCEPT !.busy = TRUE]
        /\ UNCHANGED <<submitting, cycle, status, balance, history>>
  BY DEF AsksNewQuote, Paying
<1>2. purchase.order.token \in Keys
  BY <1>0, <1>1, OrderShapes DEF TabTyping, Phases
<1>3. /\ purchase' \in [phase : {"home", "pay", "done"}, order : Order \cup {NoOrder},
                        quote : Addresses \cup {NoQuote}, savedAck : BOOLEAN, busy : BOOLEAN]
      /\ purchase'.phase = "pay" /\ purchase'.order = purchase.order
      /\ purchase'.quote = purchase.quote /\ purchase'.savedAck = purchase.savedAck
      /\ purchase'.busy
  BY <1>0, <1>1 DEF TabTyping
<1>4. /\ requoting'.step = "quote" /\ requoting'.answer = a
      /\ requoting' \in [step : {"quote"}, answer : Addresses]
  BY <1>1
<1>5. /\ Onward /\ orders'[a].key = purchase.order.token /\ orders'[a].stage = "waiting"
      /\ \A b \in Addresses : b # a => orders'[b] = orders[b]
  BY <1>0, <1>1, <1>2, OpensOnward
<1>6. submitting.step = "none"
  BY <1>0, <1>1 DEF Phases
<1>7. TabTyping'
  BY <1>0, <1>1, <1>3, <1>4, <1>5 DEF TabTyping, Onward
<1>8. Phases'
  BY <1>0, <1>1, <1>3, <1>4, <1>6 DEF Phases
<1>9. Quotes'
  <2>1. purchase.quote \in Addresses /\ purchase.order.token # Nobody
    BY <1>0, <1>1, <1>2, KeyFlowAssumption DEF Quotes, TabTyping, Keys
  <2> QED BY <1>0, <1>1, <1>3, <1>4, <1>5, <1>6, <2>1 DEF Quotes, Onward
<1>10. PaidKeysAreHeld'
  BY <1>0, <1>1, <1>5, PaidKeysKept DEF HeldKeys
<1>11. HeldKeys' /\ Deltas' /\ Answers'
  BY <1>0, <1>1, <1>3, <1>5, <1>10, HeldKeysKept, DeltasKept, AnswersKept
<1> QED BY <1>7, <1>8, <1>9, <1>11 DEF TabInv

LEMMA RequotedKeepsTabInv ==
  ASSUME TabInv, Requoted \/ RequoteFails
  PROVE  TabInv'
<1>0. TabTyping /\ Phases /\ Quotes /\ HeldKeys /\ Deltas /\ Answers
  BY DEF TabInv
<1>1. /\ requoting.step = "quote" /\ requoting' = Idle
      /\ \/ purchase' = [purchase EXCEPT !.quote = requoting.answer, !.busy = FALSE]
         \/ purchase' = [purchase EXCEPT !.busy = FALSE]
      /\ history' = history \/ Failed
      /\ UNCHANGED <<submitting, cycle, status, orders, balance>>
  BY DEF Requoted, RequoteFails, server
<1>2. requoting.answer \in Addresses /\ requoting.answer # NoQuote
  BY <1>0, <1>1, TabShapes, KeyFlowAssumption DEF Addresses, NoQuote
<1>3. /\ purchase' \in [phase : {"home", "pay", "done"}, order : Order \cup {NoOrder},
                        quote : Addresses \cup {NoQuote}, savedAck : BOOLEAN, busy : BOOLEAN]
      /\ purchase'.phase = purchase.phase /\ purchase'.order = purchase.order
      /\ purchase'.quote \in {purchase.quote, requoting.answer}
      /\ purchase'.savedAck = purchase.savedAck
  BY <1>0, <1>1, <1>2 DEF TabTyping
<1>4. /\ history' \in [landed : [Keys -> Nat], saved : SUBSET Keys,
                       asked : Addresses \cup {NoQuote}, spends : Nat, fails : Nat]
      /\ history'.landed = history.landed /\ history'.asked = history.asked
      /\ history'.saved = history.saved
  BY <1>0, <1>1, FailureCounted DEF TabTyping
<1>5. requoting'.step = "none" /\ submitting.step = "none"
  BY <1>0, <1>1, TabShapes DEF Phases, Idle
<1>6. TabTyping'
  BY <1>0, <1>1, <1>3, <1>4 DEF TabTyping
<1>7. Phases' /\ Quotes'
  BY <1>0, <1>1, <1>2, <1>3, <1>5 DEF Phases, Quotes
<1>8. Onward /\ PaidKeysAreHeld'
  BY <1>0, <1>1, <1>4, SameOrdersOnward, PaidKeysKept DEF HeldKeys
<1>9. HeldKeys' /\ Deltas' /\ Answers'
  BY <1>0, <1>1, <1>3, <1>4, <1>8, HeldKeysKept, DeltasKept, AnswersKept
<1> QED BY <1>6, <1>7, <1>9 DEF TabInv

(* What the server may say of an address is true of it when it is asked.   *)
LEMMA StatusIsTrue ==
  ASSUME TabTyping, Quotes, NEW a \in Addresses, NEW k \in Keys, orders[a].key = k,
         NEW answer \in orderStatus(k, a)
  PROVE  /\ answer \in Status
         /\ answer = "waiting" => orders[a].stage = "waiting"
         /\ answer # "waiting" => orders[a].stage \in Noticed
         /\ answer \in {"finalizing", "closed"} => orders[a].stage \in Final
<1>1. orders[a].stage \in OrderStages \ {"free"}
  BY KeyFlowAssumption DEF TabTyping, ServerOrder, Quotes, Keys
<1>2. CASE orders[a].stage = "waiting"
  BY <1>2 DEF orderStatus, Status
<1>3. CASE orders[a].stage = "seen"
  BY <1>3 DEF orderStatus, Status, Noticed
<1>4. CASE orders[a].stage = "final"
  BY <1>4 DEF orderStatus, Status, Noticed, Final
<1>5. CASE orders[a].stage \in {"booked", "credited", "reaped"}
  BY <1>5 DEF orderStatus, Status, Noticed, Final
<1> QED BY <1>1, <1>2, <1>3, <1>4, <1>5 DEF OrderStages

(* A check of the status: the question, and its answer.                    *)
LEMMA ChecksNowKeepsTabInv ==
  ASSUME TabInv, ChecksNow
  PROVE  TabInv'
<1>0. TabTyping /\ Phases /\ Quotes /\ HeldKeys /\ Deltas /\ Answers
  BY DEF TabInv
<1> DEFINE a == purchase.quote
           k == purchase.order.token
           asked == IF orders[a].stage = "waiting" THEN a ELSE NoQuote
<1>1. PICK answer \in orderStatus(k, a) :
        /\ purchase.phase = "pay" /\ cycle.step = "none"
        /\ cycle' = [step |-> "status", address |-> a, answer |-> answer]
        /\ history' = [history EXCEPT !.asked = asked]
        /\ status' = [status EXCEPT !.error = "none"]
        /\ UNCHANGED <<purchase, submitting, requoting, orders, balance>>
  BY DEF ChecksNow, Paying, Asked, ErrorIs, server
<1>2. a \in Addresses /\ orders[a].key = k /\ k \in Keys
  BY <1>0, <1>1, OrderShapes DEF Quotes, Phases, TabTyping
<1>3. asked \in Addresses \cup {NoQuote} /\ (orders[a].stage = "waiting" => asked = a)
  BY <1>2
<1> HIDE DEF a, k, asked
<1>4. /\ answer \in Status
      /\ answer = "waiting" => orders[a].stage = "waiting"
      /\ answer # "waiting" => orders[a].stage \in Noticed
      /\ answer \in {"finalizing", "closed"} => orders[a].stage \in Final
  BY <1>0, <1>2, StatusIsTrue
<1>5. /\ cycle'.step = "status" /\ cycle'.address = a /\ cycle'.answer = answer
      /\ cycle' \in [step : {"status"}, address : Addresses, answer : Status]
  BY <1>1, <1>2, <1>4
<1>6. /\ history' \in [landed : [Keys -> Nat], saved : SUBSET Keys,
                       asked : Addresses \cup {NoQuote}, spends : Nat, fails : Nat]
      /\ history'.landed = history.landed /\ history'.saved = history.saved
      /\ history'.asked = asked
  BY <1>0, <1>1, <1>3 DEF TabTyping
<1>7. /\ status' \in [state : Status \cup {"none"}, address : Addresses \cup {NoQuote},
                      error : Errors]
      /\ status'.state = status.state /\ status'.address = status.address
  BY <1>0, <1>1 DEF TabTyping, Errors
<1>8. TabTyping'
  BY <1>0, <1>1, <1>5, <1>6, <1>7 DEF TabTyping
<1>9. Phases' /\ Quotes'
  BY <1>0, <1>1, <1>5 DEF Phases, Quotes
<1>10. HeldKeys' /\ Deltas'
  BY <1>0, <1>1, <1>5, <1>6
  DEF HeldKeys, PaidKeysAreHeld, Deltas, Ahead, Worth, DoneMeansCredited
<1>11. Answers'
  <2>1. ToldSeen /\ answer = "waiting" => a # status.address
    BY <1>0, <1>4 DEF Answers, Noticed, Final
  <2> QED BY <1>0, <1>1, <1>3, <1>4, <1>5, <1>6, <1>7, <2>1
          DEF Answers, SecretStays, NotSeenIsCurrent, ToldSeen
<1> QED BY <1>8, <1>9, <1>10, <1>11 DEF TabInv

LEMMA StatusArrivesKeepsTabInv ==
  ASSUME TabInv, StatusArrives
  PROVE  TabInv'
<1>0. TabTyping /\ Phases /\ Quotes /\ HeldKeys /\ Deltas /\ Answers
  BY DEF TabInv
<1> DEFINE plausible == cycle.answer \in {"finalizing", "closed"}
           k == purchase.order.token
<1>1. /\ cycle.step = "status"
      /\ status' = [status EXCEPT !.state = cycle.answer, !.address = cycle.address]
      /\ cycle' = IF plausible
                  THEN [step |-> "balance", address |-> cycle.address, answer |-> balance[k]]
                  ELSE Idle
      /\ UNCHANGED <<purchase, submitting, requoting, orders, balance, history>>
  BY DEF StatusArrives, server
<1>2. /\ cycle.address \in Addresses /\ cycle.answer \in Status
      /\ purchase.phase = "pay" /\ purchase.order \in Order /\ k \in Keys
      /\ balance[k] \in Balance
  BY <1>0, <1>1, TabShapes, OrderShapes DEF Phases, TabTyping
<1>3. /\ plausible => /\ cycle'.step = "balance" /\ cycle'.address = cycle.address
                      /\ cycle'.answer = balance[k]
                      /\ cycle' \in [step : {"balance"}, address : Addresses, answer : Balance]
      /\ ~plausible => cycle' = Idle /\ cycle'.step = "none"
  BY <1>1, <1>2 DEF Idle
<1>4. /\ status' \in [state : Status \cup {"none"}, address : Addresses \cup {NoQuote},
                      error : Errors]
      /\ status'.state = cycle.answer /\ status'.address = cycle.address
      /\ status'.error = status.error
  BY <1>0, <1>1, <1>2 DEF TabTyping
<1>5. TabTyping'
  BY <1>0, <1>1, <1>3, <1>4 DEF TabTyping
<1>6. Phases' /\ Quotes'
  BY <1>0, <1>1, <1>2, <1>3 DEF Phases, Quotes
<1>7. HeldKeys' /\ Deltas'
  BY <1>0, <1>1, <1>2, <1>3
  DEF HeldKeys, PaidKeysAreHeld, Deltas, Ahead, Worth, DoneMeansCredited
<1>8. Answers'
  <2>1. cycle.answer = "waiting" => history.asked = cycle.address
    BY <1>0, <1>1 DEF Answers
  <2>2. /\ cycle.answer # "waiting" => orders[cycle.address].stage \in Noticed
        /\ plausible => orders[cycle.address].stage \in Final
    BY <1>0, <1>1 DEF Answers
  <2>3. settledStatus(cycle.answer) = "not seen" <=> cycle.answer = "waiting"
    BY <1>2 DEF settledStatus, Status
  <2>4. ToldSeen' => cycle.answer # "waiting"
    BY <1>4, <2>3 DEF ToldSeen, settledStatus
  <2>5. cycle.address # NoQuote
    BY <1>2, KeyFlowAssumption DEF Addresses, NoQuote
  <2>6. /\ cycle'.step # "status"
        /\ cycle'.step = "balance" => plausible /\ cycle'.address = cycle.address
    BY <1>3
  <2> QED BY <1>1, <1>4, <2>1, <2>2, <2>3, <2>4, <2>5, <2>6
          DEF Answers, SecretStays, NotSeenIsCurrent
<1> QED BY <1>5, <1>6, <1>7, <1>8 DEF TabInv

(* A failing read, of the status or of the balance, leaves an error.       *)
LEMMA CheckFailsKeepsTabInv ==
  ASSUME TabInv, StatusFails \/ BalanceFails
  PROVE  TabInv'
<1>0. TabTyping /\ Phases /\ Quotes /\ HeldKeys /\ Deltas /\ Answers
  BY DEF TabInv
<1>1. PICK error \in {"status", "credit"} :
        /\ cycle.step # "none" /\ cycle' = Idle /\ Failed
        /\ status' = [status EXCEPT !.error = error]
        /\ UNCHANGED <<purchase, submitting, requoting, orders, balance>>
  BY DEF StatusFails, BalanceFails, ErrorIs, server
<1>2. /\ status' \in [state : Status \cup {"none"}, address : Addresses \cup {NoQuote},
                      error : Errors]
      /\ status'.state = status.state /\ status'.address = status.address
      /\ status'.error # "none"
  BY <1>0, <1>1 DEF TabTyping, Errors
<1>3. cycle'.step = "none" /\ purchase.phase = "pay"
  BY <1>0, <1>1 DEF Idle, Phases
<1>4. TabTyping'
  BY <1>0, <1>1, <1>2, FailureCounted DEF TabTyping
<1>5. Phases' /\ Quotes'
  BY <1>0, <1>1, <1>3 DEF Phases, Quotes
<1>6. HeldKeys' /\ Deltas'
  BY <1>0, <1>1, <1>3, FailureCounted
  DEF HeldKeys, PaidKeysAreHeld, Deltas, Ahead, Worth, DoneMeansCredited
<1>7. Answers'
  BY <1>0, <1>1, <1>2, <1>3 DEF Answers, SecretStays, NotSeenIsCurrent, ToldSeen
<1> QED BY <1>4, <1>5, <1>6, <1>7 DEF TabInv

(* The balance is in: done, or the next check.                             *)
LEMMA BalanceArrivesKeepsTabInv ==
  ASSUME TabInv, BalanceArrives
  PROVE  TabInv'
<1>0. TabTyping /\ Phases /\ Quotes /\ HeldKeys /\ Deltas /\ Answers
  BY DEF TabInv
<1>1. /\ cycle.step = "balance" /\ cycle' = Idle
      /\ UNCHANGED <<submitting, requoting, orders, balance, history>>
  BY DEF BalanceArrives, server
<1>2. /\ purchase.phase = "pay" /\ purchase.order \in Order
      /\ cycle'.step = "none" /\ cycle.answer \in Balance
  BY <1>0, <1>1, TabShapes DEF Phases, Idle, TabTyping
<1>3. CASE UNCHANGED <<purchase, status>>
  <2>1. TabTyping'
    BY <1>0, <1>1, <1>3 DEF TabTyping
  <2>2. Phases' /\ Quotes' /\ HeldKeys' /\ Deltas'
    BY <1>0, <1>1, <1>2, <1>3
    DEF Phases, Quotes, HeldKeys, PaidKeysAreHeld, Deltas, Ahead, Worth, DoneMeansCredited
  <2>3. status.state \in {"finalizing", "closed"}
    BY <1>0, <1>1 DEF Answers
  <2>4. settledStatus(status.state) # "not seen"
    BY <2>3 DEF settledStatus
  <2>5. Answers'
    BY <1>0, <1>1, <1>2, <1>3, <2>4 DEF Answers, SecretStays, NotSeenIsCurrent, ToldSeen
  <2> QED BY <2>1, <2>2, <2>5 DEF TabInv
<1>4. CASE /\ cycle.answer > purchase.order.baseline
           /\ purchase' = [purchase EXCEPT !.phase = "done"] /\ status' = NoStatus
  <2>1. /\ purchase' \in [phase : {"home", "pay", "done"}, order : Order \cup {NoOrder},
                          quote : Addresses \cup {NoQuote}, savedAck : BOOLEAN, busy : BOOLEAN]
        /\ purchase'.phase = "done" /\ purchase'.order = purchase.order
        /\ purchase'.savedAck = purchase.savedAck /\ purchase'.busy = purchase.busy
    BY <1>0, <1>4 DEF TabTyping
  <2>2. NoStatus \in [state : Status \cup {"none"}, address : Addresses \cup {NoQuote},
                      error : Errors]
    BY DEF NoStatus, Errors
  <2>3. TabTyping'
    BY <1>0, <1>1, <1>4, <2>1, <2>2 DEF TabTyping
  <2>4. Phases' /\ Quotes' /\ HeldKeys'
    BY <1>0, <1>1, <1>2, <1>4, <2>1 DEF Phases, Quotes, HeldKeys, PaidKeysAreHeld
  <2>5. history.landed[purchase.order.token] > purchase.order.landed
    <3>1. Ahead(cycle.answer, purchase.order.token, purchase.order.baseline,
                purchase.order.landed)
      BY <1>0, <1>1, <1>2 DEF Deltas
    <3>2. /\ purchase.order.baseline \in Nat /\ purchase.order.landed \in Nat
          /\ history.landed[purchase.order.token] \in Nat
      BY <1>0, <1>2, OrderShapes DEF TabTyping
    <3>3. Worth(cycle.answer) = cycle.answer /\ cycle.answer \in Nat
      BY <1>2, <1>4, <3>2 DEF Worth, Balance, Unknown
    <3> QED BY <1>4, <3>1, <3>2, <3>3 DEF Ahead
  <2>6. Deltas'
    BY <1>0, <1>1, <1>2, <2>1, <2>5 DEF Deltas, Ahead, Worth, DoneMeansCredited
  <2>7. ~ToldSeen' /\ status'.state = "none"
    BY <1>4 DEF ToldSeen, settledStatus, NoStatus
  <2>8. Answers'
    BY <1>1, <1>2, <2>1, <2>7 DEF Answers, SecretStays, NotSeenIsCurrent
  <2> QED BY <2>3, <2>4, <2>6, <2>8 DEF TabInv
<1> QED BY <1>3, <1>4 DEF BalanceArrives

(* The next purchase starts from the form, with nothing affirmed.          *)
LEMMA BuyMoreKeepsTabInv ==
  ASSUME TabInv, buyMore
  PROVE  TabInv'
<1>0. TabTyping /\ Phases /\ Quotes /\ HeldKeys /\ Deltas /\ Answers
  BY DEF TabInv
<1>1. /\ purchase.phase = "done"
      /\ purchase' = [purchase EXCEPT !.phase = "home", !.order = NoOrder,
                                      !.quote = NoQuote, !.savedAck = FALSE]
      /\ UNCHANGED <<submitting, requoting, cycle, status, orders, balance, history>>
  BY DEF buyMore, server
<1>2. /\ purchase' \in [phase : {"home", "pay", "done"}, order : Order \cup {NoOrder},
                        quote : Addresses \cup {NoQuote}, savedAck : BOOLEAN, busy : BOOLEAN]
      /\ purchase'.phase = "home" /\ purchase'.order = NoOrder
      /\ ~purchase'.savedAck /\ purchase'.busy = purchase.busy
  BY <1>0, <1>1 DEF TabTyping
<1>3. submitting.step = "none" /\ cycle.step = "none" /\ status = NoStatus
  BY <1>0, <1>1 DEF Phases
<1>4. TabTyping'
  BY <1>0, <1>1, <1>2 DEF TabTyping
<1>5. Phases' /\ Quotes' /\ HeldKeys'
  BY <1>0, <1>1, <1>2, <1>3 DEF Phases, Quotes, HeldKeys, PaidKeysAreHeld
<1>6. Deltas'
  BY <1>0, <1>1, <1>2, <1>3 DEF Deltas, Ahead, Worth, DoneMeansCredited
<1>7. Answers'
  BY <1>0, <1>1, <1>2, <1>3 DEF Answers, SecretStays, NotSeenIsCurrent, ToldSeen
<1> QED BY <1>4, <1>5, <1>6, <1>7 DEF TabInv

LEMMA TabInitInv == TabInit => TabInv
<1> SUFFICES ASSUME TabInit PROVE TabInv
  OBVIOUS
<1> DEFINE opening == [phase |-> "home", order |-> NoOrder, quote |-> NoQuote,
                       savedAck |-> FALSE, busy |-> FALSE]
           past == [landed |-> [k \in Keys |-> 0], saved |-> {}, asked |-> NoQuote,
                    spends |-> 0, fails |-> 0]
<1>1. /\ purchase = opening /\ submitting = Idle /\ requoting = Idle /\ cycle = Idle
      /\ status = NoStatus /\ history = past
      /\ orders = [a \in Addresses |-> Free]
      /\ balance = [k \in Keys |-> IF k \in PastedKeys THEN Opening[k] ELSE Unknown]
  BY DEF TabInit
<1>2. /\ opening \in [phase : {"home", "pay", "done"}, order : Order \cup {NoOrder},
                      quote : Addresses \cup {NoQuote}, savedAck : BOOLEAN, busy : BOOLEAN]
      /\ opening.phase = "home" /\ opening.order = NoOrder /\ ~opening.savedAck
  OBVIOUS
<1>3. /\ past \in [landed : [Keys -> Nat], saved : SUBSET Keys,
                   asked : Addresses \cup {NoQuote}, spends : Nat, fails : Nat]
      /\ past.landed = [k \in Keys |-> 0]
  OBVIOUS
<1> HIDE DEF opening, past
<1>4. /\ Free \in ServerOrder /\ Free.key = Nobody /\ Free.stage = "free"
      /\ Idle.step = "none"
  BY DEF Free, ServerOrder, OrderStages, Idle
<1>5. NoStatus \in [state : Status \cup {"none"}, address : Addresses \cup {NoQuote},
                    error : Errors]
  BY DEF NoStatus, Errors
<1>6. balance \in [Keys -> Balance]
  BY <1>1, KeyFlowAssumption DEF Balance
<1>7. TabTyping
  BY <1>1, <1>2, <1>3, <1>4, <1>5, <1>6 DEF TabTyping
<1>8. Phases /\ Quotes /\ HeldKeys
  BY <1>1, <1>2, <1>4 DEF Phases, Quotes, HeldKeys, PaidKeysAreHeld
<1>9. Deltas
  <2>1. ASSUME NEW k \in MintedKeys PROVE Ahead(balance[k], k, 0, 0)
    <3>1. balance[k] = Unknown /\ history.landed[k] = 0
      BY <1>1, <1>3, KeyFlowAssumption DEF Keys
    <3> QED BY <3>1 DEF Ahead, Worth
  <2> QED BY <1>1, <1>2, <1>4, <2>1 DEF Deltas, DoneMeansCredited
<1>10. Answers
  <2>1. ~ToldSeen
    BY <1>1 DEF ToldSeen, settledStatus, NoStatus
  <2> QED BY <1>1, <1>2, <1>4, <2>1 DEF Answers, SecretStays, NotSeenIsCurrent
<1> QED BY <1>7, <1>8, <1>9, <1>10 DEF TabInv

LEMMA TabNextInv == TabInv /\ [TabNext]_tabVars => TabInv'
<1> SUFFICES ASSUME TabInv, [TabNext]_tabVars PROVE TabInv'
  OBVIOUS
<1>1. CASE SubmitStep
  BY <1>1, SubmitKeepsTabInv, BaselineKeepsTabInv, SubmitFailsKeepsTabInv, QuotedKeepsTabInv
  DEF SubmitStep
<1>2. CASE PayStep
  BY <1>2, SavedMyKeyKeepsTabInv, PaysKeepsTabInv, AsksNewQuoteKeepsTabInv,
     RequotedKeepsTabInv DEF PayStep
<1>3. CASE CheckStep
  BY <1>3, ChecksNowKeepsTabInv, StatusArrivesKeepsTabInv, CheckFailsKeepsTabInv,
     BalanceArrivesKeepsTabInv DEF CheckStep
<1>4. CASE buyMore
  BY <1>4, BuyMoreKeepsTabInv
<1>5. CASE ServerStep
  BY <1>5, ServerKeepsTabInv
<1>6. CASE UNCHANGED tabVars
  <2>1. UNCHANGED <<purchase, submitting, requoting, cycle, status, orders, balance, history>>
    BY <1>6 DEF tabVars, client, server
  <2>2. TabTyping' /\ Phases' /\ HeldKeys'
    BY <2>1 DEF TabInv, TabTyping, Phases, HeldKeys, PaidKeysAreHeld
  <2>3. Quotes' /\ Deltas' /\ Answers'
    BY <2>1, SameOrdersOnward, QuotesKept, DeltasKept, AnswersKept DEF TabInv
  <2> QED BY <2>2, <2>3 DEF TabInv
<1> QED BY <1>1, <1>2, <1>3, <1>4, <1>5, <1>6 DEF TabNext

(* The tab's inductive invariant, for any keys, openings and bounds.       *)
THEOREM TabInvariant == TabSpec => []TabInv
BY TabInitInv, TabNextInv, PTL DEF TabSpec

(* Every variable of the tab and of the server it sees keeps its type, and *)
(* no answer is awaited in a phase it does not belong to.                  *)
THEOREM TabTypeCorrect == TabSpec => []TabTypeOK
<1>1. TabInv => TabTypeOK
  BY DEF TabInv, TabTyping, Phases, TabTypeOK
<1> QED BY <1>1, TabInvariant, PTL

(* The quote is the order's, paid keys are held, "not seen" is current,    *)
(* done means a credit landed, and the raw key stays until then.           *)
THEOREM TabKeepsPurchase == TabSpec => []PurchaseIsKept
<1>1. TabInv => PurchaseIsKept
  BY DEF TabInv, Quotes, HeldKeys, Deltas, Answers, PurchaseIsKept, QuoteIsForOrder
<1> QED BY <1>1, TabInvariant, PTL

(* Whoever was told that a payment was seen is not told "not seen yet" of  *)
(* the same address again: an answer that says so was asked for before.    *)
THEOREM TabNeverUnseen == TabSpec => NeverUnseen
<1> DEFINE Kept == ToldSeen /\ purchase'.phase = "pay" =>
                     ToldSeen' \/ status'.address # status.address
<1>1. TabInv /\ [TabNext]_tabVars => [Kept]_tabVars
  <2> SUFFICES ASSUME TabInv, TabNext, ToldSeen, purchase'.phase = "pay"
               PROVE  ToldSeen' \/ status'.address # status.address
    OBVIOUS
  <2>1. TabTyping /\ Phases /\ Answers
    BY DEF TabInv
  <2>2. \/ status'.state = status.state
        \/ StatusArrives
    <3>1. CASE SubmitStep
      BY <3>1 DEF SubmitStep, Submit, Baseline, BaselineFails, Quoted, QuoteFails
    <3>2. CASE PayStep
      BY <3>2 DEF PayStep, SavedMyKey, Pays, AsksNewQuote, Requoted, RequoteFails, client
    <3>3. CASE ChecksNow \/ StatusFails \/ BalanceFails
      BY <2>1, <3>3 DEF ChecksNow, StatusFails, BalanceFails, ErrorIs, TabTyping
    <3>4. CASE BalanceArrives
      <4>1. purchase'.phase # "done"
        OBVIOUS
      <4>2. [purchase EXCEPT !.phase = "done"].phase = "done"
        BY <2>1 DEF TabTyping
      <4> QED BY <3>4, <4>1, <4>2 DEF BalanceArrives
    <3>5. CASE buyMore
      BY <3>5 DEF buyMore
    <3>6. CASE ServerStep
      BY <3>6 DEF ServerStep, Confirms, Books, Credits, Expires, Reaps, Spends, client
    <3> QED BY <3>1, <3>2, <3>3, <3>4, <3>5, <3>6 DEF TabNext, CheckStep
  <2>3. CASE status'.state = status.state
    BY <2>3 DEF ToldSeen
  <2>4. CASE StatusArrives
    <3>1. /\ cycle.step = "status" /\ cycle.answer \in Status
          /\ status'.state = cycle.answer /\ status'.address = cycle.address
      BY <2>1, <2>4, TabShapes DEF StatusArrives, TabTyping
    <3>2. CASE cycle.answer = "waiting"
      BY <2>1, <3>1, <3>2 DEF Answers
    <3>3. CASE cycle.answer # "waiting"
      BY <3>1, <3>3 DEF ToldSeen, settledStatus, Status
    <3> QED BY <3>2, <3>3
  <2> QED BY <2>2, <2>3, <2>4
<1> QED BY <1>1, TabInvariant, PTL DEF TabSpec, NeverUnseen
=============================================================================
