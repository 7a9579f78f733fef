# nullsink in TLA+

nullsink resells metered LLM access for prepaid, anonymous credit.  A customer holds a bearer token, the
service holds a balance under the token's hash, and a payment on a chain turns into credit.  Nobody can be
asked afterwards who paid or what was used, so the books have to be right by themselves.  These modules model
the parts of `core/` that move money, and the page of `client/` that asks for it: they are checked with TLC
on small instances, and everything that moves money - the balance store, the boots and requests that use it,
the crossing of credits, the order tables, the buy endpoint, the response streams, and what a request is
charged - is proved correct for every instance with TLAPS.

## 1. The system

Three processes on one host, two SQLite databases, two Unix sockets.

```
 client --HTTP--> proxy ----ledger.sock----> ledger -- balances.db
                    |                          ^
                    v                          | credit.sock
                 upstream                   payments -- pending.db <--- wallets, price venues
                                               ^
 browser --HTTP /buy, /order-status------------+     backup: snapshots of both databases
    `-----HTTP /balance--> proxy
```

| Component | State | Operations | Where it is hard |
|---|---|---|---|
| Ledger store `ledger/db.ts` | tokens, applied_orders, holds, ledger_session, retired_ledger_sessions, settled_holds | beginSession, openSessionHold, settleSessionHold, creditOnce | every request may arrive twice, late, or from a dead session |
| Ledger process `ledger/server.ts`, `ledger-service.ts` | none of its own | one request, one transaction, one answer | answers get lost |
| Ledger client `ledger/client.ts` | one immutable payload per call, the operation budget | startSession, openHold, settleHold, getBalance | retries; an unknown outcome ends the process |
| Proxy lifecycle `proxy.ts`, `shutdown.ts` | session id, registry of in-flight streams | boot barrier, SIGTERM, drain, exit | crashes between debit and settlement; the drain takes one snapshot |
| Metered handler `handler.ts` | per request: hold, scanner, settlement latch, deadline timer | gates, hold, upstream fetch, stream pull/cancel, settle | five terminal events race for one settlement |
| Usage scanners `cost/usage/*` | what was parsed so far | feed, result, errored | what counts as billable evidence |
| Poller and settle `payments.ts`, `ledger/settle.ts`, `ledger/poll.ts` | poll in flight | tick, settle per rail, drain of the outbox | wallets lag, statements are separate transactions |
| Order store `ledger/orders.ts` | pending_orders, credit_outbox, revenue | claim, markSeen, commitSettlement, purge, ack, re-arm | two rails and a restart share the tables |
| Credit crossing `credit-sender.ts`, `credit-server.ts` | the drain's list | send oldest first, acknowledge | ambiguous answers |
| Order status `ledger/orderstatus.ts`, `endpoints/payment-reads.ts` | progress, in memory | update, get | the map dies with the process |
| Buy endpoint `endpoints/buy.ts`, `ratelimit.ts` | reservations, token bucket | quote and claim an order | two awaits between check and insert |
| Rate source `rails/rate.ts` | cached rate, one fetch in flight | cache, single flight, failover | a failed fetch has many waiters |
| Pay rails `rails/monero.ts`, `bitcoin.ts` | the wallet (external) | createAddress, incomingTransfers | reports that are stale or empty |
| Pricing and holds `cost/pricing.ts`, `hold.ts` | none: a table of rates | costOf, priceHoldBound, countTokensHold | the reservation has to dominate a bill whose classification is not known yet |
| Providers `providers/*`, `http/headers.ts` | none | resolve a model, refuse what no rate covers, prepare the body, filter headers | what is counted, what is forwarded and what is billed are three different bodies |
| Metrics `metrics.ts` | the counters of the open window, last reported credit state | record*, flush | requests cross the window's flush |
| Backup and restore `deploy/backup.sh`, `restore.sh` | the artifact | two snapshots, validation, restore and re-arm | the two databases are copied at two moments |
| Web client `client/src/flow/KeyFlow.tsx`, `QuotePay.tsx`, `lib/api.ts` | one purchase, its quote, the last status, the save gate | submit, re-quote, check, buy more | answers arrive after the user has gone on; a lost key is lost money |

Without a model: the operator CLI and the repository's scripts, which run alone against files nobody else
writes.  `components` in `PROJECT.json` says of every other part what is left out.

What makes each part correct:

- **store**: money is conserved; a session takes money for a hold id at most once; a session that was
  superseded never comes back; a hold leaves the journal by its settlement or by a new session's recovery.
- **client, ledger process, boots**: what a request was told agrees with the journal, whatever is lost or
  repeated; holds of a dead boot come back; nobody waits for ever.
- **handler and drain**: one decision per request, billed by its evidence, counted once; a stream ends
  cleanly only if its charge is confirmed; every hold is closed.
- **payments**: an order is credited with what was paid, booked once, not reaped while money is on its way;
  every credit lands in the ledger exactly once.
- **buy**: no more orders than the cap, no address without an order, no stale price, no leaked slot.
- **pricing, providers**: a request whose work was done in full is charged what the provider invoices for it,
  and nothing else is charged without evidence.
- **outcomes and metrics**: one charge per hold, every forwarded request in one terminal counter, and a 401 or
  402 always means the client's own token or balance; what the upstream says of the operator's account is told
  to nobody.
- **backup**: a complete pair is one that restore accepts, and no credit is missing from it.
- **web client**: nothing is paid for a key the user has not saved or to another key's address, a payment that
  was seen is never unseen, "done" means a credit landed.

## 2. The modules

| Module | What it models | State and actions in the code |
|---|---|---|
| `Ledger` | the store: one action per transaction | the six tables; `credited`, `charged`, `debits`, `tenures` are history |
| `XProofs` | the theorems of section 5 about module `X`; `PricingProofs` holds those of `Pricing` and `UsageMetering`, `PurchaseProofs` those of `Purchase` and `KeyFlow`, `SettlementProofs` those of `Settlement` and `Outcomes` | |
| `SumLemmas` | lemmas about sums over finite sets, for the proofs about money | |
| `PrepaidAccounts` | abstract: what metering promises a customer - deposit, reserve, charge, recover | no sessions, no messages, no journal |
| `Metering` | proxy boots, their ledger client, the socket, the ledger process; INSTANCEs `Ledger` | `proxy` is the session barrier, `request` a handler's locals, `call` the client's outstanding call, `wire` the attempts not taken yet |
| `StreamSettlement` | the terminal races of requests inside one proxy, and the SIGTERM drain | `req` is what a handler closes over, `inflight` the registry of `proxy.ts` |
| `CreditCrossing` | outbox, drain, credit socket, backup and restore; INSTANCEs `Ledger` for creditOnce | `credit_outbox`, `work` and `sending` are the drain's locals, `artifact` what backup.sh has copied |
| `Settlement` | orders, poll tick per rail, settle() statement by statement, order status by address and by hash | `settling` is settle()'s locals, `progress` the live map |
| `Purchase` | `/buy` with its bucket, rate cache, reservation and claim | `request` is a handler's locals, the rest are the closures of buy.ts, rate.ts and ratelimit.ts |
| `Pricing` | the arithmetic of pricing.ts, hold.ts and the usage adapters, over a constant table of rates | operators only |
| `UsageMetering` | one request from its model id to its bill: routing, gates, hold, forwarded body, upstream, scanner, charge; EXTENDS `Pricing` | `call` is what the handler forwards, `up` the upstream's work, `scan` the scanner's closure, `bill` the charge |
| `Outcomes` | every exit of the handler, the ledger calls behind it, metrics windows, shutdown | `req` is a handler's locals, `window` the counters, `journal` the flushed lines by level |
| `KeyFlow` | one tab on the purchase page and the server as the page sees it | `purchase`, `status` are component state, `submitting`, `requoting`, `cycle` the handlers between their awaits |

`MCx` modules hold the bounds of `x`.  `Outcomes` and `KeyFlow` prefix the names of their specification
(`OutcomeSpec`, `TabSpec`), because a proof module extends each beside another specification.  A definition whose comment starts with "Mutant" is a plausible bug in
the definition after it; it is part of no specification, and shows that a property can tell the two apart.

Conventions.  One SQLite transaction, or one synchronous stretch of the event loop, is one action; whatever
the code awaits is two.  settle() is synchronous, but each of its statements is a transaction, so it is
modelled statement by statement with nothing but a death of the process in between.  Messages on the metering
socket stay until taken, also when the sender is dead; losing one is never taking it.  A timeout is a choice
that is always open; only `Purchase`, whose properties are about time, makes the clock wait for a timer.
Amounts are integers; `MaxSafeInteger` guards are the code's.  Every bound is a CONSTANT with a comment.

The request path is seen from four sides, and the modules do not share a state: `Metering` has the calls to
the ledger, `StreamSettlement` the races for one decision, `UsageMetering` the amounts, `Outcomes` the gates
and the counters.  Each leaves what the others decide a free choice, so none relies on another's result.
`KeyFlow` treats the server the same way: any status `Settlement` can give in any order it can give them.

`Metering` implements `PrepaidAccounts` (`ImplementsAccounts`): a balance is the ledger's, the reservations
and the charges are the journal's and the tombstones'; retries, lost answers and replays are stutters.

## 3. The runs

| Run | Question | Bounds |
|---|---|---|
| `ledger` | Does the store conserve money and fence old sessions under any order and repetition of calls? | 2 tokens, 3 sessions, 2 hold ids, 2 credit keys, amounts -1, 1, 2, 4 with 3 the largest safe one |
| `metering` | Do retries, lost and late messages and crashes keep requests and journal in agreement? Does it implement the abstract accounts? | 2 boots, 2 requests, 2 attempts per call |
| `metering_liveness` | Are the holds of a dead boot recovered, and does every wait end? | 3 boots, 1 request, 2 payments of 1 for its token, holds and bills of 1, 2 |
| `credit_crossing` | Does every credit land exactly once, oldest first, also across a backup and its restore? | 2 keys, 2 tokens, one row of an earlier release, one crash, one backup, one restore |
| `settlement` | Is every payment credited as paid, no order reaped under its payer's feet, and no sighting taken back? | 2 rails with the same index, 3 orders, two of them of one token, 2 transactions (one pays two orders, one of them twice), 3 instants |
| `streams` | Does a request have one decision, counted and charged once, in every race? | 2 requests, all kinds of chunk, 1 rejected settlement |
| `purchase` | Are cap, reservation, bucket and rate cache right under concurrent requests? | 3 requests, 2 slots, 2 venues, 4 instants, one order of another instance |
| `usage` | Is an honest provider's invoice what the client pays, and is everything else billed on evidence? | 3 providers, 3 endpoints, 7 model ids, 7 options, 6 prompts, caps absent, 0, 1, 2, counts off by -2, 0, 36, 2 frames |
| `outcomes` | Is every hold charged once, every request counted once, every denial our own, and the operator's account never shown? | 2 requests on one token that pays for both or for one, 7 sets of flaws, 6 refusals of the upstream (401, 402, credential and credit errors under 400, a model error, an overload), 1 rejected ledger call, 1 read or periodic flush |
| `key_flow` | Does the page keep what it tells the buyer, whatever is late or fails? | 1 pasted key, 3 minted, 3 orders, 1 spend, 1 failed call |
| `delayed_start`, `late_stream` | Where the code and its comments disagree (section 4) | as above |

Why the bounds are enough.  The store's properties are per hold id, per session and per token, and need two of
each to interfere and a third session to supersede the second; the theorems remove the bound there.  Two
attempts per call give "the first is still on the wire when the second is answered"; a third repeats the
second.  In `metering` two boots are one supersession, and in the liveness run three are "the boot that
recovers dies too".  Two requests meet only in the drain.  Two transactions on one order give repeated payment,
two orders in one transaction give the key, two rails with one index give the namesakes.  In `purchase` two
slots and three requests make a loser; a window of cache plus a slow fetch fits in four instants.  Amounts
cover refused (negative, too large), covered and not covered.  In `usage` rates are small and do not divide,
so truncation shows; a drift of 36 takes the count past the byte bound, -2 below the pad; two frames are one
before and one after an error.  In `outcomes` an account that covers two
holds lets every way of settling meet every other.  One that covers one hold is empty at the second request's
gate while the first holds it or after a full charge, and openHold refuses the second after a charge for the
input alone, or when both passed the gate before the first reserved.  The upstream refuses the operator's key
and credit in and out of their usual statuses.  A request and a read cross a periodic or the last flush.
In `key_flow` three orders are a purchase, its new quote and the next
purchase, which is when an old answer can reach a new screen.

CHECK_DEADLOCK is off where the system stops: all boots are used up or all requests are over, the bounded
clock has run out (payments, buy), or the orders of the page are (`key_flow`).

## 4. What the runs show

The passing runs find nothing against the properties they state.  Two runs state what a comment of the
repository says and refute it; each is a narrow case, told here as the trace tells it.

- `delayed_start`.  A comment in db.ts has it that a superseded session cannot become current again.  True of
  sessions that were current once (`OneTenure`, proved).  A boot that died with its startSession on the wire
  was never current: taken late, the request supersedes the live proxy and refunds its open holds.
- `late_stream`.  shutdown.ts promises to settle every straggler.  A request whose upstream answers after the
  drain took its snapshot starts a stream that is not in it, and can deliver text before the process exits; its
  hold is refunded whole by the next boot.

Behaviours the models contain, which are worth knowing and which no property forbids:

- A refused open_hold leaves no trace in the store.  If a repeated attempt is taken after the request was
  denied, and a top-up came in between, a hold opens that its request never settles; it stays until the next
  boot recovers it.
- payment-reads.ts says a second payment can never be credited once the first closed the order.  Two payments
  that become final in the same tick are both credited, since settle() reads the open orders once.
- The durable seen_at spares orders that were seen once.  An order whose wallet was behind for its whole window
  was never seen and is reaped.
- metrics.ts states its identity of requests and terminal counters for the process's life, and so does
  `Reconciled`.  Its remark that served never exceeds requests does not hold of one window: a request that
  crosses a flush is served in a window that may have counted none, and the line leaves `served` out then.
- A request whose settlement was rejected is in no terminal counter (`unsettled` in `Reconciled`).
- A new quote does not reset the status on the screen, and a payment to the earlier address is noticed when the
  new order closes or the balance is read (`CreditIsNoticed` covers it).
- A top-up during which the same key spends may never show "done": success is a balance above the baseline.
- A counter that falls short of the prompt by more than the pad can let the clamp take part of an honest bill:
  hold.ts calls it a bet.  `HonestBillIsExact` excludes it by name (`call.short`).

One race that looks like a flaw is handled: a client that cancels while the drain runs may be recorded as
either cause, but the decision is taken once and a retry bills that decision (`DecisionIsFinal`).

### Fairness

Safety runs assume none.  Liveness assumes:

- `Metering`: systemd starts a proxy again (`Restart=always` in `nullsink-proxy.service`), a live process runs
  on, the client's operation timers fire.  Nothing is assumed of the ledger or the wire: a call that gets no
  answer ends by its budget, and with it the process.
- `CreditCrossing`: the payments process is restarted, its interval fires, and - strong fairness - a sender
  that asks for ever is answered and hears an answer sometime.  Without that last one a partition may last for
  ever, and so may the credit's delay.
- `StreamSettlement`: the deadline timer fires, reader.cancel() returns, a pending settlement is answered one
  way or the other, the upstream fetch returns (it has a timeout).  Nothing is assumed of a client or of the
  upstream's body.
- `KeyFlow`: the poll ticks while the tab is visible, a call ends one way or the other, chains, clocks and the
  server's own steps go on.  Nothing makes the user pay, press a button or stay.
- `Purchase`: fetches and wallet calls end by their AbortSignal timeouts; a request that holds its rate runs
  on.  No venue is assumed to answer.

## 5. The proofs

`LedgerProofs` proves, for any sets of sessions, hold ids, tokens, credit keys and amounts (`LedgerAssumption`:
the hold ids are finitely many, amounts are integers, NoSession is no session):

- `LedgerTypeOK` (tables well formed, no negative balance), `LedgerConservation`, `LedgerFencing`
  (`SessionsFenced`: one tenure per session, rows of the current session only) and `LedgerDebits` as
  `Spec => []...`, and `LedgerClosing`, an action property, from the same invariant.

The invariant `IInv` (theorem `LedgerInvariant`) is stronger than what it is for:

- `TypeOK`, `Conservation` and `RowsOfCurrentSession` are in it as they are.
- `HashesKnown`: a hold's token has a row.  Without it a refund could go to a token that does not exist, and
  conservation would not survive a recovery.
- `Fencing`: the current session is not retired, and exactly the current and the retired sessions had a tenure.
  It is what makes "never superseded before" readable from the tables, for `OneTenure`.
- `Debits`: a session has taken money for an id only if it is retired, or the id still has a row or a
  tombstone.  It is what the replay branches of openSessionHold rely on: an id with neither row nor tombstone
  is untouched by the current session.

Each of the four transactions preserves each conjunct by a lemma of its own; conservation is arithmetic on
sums over the journal, for which `SumLemmas` shows from the definition of the fold in the community modules'
sums what adding, removing, or replacing one summand does.

`StreamSettlementProofs` proves, for any finite set of requests, any chunks their upstreams may send and any
positive costs and hold (`StreamAssumption`):

- `StreamTypeOK`, whose core is that the shutdown registry is exactly the streams without a confirmed
  settlement, `StreamEndsAgree` and, as an action property, `StreamDecisionIsFinal`.

Requests meet only in the drain, so almost everything is said of one handler's record: `Sound(q)`.  Its parts
that the properties do not name:

- `Based`: a decided stream's decision is what decideStreamSettlement returns for its *current* evidence and
  the cause it recorded.  With the lemma `DecisionTable`, which checks the policy table once, it gives
  ChargeFollowsEvidence.
- `Frozen` is what keeps `Based`: after the first terminal event no chunk is taken any more, because the cause
  is marked, or the pull waits for its settlement, or the client's stream is no longer open.  In particular a
  cancel() that still waits for its reader has its cause marked.
- `Earned`: only a read that ended without a marked cause gives "served".

`SettleKeeps`, `HandlerStep`, `AnswerStep` and `DrainStep` show that every update of a record keeps `Sound` and
takes back nothing (`Kept`); `EventKeeps`, `AnswerKeeps` and `ProcessKeeps` put the record back and keep the
registry.  `Lost` counts for StragglersAnswered: a straggler is neither settled nor awaited only after a
rejection of its own.

`PurchaseProofs` proves, for any set of buyers and of other instances' orders, any cap, bucket, number of
venues and timeouts (`PurchaseAssumption`: naturals, MaxOpen, Cost and Sources positive; None is no fetch):

- `PurchaseTypeOK`, whose core is that pendingCreates is exactly the number of handlers between their
  reservation and its release, `PurchaseCap`, `PurchaseNoOrphans` and `PurchaseRateIsFresh`.

Its invariant `IInv` (theorem `PurchaseInvariant`) adds to the types:

- `Room`: open rows and reservations *together* stay under the cap until another instance has claimed.  The cap
  alone is not enough for NoOrphans: a claim is refused when rows fill the table behind a reservation.  It
  needs `Slots`, the exact counter, because a leaked or twice returned slot breaks the sum.
- `Ages`: a bound for every rate that is still on its way into a row: the cache's entry when it was stored, the
  fetch in flight, and the rates held by handlers.  `Waiters` says that nobody waits for a rate unless a fetch
  is in flight, so that a fetch's answer is the only way a waiter gets a rate.

`PurchaseAdmission` (`AdmissionBounded`) has an invariant of its own.  What is admitted between any two
admissions is paid for by one full bucket and the refill between them, but a later admission needs to know what
the bucket still holds: `Paid` says of every admission so far that all since it, *and the tokens left*, are
within one bucket and the refill since.  A refill pays for itself (`RefillCovers`), and a clamp at the capacity
only loses tokens.

`PricingProofs` proves, for any table of rates that keeps `assertRateInvariants`, any divisor and any pad
(`PricingAssumption`):

- `CostWithinHold`: a report whose tokens together are within the estimate and whose output is within the cap
  costs at most the reservation, however its tokens are split into plain, cached and written, with 1-hour
  writes only if the request could make them.  The argument is one product at a time: each class costs at most
  its tokens at the dearest rate, the products add up, and truncating division keeps the order.
- `OneHourNeverCheaper` and `SplitPartitionsTotal`: the write slices and OpenAI's inclusive total neither lose
  nor invent a token.

and on top of it, for any prompts, options, caps, headers and counting errors (`UsageAssumption`: counts are
naturals, the 1-hour slice is within the writes, a prompt has at least one token and at most one per byte,
tokens outside the conversation are in a field that carries them, no row of the table is the unpriced alias):

- `UsageTypeOK` and `UsageHonestBill`: the chain from the gates to the charge.  `RouteIsOwned` (a route ends at
  a provider that owns the model), `PlainOptions` (what is left once the premium features are refused),
  `CapForwarded` (the cap that goes upstream is the one the hold was sized for, in whichever field it came),
  `CountCovers` and `HoldCovers` (the padded count, or the byte bound, covers the prompt), `InclusiveIsExact`
  (OpenAI's report means what was spent) and `OneCard` (an answer's name never changes the card) each take one
  step of it.  The invariant ties them together: `Admitted` and `Covered` are what the gates established,
  `Scanned` and `Reported` that the scanner's closure is the upstream's work so far - in particular a report
  before the end is an opening of Anthropic's, and visible text has left either a report or an `any`.
- `UsageBilledOnEvidence` (`BilledOnEvidence`), for all rates and without further hypotheses.  A failure or a
  drain without evidence charges nothing (`UnprovenFailureIsFree`).  Once text was seen, the charge is at least
  what that text is worth (`VisibleWorkIsBilled`): with Anthropic the charge, within the hold, for what the
  opening frame reported; elsewhere the cost of the tokens of output seen, at four characters to a token.  The
  argument: `OutputIsBilled` and `WorkGrows` (a bill grows with its output), `ChargeMonotone` (the clamp keeps
  that order) and a hold that covers the output up to the cap whatever the counter said (`HoldCovers`).  Worth
  is what `costOf` says, and `costOf` truncates: at the cheapest shipped rates (an output token of gpt-5-nano
  is 0.4 of a micro-dollar) a token of text on a tiny prompt is worth, and costs, nothing, which pricing.ts
  accepts in the user's favour.

`SettlementProofs` proves, for any rails, orders, transactions with finitely many outputs, prices, cap and
horizons (`SettlementAssumption`), with every statement of settle() a step and a crash possible after each:

- `SettlementTypeOK`, `SettlementBooks` (`BookedAsPaid`), and the action properties `SettlementSpares`
  (`SeenOrdersSpared`) and `SettlementStatus` (`StatusNeverRegresses`).

`World` types what the properties leave alone.  `Scan` is the heart: what a settle() still has in hand, from its
one read of the tables to its last statement, is about minted orders, payments on the chain and transactions
that are final, and an order it found live is either seen already or still on its list to be marked.
`LiveIsSeen` says that a live status is that of a seen order; without it a reap could close an order whose buyer
was told "confirming".

`CreditCrossingProofs` proves, for any tokens, keys and shares (`CrossingAssumption`: finitely many keys, shares
within the largest safe integer):

- `CrossingTypeOK`, `CrossingExactlyOnce` (`CreditedAsOwed`), `CrossingForgetsNothing` and `CrossingInOrder`.

`Tables` relates the outbox to what is owed, `Delivery` the drain's list, the request it waits for and the
answer it has not seen, `Backup` the half-copied artifact to the live ledger and the whole one to itself.  The
first draft had every row of the outbox carry the payload that is owed for its key; TLC refuted it before a
proof was tried.  After a restore the ledger may have a marker whose row is gone, and settle() may enqueue the
same key again with another share.  So `Faithful` says it of the keys the ledger has not applied, which is what
matters: an applied key is never credited again, whatever its row says.

`MeteringProofs` proves, for any numbers of boots, requests, attempts, tokens and amounts (`MeteringAssumption`:
finitely many hold ids, which are no sessions, amounts within the largest safe integer, at least one attempt):

- `MeteringTypeOK`, `MeteringJournal` (`RequestsMatchJournal`), `MeteringConservation`, and
  `MeteringImplementsAccounts`, the refinement, step by step.

It stands on `LedgerProofs`, instantiated with every integer as an amount: the clamp of a charge makes the set
of amounts a caller may name irrelevant.  `MeteringUsesLedger` shows that each step of the composed system is a
step of `Ledger` or leaves the store alone, so the store's invariant is a conjunct for free, and what
`LedgerProofs` says of the store holds of it under these clients: `MeteringFencing`, `MeteringDebits` and
`MeteringClosing` beside `MeteringConservation`.  The other conjuncts say that the same request is meant
everywhere:

- `Processes`, `Messages`, `Calls`: whatever is on the wire, however old, carries what its request says now, and
  an answer is one that the operation can have.  This is the client's "one immutable payload", and it is what
  makes a late duplicate harmless.
- `Rows`, `Promises`: a row or a tombstone is that of its request, and while a request's session is current a
  hold that was reported open is journalled and a settlement that was reported has its tombstone.
- `Billed`: some set of requests, all past their settlement call and containing all that were told so, adds up
  to what the token was charged.  The set has to be existential, because a settlement whose answer is lost may
  or may not have committed, and tombstones of earlier sessions are gone.
- `Debited`: money was taken for a request by its own session, once for each row; the simulation needs it to
  show that a reservation of the abstract accounts is new.

The second half of `SettlementProofs` proves of `Outcomes`, for any finitely many requests, any tokens, opening
balances, hold, costs and refusals of the upstream (`OutcomesAssumption`: amounts are naturals, a refusal has a
status from 100 to 599 that is not 2xx):

- `OutcomeTypeCorrect` (`OutcomeTypeOK`), `OutcomesReconcile` (`Reconciled`), `OutcomesChargeOnce`
  (`OneChargePerHold`) and `OutcomesDenials` (`DenialsAreOurs`).

Requests share nothing but the counters and the balances, so beside the types the invariant `OutcomeInv` has two
parts:

- `Sound` says of one request what its stage tells of it.  At a gate nothing was asked of the ledger.  A request
  that reads a body was asked for nothing, unless it is a stream that the upstream refused: then its charge is
  the one of a full refund, and a body that breaks off asks for that again.  While it is billed, the ledger was
  asked for the clamp of *this* bill, and a definite charge is that clamp; the conflict of billActual is ruled
  out here.  Whatever is answered after the forward is no 401 or 402, and an upstream answer about the operator
  is masked from the moment the request's ending is known (`Masked`, 502 to 504): `RelayedShape` follows
  relayOrSanitizeUpstream case by case, a refusal by status or by tag, of the credential or of the bill.  The
  request keeps the upstream's answer as history, so that the property can speak of it after the end.
- `Counted` are the equations between the counters and the requests.  `RequestCounted` proves them for every
  step at once: a step either leaves a request on its side of the forward and counts neither it nor an end, or
  forwards and counts `req`, or ends and counts exactly one terminal counter (`Moves`).  Each action then only
  has to show which of the three it is.  `FlushStep` shows that a flush moves the window into the journal
  without a loss, that only `served` can be left out, and that an info line shows no problem.

The second half of `PurchaseProofs` proves of `KeyFlow`, for any pasted and minted keys, any opening balances and
any number of orders (`KeyFlowAssumption`: the minted keys are finitely many, no fewer than the orders, and none
of the pasted ones; nobody is no key):

- `TabTypeCorrect` (`TabTypeOK`), `TabKeepsPurchase` (`PurchaseIsKept`) and, as an action property,
  `TabNeverUnseen` (`NeverUnseen`).

What an answer that comes back late may still do is decided by what it belongs to, so the invariant `TabInv` says
that of everything under way.  `Phases`: which handlers can be waiting in which phase.  `Quotes`: the quote on the
screen, and every quote on its way there, is an order for the key it was asked for.  `HeldKeys`: a key is one the
user brought, or was affirmed as saved before the payment step opened.  `Deltas`: a balance, and a balance answer
under way, is above the baseline of its purchase by no more than was credited since the baseline was read; that is
why "done" means a credit, however long the answer took and whatever was spent.  `Answers`: a status under way is
true of its address or was when it was asked for, and what it says of a payment stays true; "not seen" can only
arrive for the address asked about last, and then that address was not shown as seen.

Only model-checked: liveness and ENABLED (`OrphansRecovered`, `RequestsEnd`, `EveryCreditLands`, `HoldsClose`,
`BuysAnswered`, `CreditIsNoticed`) and the values of recursive definitions for all inputs, which are out of this
prover's reach; and the two violations, which are counterexamples.  Every invariant and every action property of
the passing runs is proved.

Not stated by any property, though the model has it: after a failed rate fetch the next purchase starts one of
its own.  `BuysAnswered` is content with an error.

## 6. What is not modelled

- openHold, settleHold and recoverHolds of db.ts, which tests and the in-process adapter call and no socket.
- Parsing: request bodies, SSE framing, wallet and venue answers are the events they yield.  Error bodies,
  authentication headers, relayed headers, log wording and configuration.
- The shipped prices: `UsageMetering` runs on small rates with the same invariants, the theorems on any.
  `Settlement` has one order size, `Purchase` knows a rate by its age; the quote's conversion into coin is left
  out.
- Holds above the largest safe integer: an output cap that prices beyond 2^53 micros.
- Restoring one of the two databases alone; encryption and retention of backups; the deployment itself.
- The anthropic deny list's known gap: server tools it does not name are billed as tokens.
- In the page: the choice of amount and coin, the balance check next to the key field, the leave guards, the
  API page, rendering.
- Metrics histograms, token totals, and the stall detection of the credit state.
- The operator CLI and the repository's own scripts: each runs alone, to its end.
- Clocks that go back, and created_at ties in the outbox beyond what its ordering leaves open.
- Two payments processes on one pending.db, except that another instance may claim order slots (`Purchase`).
- Chain reorganisations of a final transaction.

## 7. Plan

Done: the ledger with its metering and its credits, the payments side, the request path from four sides, backup
and restore, the purchase page; a proof of every invariant and action property the runs check, and the
refinement of the abstract accounts.

Next, the model: holds beyond 2^53 in `Metering`; the balance check of the key field and the answer that
arrives for another key in `KeyFlow`.
