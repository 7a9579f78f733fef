------------------------------- MODULE KeyFlow -------------------------------
(***************************************************************************)
(* One browser tab on the purchase page: client/src/flow/KeyFlow.tsx, its  *)
(* payment step QuotePay.tsx, and the calls of client/src/lib/api.ts.      *)
(*                                                                         *)
(* Every handler runs to its next await in one step, so user events, the   *)
(* poll and late answers interleave.  A call is answered by what the       *)
(* server had when it was sent, and may fail or come back much later.  The *)
(* server is what the page can see of it: orders, their progress, credits  *)
(* and spending; Settlement and CreditCrossing have its inside.            *)
(* Init, Next and what belongs to them carry the prefix Tab, because       *)
(* PurchaseProofs extends this module beside Purchase.                     *)
(***************************************************************************)
EXTENDS Integers, FiniteSets

CONSTANTS
  PastedKeys,  \* keys the user has from before
  MintedKeys,  \* keys generateToken may return
  Opening,     \* [PastedKeys -> balance at the start, or Unknown]
  MaxOrders,   \* bound on orders: each has an address of its own
  MaxSpends,   \* bound on spending during a purchase
  MaxFails     \* bound on failing calls

Unknown == -1     \* checkBalance's null
Nobody == "none"
Keys == PastedKeys \cup MintedKeys
Addresses == 1..MaxOrders

ASSUME KeyFlowAssumption ==
  /\ PastedKeys \cap MintedKeys = {} /\ Nobody \notin Keys
  /\ IsFiniteSet(MintedKeys) /\ Cardinality(MintedKeys) >= MaxOrders  \* they do not run out
  /\ Opening \in [PastedKeys -> Nat \cup {Unknown}]
  /\ {MaxOrders, MaxSpends, MaxFails} \subseteq Nat

VARIABLES
  purchase, \* phase, order, quote and their flags
  submitting, \* submit() between its awaits
  requoting,  \* acknowledge() between its awaits
  cycle,    \* checkNow() between its awaits
  status,   \* the last status the payment step was answered
  orders,   \* server: address -> order
  balance,  \* server: key -> balance
  history   \* landed credits, keys affirmed as saved, the address the last
            \* check found unpaid when it was sent, spends and failures

client == <<purchase, submitting, requoting, cycle, status>>
server == <<orders, balance>>
tabVars == <<client, server, history>>

-----------------------------------------------------------------------------
(* The server, as the page sees it *)

OrderStages == {"free", "waiting", "seen", "final", "booked", "credited", "reaped"}
ServerOrder == [key : Keys \cup {Nobody}, stage : OrderStages, expired : BOOLEAN]
Free == [key |-> Nobody, stage |-> "free", expired |-> FALSE]

Final == {"final", "booked", "credited", "reaped"}

\* What /order-status may answer about an address: the live progress is lost
\* at a restart, the sighting is not.  An address of another key is no order
\* of this one.
orderStatus(key, address) ==
  LET o == orders[address]
  IN IF o.key # key THEN {"closed"}
     ELSE CASE o.stage = "waiting" -> {"waiting"}
            [] o.stage = "seen" -> {"confirming", "detected"}
            [] o.stage = "final" -> {"finalizing", "detected"}
            [] OTHER -> {"closed"}

Advance(address, from, to) ==
  /\ orders[address].stage = from
  /\ orders' = [orders EXCEPT ![address].stage = to]

Confirms(a) ==
  /\ Advance(a, "seen", "final")
  /\ UNCHANGED <<client, balance, history>>
Books(a) ==
  /\ Advance(a, "final", "booked")
  /\ UNCHANGED <<client, balance, history>>
Credits(a) ==
  LET k == orders[a].key
  IN /\ Advance(a, "booked", "credited")
     /\ balance' = [balance EXCEPT ![k] = IF @ = Unknown THEN 1 ELSE @ + 1]
     /\ history' = [history EXCEPT !.landed[k] = @ + 1]
     /\ UNCHANGED client
\* Every order has the same window, so they expire as they were opened.
Expires(a) ==
  /\ orders[a].stage # "free" /\ ~orders[a].expired
  /\ \A b \in 1..(a - 1) : orders[b].expired
  /\ orders' = [orders EXCEPT ![a].expired = TRUE]
  /\ UNCHANGED <<client, balance, history>>
Reaps(a) ==
  /\ orders[a].expired
  /\ Advance(a, "waiting", "reaped")
  /\ UNCHANGED <<client, balance, history>>
Spends(k) ==
  /\ history.spends < MaxSpends
  /\ balance[k] > 0
  /\ balance' = [balance EXCEPT ![k] = @ - 1]
  /\ history' = [history EXCEPT !.spends = @ + 1]
  /\ UNCHANGED <<client, orders>>

-----------------------------------------------------------------------------
(* The tab *)

\* keyFieldState: what is in the field when the button is pressed
Blank == "blank"
willTopUp(paste) == paste \in PastedKeys

Idle == [step |-> "none"]
NoOrder == [token |-> Nobody]
NoQuote == 0            \* a quote is the address it asks to pay to
NoStatus == [state |-> "none", address |-> NoQuote, error |-> "none"]

Status == {"waiting", "detected", "confirming", "finalizing", "closed"}
Balance == Nat \cup {Unknown}

\* statusError and creditError: every kind of failing read says not to resend.
Errors == {"none", "status", "credit"}
Order == [token : Keys, wasNew : BOOLEAN, baseline : Nat, landed : Nat]

Gated == purchase.order.wasNew /\ ~purchase.savedAck
\* QuotePay is on the screen.
Paying == purchase.phase = "pay" /\ ~Gated
Expired == orders[purchase.quote].expired

\* Mutant: a payment the server remembers but does not follow is not told.
settledStatusWithoutDetected(state) ==
  CASE state = "none" -> "watching"
    [] state \in {"confirming", "finalizing"} -> "seen"
    [] state = "closed" -> "unverified"
    [] OTHER -> "not seen"
\* What the status line tells the payer.
settledStatus(state) ==
  CASE state = "none" -> "watching"
    [] state \in {"detected", "confirming", "finalizing"} -> "seen"
    [] state = "closed" -> "unverified"
    [] OTHER -> "not seen"

TabInit ==
  /\ purchase = [phase |-> "home", order |-> NoOrder, quote |-> NoQuote,
                 savedAck |-> FALSE, busy |-> FALSE]
  /\ submitting = Idle
  /\ requoting = Idle
  /\ cycle = Idle
  /\ status = NoStatus
  /\ orders = [a \in Addresses |-> Free]
  /\ balance = [k \in Keys |-> IF k \in PastedKeys THEN Opening[k] ELSE Unknown]
  /\ history = [landed |-> [k \in Keys |-> 0], saved |-> {}, asked |-> NoQuote,
                spends |-> 0, fails |-> 0]

MayFail == history.fails < MaxFails
Failed == history' = [history EXCEPT !.fails = @ + 1]

-----------------------------------------------------------------------------
(* submit(): the only way from the form to a payment *)

\* requestQuote: the server opens an order at a fresh address.
Opens(key, a) ==
  /\ \A b \in Addresses : orders[b].stage = "free" <=> b >= a
  /\ orders' = [orders EXCEPT ![a] = [Free EXCEPT !.key = key, !.stage = "waiting"]]

\* generateToken: a key no order was ever for.
generateToken ==
  CHOOSE k \in MintedKeys : \A a \in Addresses : orders[a].key # k

\* A blank field mints and asks for a quote at once; a pasted key reads its
\* balance first.  An unticked box or a malformed key goes no further, and
\* the button is dead while busy.
Submit(paste) ==
  /\ purchase.phase = "home"
  /\ ~purchase.busy
  /\ submitting.step = "none"            \* submitInFlight
  /\ purchase' = [purchase EXCEPT !.busy = TRUE]
  /\ \/ /\ willTopUp(paste)
        /\ submitting' = [step |-> "baseline", token |-> paste,
                          answer |-> balance[paste], landed |-> history.landed[paste]]
        /\ UNCHANGED orders
     \/ /\ ~willTopUp(paste)
        /\ \E a \in Addresses :
             /\ Opens(generateToken, a)
             /\ submitting' = [step |-> "quote", answer |-> a,
                               order |-> [token |-> generateToken, wasNew |-> TRUE,
                                          baseline |-> 0, landed |-> 0]]
  /\ UNCHANGED <<requoting, cycle, status, balance, history>>

\* The balance is in: it is what the delta will be measured against.
Baseline ==
  /\ submitting.step = "baseline"
  /\ \E a \in Addresses :
       /\ Opens(submitting.token, a)
       /\ submitting' =
            [step |-> "quote", answer |-> a,
             order |-> [token |-> submitting.token, wasNew |-> FALSE,
                        baseline |-> IF submitting.answer = Unknown THEN 0
                                     ELSE submitting.answer,
                        landed |-> submitting.landed]]
  /\ UNCHANGED <<purchase, requoting, cycle, status, balance, history>>

\* Mutant: a baseline that cannot be read counts as zero.
BaselineFailsToZero ==
  /\ submitting.step = "baseline"
  /\ MayFail /\ Failed
  /\ \E a \in Addresses :
       /\ Opens(submitting.token, a)
       /\ submitting' =
            [step |-> "quote", answer |-> a,
             order |-> [token |-> submitting.token, wasNew |-> FALSE,
                        baseline |-> 0, landed |-> submitting.landed]]
  /\ UNCHANGED <<purchase, requoting, cycle, status, balance>>

\* An unknown baseline stops before /buy.
BaselineFails ==
  /\ submitting.step = "baseline"
  /\ MayFail /\ Failed
  /\ submitting' = Idle
  /\ purchase' = [purchase EXCEPT !.busy = FALSE]
  /\ UNCHANGED <<requoting, cycle, status, server>>

\* A payable quote is in hand: the payment screen.
Quoted ==
  /\ submitting.step = "quote"
  /\ purchase' = [purchase EXCEPT !.phase = "pay", !.order = submitting.order,
                                  !.quote = submitting.answer, !.busy = FALSE]
  /\ submitting' = Idle
  /\ UNCHANGED <<requoting, cycle, status, server, history>>

\* No quote: the error stays on the form.  (The order may exist all the same.)
QuoteFails ==
  /\ submitting.step = "quote"
  /\ MayFail /\ Failed
  /\ submitting' = Idle
  /\ purchase' = [purchase EXCEPT !.busy = FALSE]
  /\ UNCHANGED <<requoting, cycle, status, server>>

-----------------------------------------------------------------------------
(* Pay: the save gate, the payment, a new quote *)

SavedMyKey ==
  /\ purchase.phase = "pay"
  /\ Gated
  /\ purchase' = [purchase EXCEPT !.savedAck = TRUE]
  /\ history' = [history EXCEPT !.saved = @ \cup {purchase.order.token}]
  /\ UNCHANGED <<submitting, requoting, cycle, status, server>>

\* The user pays the address on the screen.
Pays ==
  /\ Paying
  /\ ~Expired
  /\ Advance(purchase.quote, "waiting", "seen")
  /\ UNCHANGED <<client, balance, history>>

\* "I didn't pay - new quote": acknowledge() for the same key.
AsksNewQuote ==
  /\ Paying
  /\ Expired
  /\ ~purchase.busy
  /\ \E a \in Addresses :
       /\ Opens(purchase.order.token, a)
       /\ requoting' = [step |-> "quote", answer |-> a]
  /\ purchase' = [purchase EXCEPT !.busy = TRUE]
  /\ UNCHANGED <<submitting, cycle, status, balance, history>>

\* Its answer replaces the quote, whatever has happened meanwhile.
Requoted ==
  /\ requoting.step = "quote"
  /\ purchase' = [purchase EXCEPT !.quote = requoting.answer, !.busy = FALSE]
  /\ requoting' = Idle
  /\ UNCHANGED <<submitting, cycle, status, server, history>>

RequoteFails ==
  /\ requoting.step = "quote"
  /\ MayFail /\ Failed
  /\ purchase' = [purchase EXCEPT !.busy = FALSE]
  /\ requoting' = Idle
  /\ UNCHANGED <<submitting, cycle, status, server>>

-----------------------------------------------------------------------------
(* checkNow(): one cycle at a time, from the poll, a refocus or the button *)

Asked ==
  history' = [history EXCEPT !.asked =
    IF orders[purchase.quote].stage = "waiting" THEN purchase.quote ELSE NoQuote]
ErrorIs(error) == status' = [status EXCEPT !.error = error]

\* Mutant: nothing is checked any more once the quote has expired.
ChecksNowUntilExpiry ==
  /\ Paying
  /\ ~Expired
  /\ cycle.step = "none"
  /\ \E answer \in orderStatus(purchase.order.token, purchase.quote) :
       cycle' = [step |-> "status", address |-> purchase.quote, answer |-> answer]
  /\ Asked /\ ErrorIs("none")
  /\ UNCHANGED <<purchase, submitting, requoting, server>>

ChecksNow ==
  /\ Paying
  /\ cycle.step = "none"                 \* inFlight
  /\ \E answer \in orderStatus(purchase.order.token, purchase.quote) :
       cycle' = [step |-> "status", address |-> purchase.quote, answer |-> answer]
  /\ Asked /\ ErrorIs("none")
  /\ UNCHANGED <<purchase, submitting, requoting, server>>

\* Mutant: the raw token goes out once a payment is seen.
StatusArrivesEager ==
  /\ cycle.step = "status"
  /\ status' = [status EXCEPT !.state = cycle.answer, !.address = cycle.address]
  /\ cycle' = IF cycle.answer # "waiting"
              THEN [step |-> "balance", address |-> cycle.address,
                    answer |-> balance[purchase.order.token]]
              ELSE Idle
  /\ UNCHANGED <<purchase, submitting, requoting, server, history>>

\* Only a plausibly credited order is worth the raw token.
StatusArrives ==
  /\ cycle.step = "status"
  /\ status' = [status EXCEPT !.state = cycle.answer, !.address = cycle.address]
  /\ cycle' = IF cycle.answer \in {"finalizing", "closed"}
              THEN [step |-> "balance", address |-> cycle.address,
                    answer |-> balance[purchase.order.token]]
              ELSE Idle
  /\ UNCHANGED <<purchase, submitting, requoting, server, history>>

\* Mutant: a failing read forgets what was known.
StatusFailsBlank ==
  /\ cycle.step = "status"
  /\ MayFail /\ Failed
  /\ status' = [status EXCEPT !.state = "none", !.error = "status"]
  /\ cycle' = Idle
  /\ UNCHANGED <<purchase, submitting, requoting, server>>

\* Mutant: a failing read is not reported.
StatusFailsSilently ==
  /\ cycle.step = "status"
  /\ MayFail /\ Failed
  /\ cycle' = Idle
  /\ UNCHANGED <<purchase, submitting, requoting, status, server>>

\* The last settled status stays on the screen, next to the error.
StatusFails ==
  /\ cycle.step = "status"
  /\ MayFail /\ Failed
  /\ cycle' = Idle /\ ErrorIs("status")
  /\ UNCHANGED <<purchase, submitting, requoting, server>>

\* Success is a balance above the baseline.
BalanceArrives ==
  /\ cycle.step = "balance"
  /\ cycle' = Idle
  /\ IF cycle.answer > purchase.order.baseline
     THEN /\ purchase' = [purchase EXCEPT !.phase = "done"]
          /\ status' = NoStatus            \* the payment step unmounts
     ELSE UNCHANGED <<purchase, status>>
  /\ UNCHANGED <<submitting, requoting, server, history>>

BalanceFails ==
  /\ cycle.step = "balance"
  /\ MayFail /\ Failed
  /\ cycle' = Idle /\ ErrorIs("credit")
  /\ UNCHANGED <<purchase, submitting, requoting, server>>

-----------------------------------------------------------------------------
(* Done *)

\* Mutant: a new purchase forgets that a quote is still being asked for.
buyMoreIdle ==
  /\ purchase.phase = "done"
  /\ purchase' = [phase |-> "home", order |-> NoOrder, quote |-> NoQuote,
                  savedAck |-> FALSE, busy |-> FALSE]
  /\ UNCHANGED <<submitting, requoting, cycle, status, server, history>>

\* Mutant: the affirmation of one key serves the next.
buyMoreSaved ==
  /\ purchase.phase = "done"
  /\ purchase' = [purchase EXCEPT !.phase = "home", !.order = NoOrder, !.quote = NoQuote]
  /\ UNCHANGED <<submitting, requoting, cycle, status, server, history>>

buyMore ==
  /\ purchase.phase = "done"
  /\ purchase' = [purchase EXCEPT !.phase = "home", !.order = NoOrder, !.quote = NoQuote,
                                  !.savedAck = FALSE]
  /\ UNCHANGED <<submitting, requoting, cycle, status, server, history>>

-----------------------------------------------------------------------------
SubmitStep ==
  (\E paste \in PastedKeys \cup {Blank} : Submit(paste)) \/ Baseline \/ BaselineFails \/ Quoted \/ QuoteFails
PayStep == SavedMyKey \/ Pays \/ AsksNewQuote \/ Requoted \/ RequoteFails
CheckStep == ChecksNow \/ StatusArrives \/ StatusFails \/ BalanceArrives \/ BalanceFails
ServerStep ==
  \/ \E a \in Addresses : Confirms(a) \/ Books(a) \/ Credits(a) \/ Expires(a) \/ Reaps(a)
  \/ \E k \in Keys : Spends(k)

TabNext == SubmitStep \/ PayStep \/ CheckStep \/ buyMore \/ ServerStep

TabSpec == TabInit /\ [][TabNext]_tabVars

(* The poll ticks in a visible tab, calls end, clocks and chains go on and *)
(* the server books, credits and reaps.  Nothing makes the user pay or     *)
(* press a button.                                                         *)
TabFairness ==
  /\ WF_tabVars(ChecksNow)
  /\ WF_tabVars(StatusArrives \/ StatusFails) /\ WF_tabVars(BalanceArrives \/ BalanceFails)
  /\ WF_tabVars(Requoted \/ RequoteFails)
  /\ \A a \in Addresses :
       WF_tabVars(Confirms(a)) /\ WF_tabVars(Books(a)) /\ WF_tabVars(Expires(a)) /\ WF_tabVars(Reaps(a))

TabFairSpec == TabSpec /\ TabFairness

-----------------------------------------------------------------------------
(* Every variable keeps its type. *)
TabTypeOK ==
  /\ purchase \in [phase : {"home", "pay", "done"}, order : Order \cup {NoOrder},
                   quote : Addresses \cup {NoQuote}, savedAck : BOOLEAN, busy : BOOLEAN]
  /\ purchase.phase # "home" <=> purchase.order # NoOrder
  /\ submitting.step # "none" => purchase.busy /\ purchase.phase = "home"
  /\ requoting.step # "none" => purchase.busy
  /\ cycle.step # "none" => purchase.phase = "pay"
  /\ status \in [state : Status \cup {"none"}, address : Addresses \cup {NoQuote},
                 error : Errors]
  /\ orders \in [Addresses -> ServerOrder]
  /\ balance \in [Keys -> Balance]

(* KeyFlow.tsx: the purchase is "frozen at submit time".  The address on   *)
(* the screen is one of an order for the key on the screen, also when the  *)
(* answer to an earlier "new quote" arrives after that purchase is over.   *)
QuoteIsForOrder ==
  purchase.phase = "pay" => orders[purchase.quote].key = purchase.order.token

(* "An unsaved key (and the credit being bought) is gone" with its tab: no *)
(* money is sent for a key the user does not have.                         *)
PaidKeysAreHeld ==
  \A a \in Addresses :
    orders[a].stage \notin {"free", "waiting", "reaped"} =>
      orders[a].key \in PastedKeys \cup history.saved

(* "Never let a transient status-read failure imply that payment was not   *)
(* received": a bare "not seen yet" is what the latest check was answered, *)
(* of a payment that had not been seen when that check was made.           *)
NotSeenIsCurrent ==
  /\ purchase.phase = "pay" /\ cycle.step = "none"
  /\ settledStatus(status.state) = "not seen" /\ status.error = "none"
  => history.asked = status.address

(* "A top-up's success is a real delta": the done screen means a credit of *)
(* this key has landed since its balance was read at submit.               *)
DoneMeansCredited ==
  purchase.phase = "done" =>
    history.landed[purchase.order.token] > purchase.order.landed

(* "No background traffic ever carries the spendable secret": the raw key  *)
(* goes out only when the order it was told about is final or gone.        *)
SecretStays == cycle.step = "balance" => orders[cycle.address].stage \in Final

(* What a purchase promises from submit to done, over every interleaving   *)
(* of late answers with the user.                                          *)
PurchaseIsKept ==
  QuoteIsForOrder /\ PaidKeysAreHeld /\ NotSeenIsCurrent /\ DoneMeansCredited
  /\ SecretStays

(* A payer who was told that a payment was seen is never shown "not seen   *)
(* yet" about the same address again, whatever fails or restarts in        *)
(* between: believing it they would pay a single-use address twice.        *)
ToldSeen == settledStatus(status.state) \in {"seen", "unverified"}
NeverUnseen ==
  [][(ToldSeen /\ purchase'.phase = "pay") =>
       ToldSeen' \/ status'.address # status.address]_tabVars

(* While the payment step is open, a credit is noticed without the user,   *)
(* unless it is spent first: also one for an earlier quote of this key,    *)
(* and also after failed calls.                                            *)
CreditIsNoticed ==
  (Paying /\ balance[purchase.order.token] > purchase.order.baseline) ~>
    (\/ purchase.phase # "pay"
     \/ balance[purchase.order.token] <= purchase.order.baseline)
=============================================================================
