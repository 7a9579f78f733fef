------------------------------ MODULE Pricing ------------------------------
(***************************************************************************)
(* What a request costs and what is reserved for it: the arithmetic of     *)
(* core/src/cost/pricing.ts, hold.ts and the usage adapters, over a table  *)
(* of rates given as a constant.                                           *)
(*                                                                         *)
(* A count the upstream reports is an integer; a negative one stands for   *)
(* every value sanitizeCount refuses (negative, non-finite, not a number). *)
(***************************************************************************)
EXTENDS Integers

CONSTANTS
  Rates,    \* the price table: <<base, suffix>> -> provider and rate
  PerMtok,  \* tokens a rate is quoted for
  Pad       \* HOLD_INPUT_PAD

Rate == [input : Nat, output : Nat, cache_read : Nat, cache_write : Nat,
         cache_write_1h : Nat]
Usage == [input : Int, output : Int, read : Int, write : Int, write1h : Int]

\* A 1-hour write never bills less than a standard one.
assertRateInvariants(rate) == rate.cache_write <= rate.cache_write_1h

(* What the module refuses to load without: every rate is sane.            *)
ASSUME PricingAssumption ==
  /\ PerMtok \in Nat \ {0}
  /\ Pad \in Nat
  /\ \A id \in DOMAIN Rates : /\ Rates[id].rate \in Rate
                              /\ assertRateInvariants(Rates[id].rate)

-----------------------------------------------------------------------------
(* The table.  A model id is its base and what follows the base: nothing, a *)
(* dated release, or a named variant.                                      *)

Unpriced == [provider |-> "none"]

\* Mutant: a named variant is absorbed by its base.
findModelLax(base, suffix) ==
  IF <<base, suffix>> \in DOMAIN Rates THEN Rates[<<base, suffix>>]
  ELSE IF <<base, "">> \in DOMAIN Rates THEN Rates[<<base, "">>]
  ELSE Unpriced

\* The exact id, else the base a dated release extends; nothing else.
findModel(base, suffix) ==
  IF <<base, suffix>> \in DOMAIN Rates THEN Rates[<<base, suffix>>]
  ELSE IF suffix = "dated" /\ <<base, "">> \in DOMAIN Rates THEN Rates[<<base, "">>]
  ELSE Unpriced

isPriced(id) == id.ns = "" /\ findModel(id.base, id.suffix) # Unpriced
findRate(id) == findModel(id.base, id.suffix).rate
providerOf(id) == IF isPriced(id) THEN findModel(id.base, id.suffix).provider ELSE "none"

-----------------------------------------------------------------------------
(* Cost of reported usage *)

Lower(a, b) == IF a <= b THEN a ELSE b
Higher(a, b) == IF a >= b THEN a ELSE b
Quotient(a, b) == (a + b - 1) \div b    \* Math.ceil(a / b)

sanitizeCount(x) == IF x >= 0 THEN x ELSE 0

\* The 1-hour slice of a write total, clamped into it.
write1hOf(u) == Lower(sanitizeCount(u.write1h), sanitizeCount(u.write))

rawCostOf(rate, u) ==
  sanitizeCount(u.input) * rate.input
  + sanitizeCount(u.output) * rate.output
  + (sanitizeCount(u.write) - write1hOf(u)) * rate.cache_write
  + write1hOf(u) * rate.cache_write_1h
  + sanitizeCount(u.read) * rate.cache_read

costOf(rate, u) == rawCostOf(rate, u) \div PerMtok

\* The response's model, else the request's.
priceUsage(model, u, fallback) ==
  costOf(findRate(IF isPriced(model) THEN model ELSE fallback), u)

-----------------------------------------------------------------------------
(* Size of a hold *)

\* Mutant: the write tiers are forgotten.
maxInputRateLow(rate, oneHour) == Higher(rate.input, rate.cache_read)

maxInputRate(rate, oneHour) ==
  Higher(Higher(rate.input, rate.cache_read),
         Higher(rate.cache_write, IF oneHour THEN rate.cache_write_1h ELSE 0))

holdBoundOf(rate, inputTokens, maxTokens, oneHour) ==
  (inputTokens * maxInputRate(rate, oneHour) + maxTokens * rate.output) \div PerMtok

priceHoldBound(model, inputTokens, maxTokens, oneHour) ==
  holdBoundOf(findRate(model), inputTokens, maxTokens, oneHour)

Estimate(micros, tokens, source) ==
  [micros |-> micros, inputTokens |-> tokens, source |-> source]

\* One token per byte at most.
byteBoundHold(model, bytes, maxTokens, oneHour) ==
  Estimate(priceHoldBound(model, bytes, maxTokens, oneHour), bytes, "byte_bound")

\* HOLD_INPUT_MARGIN and HOLD_INPUT_PAD over what the provider counted.
Padded(count) == Quotient(count * 11, 10) + Pad

\* A count below one stands for every failure of the count request.
countTokensHold(model, bytes, maxTokens, oneHour, count) ==
  IF count < 1 THEN byteBoundHold(model, bytes, maxTokens, oneHour)
  ELSE Estimate(Lower(byteBoundHold(model, bytes, maxTokens, oneHour).micros,
                      priceHoldBound(model, Padded(count), maxTokens, oneHour)),
                count, "counted")

\* What may be billed as input when nothing reports it.
billableInput(estimate) ==
  IF estimate.source = "counted" THEN estimate.inputTokens
  ELSE Quotient(estimate.inputTokens, 4)

InputOnly(tokens) == [input |-> tokens, output |-> 0, read |-> 0, write |-> 0, write1h |-> 0]

\* Mutant: no clamp at the hold.
ChargeUnclamped(cost, hold) == Higher(0, cost)
\* billActual: the cost, within the hold.
ChargeWithin(cost, hold) == Lower(Higher(0, cost), hold)

-----------------------------------------------------------------------------
(* OpenAI reports one input total that includes its cached and written     *)
(* slices: each slice is clamped to what is left of the total.             *)

\* Mutant: the slices are billed on top of the total.
splitOpenAIInputInclusive(total, cached, written) ==
  [input |-> total, read |-> cached, write |-> written]

splitOpenAIInput(total, cached, written) ==
  LET read == Lower(cached, total)
      write == Lower(written, total - read)
  IN [input |-> total - read - write, read |-> read, write |-> write]

mapOpenAIUsage(u) ==
  LET s == splitOpenAIInput(sanitizeCount(u.total), sanitizeCount(u.cached),
                            sanitizeCount(u.written))
  IN [input |-> s.input, output |-> sanitizeCount(u.output), read |-> s.read,
      write |-> s.write, write1h |-> 0]
=============================================================================
