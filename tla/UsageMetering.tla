--------------------------- MODULE UsageMetering ---------------------------
(***************************************************************************)
(* What one metered request is charged, from its model id to its bill: the *)
(* routing and gates of core/src/providers, the reservation of hold.ts,    *)
(* the frame-by-frame scanners of cost/usage, and the policy that turns    *)
(* what a scanner has seen into a charge within the hold.                  *)
(*                                                                         *)
(* The upstream is honest: it does the work it was asked for and reports   *)
(* it in the shape of its API.  How far the report got when the request    *)
(* ends, and how it ends, is free.  Money and tokens are small integers.   *)
(***************************************************************************)
EXTENDS Pricing

CONSTANTS
  Registered,       \* providers with a key configured
  RequestIds,       \* model ids clients send
  Options,          \* body features clients ask for
  Prompts,          \* [bytes, how its tokens turn out to be classified,
                    \*  body fields, and the tokens outside the conversation]
  BetaHeaders,      \* what clients send as anthropic-beta
  Caps,             \* values of an output-cap field
  DefaultMaxOutput, \* 0: a cap is required
  Drifts,           \* how far a token count may be off the truth
  MaxFrames,        \* bound on the content frames of a stream
  CharsPerFrame     \* characters one of them may carry

Absent == -1        \* a field the body does not have
NoModel == [ns |-> "", base |-> "none", suffix |-> ""]
Alias == [ns |-> "", base |-> "alias", suffix |-> ""]   \* an id no table prices
CHARS_PER_TOKEN == 4

PromptTokens(p) == p.input + p.read + p.write

ASSUME UsageAssumption ==
  /\ {DefaultMaxOutput, MaxFrames} \subseteq Nat
  /\ CharsPerFrame \subseteq Nat /\ Caps \subseteq Nat \cup {Absent}
  /\ Drifts \subseteq Int
  /\ ~isPriced(Alias)
  /\ \A p \in Prompts :
       /\ {p.bytes, p.input, p.read, p.write, p.write1h, p.extra} \subseteq Nat
       /\ p.write1h <= p.write /\ p.extra <= p.input
       /\ PromptTokens(p) \in 1 .. p.bytes
       /\ p.extra > 0 => p.fields \cap {"tools", "novel"} # {}

VARIABLES
  call,   \* the request once it is admitted: what is held and forwarded
  up,     \* what the upstream has done and sent
  scan,   \* the scanner's closure variables
  bill    \* the charge, once settled

vars == <<call, up, scan, bill>>

-----------------------------------------------------------------------------
(* Routing *)

Paths == {"messages", "chat", "responses"}
ProvidersOf == [messages |-> {"anthropic"}, chat |-> {"openai", "tinfoil"},
                responses |-> {"openai"}]
candidatesOf(path) == ProvidersOf[path] \cap Registered

Unresolved == [provider |-> "none"]

\* Web search, deep research, audio and realtime variants bill off the card.
isOffCardModel(id) == id.suffix \in {"deep-research", "search", "audio", "realtime"}
ownsModel(provider, id) ==
  providerOf(id) = provider /\ (provider = "anthropic" \/ ~isOffCardModel(id))

\* The verbatim id's owner, else the provider its namespace names, if that
\* one serves the path and owns the rest.  (An id has one owner in the
\* table, so the code's ambiguous_model cannot arise.)
resolveProvider(candidates, id) ==
  LET bare == [id EXCEPT !.ns = ""]
  IN IF \E c \in candidates : ownsModel(c, id) THEN [provider |-> providerOf(id), model |-> id]
     ELSE IF id.ns \in candidates /\ ownsModel(id.ns, bare)
          THEN [provider |-> id.ns, model |-> bare]
     ELSE Unresolved

(* Features the flat rate card cannot bill, by provider and endpoint.      *)

\* Tools the provider runs and charges for by use; a client's own tool is
\* tokens like any other.
hasServerTool(option) == option \in {"web_search_tool", "code_execution_tool"}
anthropicPremiumReject == {"inference_geo"} \cup {o \in Options : hasServerTool(o)}
openaiChatPremiumReject ==
  {"service_tier", "web_search", "n", "modalities", "audio", "input_audio"}
openaiResponsesPremiumReject == {"service_tier", "builtin_tool", "input_audio"}
\* Mutant: best_of is let through, as on the other chat provider.
tinfoilRejectLax == {"n", "web_search", "code_execution"}
tinfoilPremiumReject == {"n", "best_of", "web_search", "code_execution"}

premiumReject(provider, path) ==
  CASE provider = "anthropic" -> anthropicPremiumReject
    [] provider = "tinfoil" -> tinfoilPremiumReject
    [] provider = "openai" /\ path = "chat" -> openaiChatPremiumReject
    [] OTHER -> openaiResponsesPremiumReject

\* What a provider's API knows: no option, 1-hour cache writes, and the
\* features above.
Understood(provider, path) ==
  {"plain", "own_tool"} \cup (IF provider = "anthropic" THEN {"one_hour"} ELSE {})
  \cup (CASE provider = "anthropic" -> anthropicPremiumReject
          [] provider = "tinfoil" -> {"n", "best_of", "web_search", "code_execution"}
          [] provider = "openai" /\ path = "chat" -> openaiChatPremiumReject
          [] OTHER -> openaiResponsesPremiumReject)

\* A cache_control with ttl 1h anywhere in the body.
hasOneHourCacheControl(option) == option = "one_hour"

-----------------------------------------------------------------------------
(* Headers.  The beta markers a client sends reach the free count whole,   *)
(* and the billed request only as far as its provider's filter lets them.  *)

ANTHROPIC_SAFE_BETA == {"context-management"}

\* Mutant: whatever the client asks for is forwarded.
buildUpstreamHeadersWhole(provider, betas) == betas
\* STRIP drops the header for everyone; forwardBeta re-adds the safe part.
buildUpstreamHeaders(provider, betas) ==
  IF provider = "anthropic" THEN betas \cap ANTHROPIC_SAFE_BETA ELSE {}

-----------------------------------------------------------------------------
(* The token counter is sent the body without the fields its schema does   *)
(* not know; a field nobody listed goes with it and is counted, or is      *)
(* refused and the byte bound stands in.                                   *)

\* Sampling and output controls; context editing may be asked for with or
\* without its beta.
ANTHROPIC_COUNT_OMIT == {"sampling", "context_management"}
OPENAI_COUNT_OMIT == {"sampling"}
countOmit(provider) ==
  CASE provider = "anthropic" -> ANTHROPIC_COUNT_OMIT
    [] provider = "openai" -> OPENAI_COUNT_OMIT
    [] OTHER -> {}

\* Mutant: only the fields known to cost tokens are counted.
countBodyAllowed(provider, fields) == fields \cap {"conversation", "tools"}
countBody(provider, fields) == fields \ countOmit(provider)

\* What a provider's counter takes, and the tokens it finds in that.
\* OpenAI's refuses every chat body, Tinfoil's picks what it needs.
CountSchema(provider, path) ==
  CASE provider = "anthropic" -> {"conversation", "tools", "novel"}
    [] provider = "openai" /\ path = "responses" -> {"conversation", "tools", "novel"}
    [] provider = "openai" /\ path = "chat" -> {}
    [] OTHER -> {"conversation", "tools", "novel", "sampling", "control"}
TokensIn(prompt, fields) ==
  PromptTokens(prompt) - (IF fields \cap {"tools", "novel"} = {} THEN prompt.extra ELSE 0)

\* What the counter answers when it is off by drift; 0 when it is refused or
\* does not answer.
Unanswered == [answers |-> FALSE, drift |-> 0]
Counter == {Unanswered} \cup [answers : {TRUE}, drift : Drifts]
tokenCount(provider, path, prompt, counter) ==
  LET fields == countBody(provider, prompt.fields)
  IN IF counter.answers /\ fields \subseteq CountSchema(provider, path)
     THEN Higher(0, TokensIn(prompt, fields) + counter.drift) ELSE 0

-----------------------------------------------------------------------------
(* Output ceiling *)

\* Mutant: the legacy field is looked at first.
outputCapLegacyFirst(current, legacy) ==
  LET m == IF legacy # Absent THEN legacy ELSE current IN IF m > 0 THEN m ELSE Absent
\* max_completion_tokens ?? max_tokens (one field on the other paths), when
\* it is a positive number.
outputCap(current, legacy) ==
  LET m == IF current # Absent THEN current ELSE legacy IN IF m > 0 THEN m ELSE Absent

(* The forwarded body: an unusable cap is replaced by the default, and a    *)
(* chat stream is asked for its usage, whatever the client said.           *)

Given(value, otherwise) == IF value # Absent THEN value ELSE otherwise
Sent(current, legacy, usage) == [current |-> current, legacy |-> legacy, include_usage |-> usage]

\* Usage comes unasked on these two.
anthropicPrepareBody(current, inject) == Sent(Given(inject, current), Absent, TRUE)
openaiResponsesPrepareBody(current, inject) == Sent(Given(inject, current), Absent, TRUE)
\* Mutant: the client's own stream options win.
openaiChatPrepareBodyAsAsked(current, legacy, inject, usage) ==
  Sent(Given(inject, current), legacy, usage)
openaiChatPrepareBody(current, legacy, inject, usage) ==
  Sent(Given(inject, current), legacy, TRUE)
\* One unambiguous ceiling: the legacy field is dropped.
tinfoilPrepareBody(current, legacy, inject, usage) ==
  Sent(Given(inject, Given(current, legacy)), Absent, TRUE)

prepareBody(provider, path, current, legacy, usage) ==
  LET inject == IF outputCap(current, legacy) = Absent THEN DefaultMaxOutput ELSE Absent
  IN CASE provider = "anthropic" -> anthropicPrepareBody(current, inject)
       [] provider = "tinfoil" -> tinfoilPrepareBody(current, legacy, inject, usage)
       [] provider = "openai" /\ path = "chat" -> openaiChatPrepareBody(current, legacy, inject, usage)
       [] OTHER -> openaiResponsesPrepareBody(current, inject)
\* The cap in force upstream.
forwardedCap(sent) == Given(sent.current, sent.legacy)

\* Output tokens the upstream may generate for a body it accepted.
Ceiling(c) == IF c.option \in {"n", "best_of"} THEN 2 * c.cap ELSE c.cap

-----------------------------------------------------------------------------
Idle == [provider |-> "none"]
NoUsage == [input |-> 0, output |-> 0, read |-> 0, write |-> 0, write1h |-> 0]
Unseen == [model |-> NoModel, reported |-> FALSE, usage |-> NoUsage, chars |-> 0,
           any |-> FALSE, failed |-> FALSE]
Silent == [stage |-> "none", out |-> 0, frames |-> 0, visible |-> 0]
Open == [outcome |-> "none", charge |-> 0, evidence |-> "none", cause |-> "none"]

Init ==
  /\ call = Idle
  /\ up = Silent
  /\ scan = Unseen
  /\ bill = Open

\* The gates before any spend, the reservation and the forwarded body.  A
\* refused request ends here and leaves nothing behind.
Admit ==
  /\ call = Idle
  /\ \E path \in Paths, id \in RequestIds, option \in Options, current \in Caps,
       prompt \in Prompts, betas \in BetaHeaders, streaming \in BOOLEAN :
     LET route == resolveProvider(candidatesOf(path), id)
     IN \E legacy \in (IF path = "chat" THEN Caps ELSE {Absent}),
           counter \in Counter, usage \in BOOLEAN :
       LET count == tokenCount(route.provider, path, prompt, counter)
           cap == outputCap(current, legacy)
           maxTokens == IF cap # Absent THEN cap ELSE DefaultMaxOutput
           oneHour == hasOneHourCacheControl(option)
           sent == prepareBody(route.provider, path, current, legacy, usage)
           relayed == buildUpstreamHeaders(route.provider, betas)
           hold == countTokensHold(route.model, prompt.bytes, maxTokens, oneHour, count)
       IN /\ route # Unresolved
          /\ option \in Understood(route.provider, path)
          /\ option \notin premiumReject(route.provider, path)
          /\ maxTokens > 0
          /\ prompt.write1h > 0 => oneHour
          /\ path # "messages" => prompt.write1h = 0
          /\ "context_management" \in prompt.fields =>
               "context-management" \in relayed    \* else refused upstream
          /\ call' = [provider |-> route.provider, path |-> path, model |-> route.model,
                      option |-> option, betas |-> relayed, streaming |-> streaming,
                      asked |-> sent.include_usage,
                      prompt |-> prompt, cap |-> forwardedCap(sent),
                      hold |-> hold.micros, input |-> billableInput(hold),
                      short |-> count > 0 /\ counter.drift < -Pad]
  /\ UNCHANGED <<up, scan, bill>>

Streaming == call # Idle /\ call.streaming /\ bill = Open
-----------------------------------------------------------------------------
(* What the upstream reports, and the frames that carry it *)

Spent(out) == [input |-> call.prompt.input, output |-> out, read |-> call.prompt.read,
               write |-> call.prompt.write, write1h |-> call.prompt.write1h]
\* OpenAI's report: one total, its slices inside.
Inclusive(u) == [total |-> u.input + u.read + u.write, cached |-> u.read,
                 written |-> u.write, output |-> u.output]

\* Names the upstream may answer under: of one rate, or of no rate.
Answers == {Alias, call.model} \cup
  {id \in RequestIds : isPriced(id) /\ findRate(id) = findRate(call.model)}

\* What message_start may report: the final split of the prompt, or one in
\* which the cache writes still count as plain input.
Openings ==
  LET u == Spent(0)
  IN {u, [u EXCEPT !.input = @ + u.write, !.write = 0, !.write1h = 0]}

MessageStart(s, model, u) == [s EXCEPT !.model = model, !.reported = TRUE, !.usage = u]

\* Mutant: a delta restates the cache total, not its 1-hour slice.
MessageDeltaStale(s, u) ==
  IF s.reported THEN [s EXCEPT !.usage = [u EXCEPT !.write1h = s.usage.write1h]] ELSE s
\* message_delta: cumulative output, and the totals restated.
MessageDelta(s, u) == IF s.reported THEN [s EXCEPT !.usage = u] ELSE s

\* A chat.completion.chunk, or a typed Responses event, that is no usage.
Event(s, model, chars) ==
  [s EXCEPT !.any = TRUE, !.chars = @ + chars,
            !.model = IF model # NoModel THEN model ELSE @]
\* The final chunk, or response.completed.
FinalUsage(s, model, u) ==
  [Event(s, model, 0) EXCEPT !.reported = TRUE, !.usage = mapOpenAIUsage(u)]

Anthropic == call.path = "messages"

\* The response begins: with usage on Anthropic, with metadata elsewhere.
Start ==
  /\ Streaming
  /\ up.stage = "none"
  /\ up' = [up EXCEPT !.stage = "started"]
  /\ \E model \in Answers, u \in Openings :
       scan' = IF Anthropic THEN MessageStart(scan, model, u) ELSE Event(scan, model, 0)
  /\ UNCHANGED <<call, bill>>

\* One more token, visible or not; Anthropic's text is not scanned.
Content ==
  /\ Streaming
  /\ up.stage = "started"
  /\ up.frames < MaxFrames
  /\ up.out < Ceiling(call)
  /\ \E chars \in CharsPerFrame :
       /\ up' = [up EXCEPT !.frames = @ + 1, !.out = @ + 1, !.visible = @ + chars]
       /\ scan' = IF Anthropic THEN scan ELSE Event(scan, NoModel, chars)
  /\ UNCHANGED <<call, bill>>

\* The work is done, and everything spent is reported if it was asked for.
Report ==
  /\ Streaming
  /\ up.stage = "started"
  /\ up' = [up EXCEPT !.stage = "done"]
  /\ scan' = IF Anthropic THEN MessageDelta(scan, Spent(up.out))
             ELSE IF call.asked THEN FinalUsage(scan, NoModel, Inclusive(Spent(up.out)))
             ELSE scan
  /\ UNCHANGED <<call, bill>>

\* An error event in the stream.
ErrorFrame ==
  /\ Streaming
  /\ up.stage \in {"none", "started"}
  /\ up' = [up EXCEPT !.stage = "failed"]
  /\ scan' = [scan EXCEPT !.failed = TRUE, !.any = IF Anthropic THEN @ ELSE TRUE]
  /\ UNCHANGED <<call, bill>>

-----------------------------------------------------------------------------
(* Settlement *)

Cause == {"complete", "upstream_error", "upstream_timeout", "client_cancel", "deadline",
          "shutdown_drain"}

NoMeter == [evidence |-> "none"]
Metered(s, evidence, u) ==
  [evidence |-> evidence, usage |-> u,
   model |-> IF s.model # NoModel THEN s.model ELSE call.model]

\* Anthropic's scanner knows only what was reported.
anthropicResult(s) == IF s.reported THEN Metered(s, "reported", s.usage) ELSE NoMeter

\* Mutant: a failure is estimated like a disconnect.
openaiResultEager(s, evidencedOnly) ==
  IF s.reported THEN Metered(s, "reported", s.usage)
  ELSE IF ~s.any THEN NoMeter
  ELSE Metered(s, "estimated",
               [InputOnly(call.input) EXCEPT !.output = Quotient(s.chars, CHARS_PER_TOKEN)])

\* OpenAI's: reported usage, else an estimate of the input and the visible
\* text.  After a failure there must be visible text; and a stream that
\* announced its own failure is estimated only when it is asked as one.
openaiResult(s, evidencedOnly) ==
  IF s.reported THEN Metered(s, "reported", s.usage)
  ELSE IF ~s.any \/ (evidencedOnly /\ s.chars = 0) \/ (~evidencedOnly /\ s.failed) THEN NoMeter
  ELSE Metered(s, "estimated",
               [InputOnly(call.input) EXCEPT !.output = Quotient(s.chars, CHARS_PER_TOKEN)])

result(s, evidencedOnly) ==
  IF Anthropic THEN anthropicResult(s) ELSE openaiResult(s, evidencedOnly)

Decide(outcome, cost, evidence, cause) ==
  [outcome |-> outcome, charge |-> ChargeWithin(cost, call.hold), evidence |-> evidence,
   cause |-> cause]

InputFloor == priceUsage(call.model, InputOnly(call.input), call.model)

MeteredOutcome(cause, upstreamFailed) ==
  IF upstreamFailed THEN "upstream_partial"
  ELSE IF cause = "complete" THEN "served" ELSE "partial"

\* Mutant: text the client saw is not worth billing after a failure.
decideStreamSettlementFree(s, cause) ==
  LET upstreamFailed == cause \in {"upstream_error", "upstream_timeout"} \/ s.failed
      metered == result(s, upstreamFailed \/ cause = "shutdown_drain")
  IN IF metered.evidence = "reported"
     THEN Decide("partial", priceUsage(metered.model, metered.usage, call.model),
                 metered.evidence, cause)
     ELSE IF upstreamFailed THEN Decide("upstream_aborted", 0, "none", cause)
     ELSE Decide("partial", InputFloor, "none", cause)

decideStreamSettlement(s, cause) ==
  LET upstreamFailed == cause \in {"upstream_error", "upstream_timeout"} \/ s.failed
      metered == result(s, upstreamFailed \/ cause = "shutdown_drain")
  IN IF metered # NoMeter
     THEN Decide(MeteredOutcome(cause, upstreamFailed),
                 priceUsage(metered.model, metered.usage, call.model), metered.evidence, cause)
     ELSE IF upstreamFailed THEN Decide("upstream_aborted", 0, "none", cause)
     ELSE CASE cause \in {"client_cancel", "deadline"} ->
                 Decide("partial", InputFloor, "none", cause)
            [] cause = "shutdown_drain" -> Decide("shutdown_aborted", 0, "none", cause)
            [] OTHER -> Decide("unmetered_complete", 0, "none", cause)

\* The first terminal cause of a stream, at any point of it.
SettleStream ==
  /\ Streaming
  /\ \E cause \in Cause : bill' = decideStreamSettlement(scan, cause)
  /\ UNCHANGED <<call, up, scan>>

Buffering == call # Idle /\ ~call.streaming /\ bill = Open

\* The buffered bodies: top-level model and usage in the shape of the API,
\* each read by the extractor of its endpoint.
extractUsage(model, u) == [model |-> model, usage |-> u]
extractOpenAIChatUsage(model, u) == [model |-> model, usage |-> mapOpenAIUsage(Inclusive(u))]
extractOpenAIResponsesUsage(model, u) ==
  [model |-> model, usage |-> mapOpenAIUsage(Inclusive(u))]
extracted(model, u) ==
  CASE call.path = "messages" -> extractUsage(model, u)
    [] call.path = "chat" -> extractOpenAIChatUsage(model, u)
    [] OTHER -> extractOpenAIResponsesUsage(model, u)

\* A whole 2xx body is billed by the usage it carries; without any it is free.
SettleBuffered ==
  /\ Buffering
  /\ \E out \in 0 .. Ceiling(call), model \in Answers, parseable \in BOOLEAN :
       LET metered == extracted(model, Spent(out))
       IN /\ out <= MaxFrames
          /\ up' = [up EXCEPT !.stage = IF parseable THEN "done" ELSE "started",
                              !.out = out]
          /\ bill' = IF parseable
                     THEN Decide("served",
                                 priceUsage(metered.model, metered.usage, call.model),
                                 "reported", "complete")
                     ELSE Decide("unmetered_complete", 0, "none", "complete")
  /\ UNCHANGED <<call, scan>>

\* No body was read: the accepted input after a 2xx, else nothing.
BufferedFails ==
  /\ Buffering
  /\ \E ok \in BOOLEAN :
       bill' = IF ok THEN Decide("input_floor", InputFloor, "none", "upstream_error")
               ELSE Decide("refunded", 0, "none", "upstream_error")
  /\ UNCHANGED <<call, up, scan>>

Next == Admit \/ Start \/ Content \/ Report \/ ErrorFrame \/ SettleStream
        \/ SettleBuffered \/ BufferedFails

Spec == Init /\ [][Next]_vars

-----------------------------------------------------------------------------
TypeOK ==
  /\ call = Idle \/ (call.hold \in Nat /\ call.input \in Nat /\ call.cap \in Nat)
  /\ scan.usage \in Usage
  /\ up.out \in Nat
  /\ bill.charge \in Nat
  /\ bill # Open => bill.charge <= call.hold

\* The upstream's invoice: the forwarded model's card, plus what the card
\* does not cover: off-card features and betas, and the price of a named
\* variant that has no card.
Invoice ==
  costOf(findRate(call.model), Spent(up.out))
  + IF /\ call.option \in {"plain", "own_tool", "one_hour", "n", "best_of"}
       /\ "context-1m" \notin call.betas
       /\ \/ call.model.suffix \in {"", "dated"}
          \/ <<call.model.base, call.model.suffix>> \in DOMAIN Rates
    THEN 0 ELSE 1

(* A request whose work was done in full is charged exactly what the       *)
(* provider invoices: on every endpoint, streamed or buffered, by the id   *)
(* the client sent, its namespace, a dated release or an unpriced answer   *)
(* (pricing.ts:1-10, anthropic.ts:13-17, openai.ts:17-32), and the clamp   *)
(* at the hold never takes a part of it (hold.ts:1-3) unless the counter   *)
(* was short of the prompt by more than the pad (hold.ts:66-68).  The byte *)
(* bound is one because UsageAssumption has a token span a byte at least,  *)
(* as hold.ts claims.                                                      *)
HonestBillIsExact ==
  bill # Open /\ up.stage = "done" /\ ~call.short => bill.charge = Invoice

(* However a request ends, it is charged on evidence.  Streamed text the   *)
(* client could read is paid for (handler.ts:233-236): on Anthropic, whose *)
(* text is not scanned, with at least the prompt message_start reported,   *)
(* elsewhere with at least the output tokens the text stands for, which no *)
(* clamp takes back.  At the cheapest rates that may round to nothing      *)
(* (pricing.ts:10).  And a failure or a shutdown charges nothing that      *)
(* neither a report nor visible text supports; only a buffered body lost   *)
(* after its 2xx pays for the accepted input (types.ts:10-14,              *)
(* handler.ts:672-676).                                                    *)
OutputOnly(tokens) == [NoUsage EXCEPT !.output = tokens]
TokensSeen == Lower(up.out, Quotient(up.visible, CHARS_PER_TOKEN))
VisibleWorkIsBilled ==
  up.visible > 0 =>
    LET rate == findRate(call.model)
    IN IF Anthropic
       THEN \E u \in Openings : ChargeWithin(costOf(rate, u), call.hold) <= bill.charge
       ELSE costOf(rate, OutputOnly(TokensSeen)) <= bill.charge
UnprovenFailureIsFree ==
  bill.cause \in {"upstream_error", "upstream_timeout", "shutdown_drain"}
    /\ ~scan.reported /\ up.visible = 0 /\ bill.outcome # "input_floor"
    => bill.charge = 0
BilledOnEvidence == bill # Open => VisibleWorkIsBilled /\ UnprovenFailureIsFree
=============================================================================
