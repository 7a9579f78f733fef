--------------------------- MODULE PricingProofs ---------------------------
(***************************************************************************)
(* The reservation dominates the bill, and so an honest provider's invoice *)
(* is what the client pays.  The arithmetic is split into the products,    *)
(* each monotone in one factor, and the two truncating divisions by        *)
(* PerMtok; the rest follows one request from its gates to its charge.     *)
(***************************************************************************)
EXTENDS UsageMetering, TLAPS

\* A product of naturals grows with its second factor.
LEMMA TimesMonotone ==
  ASSUME NEW n \in Nat, NEW a \in Nat, NEW b \in Nat, a <= b
  PROVE  /\ n * a \in Nat
         /\ n * b \in Nat
         /\ n * a <= n * b
<1>1. n * a \in Nat /\ n * b \in Nat
  OBVIOUS
<1>2. b = a + (b - a) /\ b - a \in Nat
  OBVIOUS
<1>3. n * b = n * a + n * (b - a)
  BY <1>2
<1>4. n * (b - a) >= 0
  BY <1>2
<1> QED
  BY <1>1, <1>3, <1>4

\* Truncation keeps an order.
LEMMA QuotientMonotone ==
  ASSUME NEW a \in Nat, NEW b \in Nat, a <= b
  PROVE  a \div PerMtok <= b \div PerMtok
<1> DEFINE d == PerMtok
           p == a \div d
           q == b \div d
<1>0. d \in Nat /\ d > 0
  BY PricingAssumption
<1>1. p \in Int /\ q \in Int
  BY <1>0
<1>2. a >= d * p /\ a < d * p + d /\ b >= d * q /\ b < d * q + d
  BY <1>0
<1> HIDE DEF d, p, q
<1>3. ASSUME p > q
      PROVE  FALSE
  <2>1. p = q + 1 + (p - q - 1) /\ p - q - 1 \in Nat
    BY <1>1, <1>3
  <2>2. d * p = d * q + d + d * (p - q - 1)
    BY <2>1, <1>0, <1>1
  <2>3. d * (p - q - 1) >= 0
    BY <2>1, <1>0
  <2>4. d * p \in Int /\ d * q \in Int /\ d * (p - q - 1) \in Int
    BY <1>0, <1>1
  <2> QED
    BY <2>2, <2>3, <2>4, <1>2, <1>0
<1> QED
  BY <1>1, <1>3 DEF p, q, d

-----------------------------------------------------------------------------
(* What counts sanitize to, and the two clamps over them.                  *)
LEMMA SaneCounts ==
  ASSUME NEW u \in Usage
  PROVE  /\ sanitizeCount(u.input) \in Nat
         /\ sanitizeCount(u.output) \in Nat
         /\ sanitizeCount(u.read) \in Nat
         /\ sanitizeCount(u.write) \in Nat
         /\ write1hOf(u) \in Nat
         /\ sanitizeCount(u.write) - write1hOf(u) \in Nat
BY DEF Usage, sanitizeCount, write1hOf, Lower

LEMMA RatesBounded ==
  ASSUME NEW rate \in Rate, NEW oneHour \in BOOLEAN
  PROVE  /\ maxInputRate(rate, oneHour) \in Nat
         /\ rate.input <= maxInputRate(rate, oneHour)
         /\ rate.cache_read <= maxInputRate(rate, oneHour)
         /\ rate.cache_write <= maxInputRate(rate, oneHour)
         /\ oneHour => rate.cache_write_1h <= maxInputRate(rate, oneHour)
BY DEF Rate, maxInputRate, Higher

(* The hold dominates every bill it was sized for: however the provider    *)
(* classifies the prompt's tokens, and whatever the rates, the cost is at  *)
(* most the bound, if the tokens billed are at most the tokens held and 1h *)
(* writes occur only when the request asked for them (pricing.ts:209-222). *)
THEOREM CostWithinHold ==
  ASSUME NEW rate \in Rate, NEW u \in Usage, NEW oneHour \in BOOLEAN,
         NEW inputTokens \in Nat, NEW maxTokens \in Nat,
         sanitizeCount(u.input) + sanitizeCount(u.read) + sanitizeCount(u.write) <= inputTokens,
         sanitizeCount(u.output) <= maxTokens,
         ~oneHour => write1hOf(u) = 0
  PROVE  costOf(rate, u) <= holdBoundOf(rate, inputTokens, maxTokens, oneHour)
<1> DEFINE i == sanitizeCount(u.input)
           o == sanitizeCount(u.output)
           r == sanitizeCount(u.read)
           h == write1hOf(u)
           s == sanitizeCount(u.write) - h
           top == maxInputRate(rate, oneHour)
<1>1. /\ i \in Nat /\ o \in Nat /\ r \in Nat /\ h \in Nat /\ s \in Nat
      /\ sanitizeCount(u.write) = s + h
  BY SaneCounts
<1>2. /\ top \in Nat
      /\ rate.input <= top /\ rate.cache_read <= top /\ rate.cache_write <= top
      /\ oneHour => rate.cache_write_1h <= top
  BY RatesBounded
<1>3. /\ rate.input \in Nat /\ rate.output \in Nat /\ rate.cache_read \in Nat
      /\ rate.cache_write \in Nat /\ rate.cache_write_1h \in Nat
  BY DEF Rate
<1>4. i + r + s + h <= inputTokens /\ o <= maxTokens /\ (~oneHour => h = 0)
  BY <1>1
<1>5. rawCostOf(rate, u) =
        i * rate.input + o * rate.output + s * rate.cache_write + h * rate.cache_write_1h
        + r * rate.cache_read
  BY DEF rawCostOf
<1>6. costOf(rate, u) = rawCostOf(rate, u) \div PerMtok
  BY DEF costOf
<1>7. holdBoundOf(rate, inputTokens, maxTokens, oneHour)
        = (inputTokens * top + maxTokens * rate.output) \div PerMtok
  BY DEF holdBoundOf
<1> HIDE DEF i, o, r, h, s, top
<1>8. i * rate.input \in Nat /\ i * top \in Nat /\ i * rate.input <= i * top
  BY <1>1, <1>2, <1>3, TimesMonotone
<1>9. r * rate.cache_read \in Nat /\ r * top \in Nat /\ r * rate.cache_read <= r * top
  BY <1>1, <1>2, <1>3, TimesMonotone
<1>10. s * rate.cache_write \in Nat /\ s * top \in Nat /\ s * rate.cache_write <= s * top
  BY <1>1, <1>2, <1>3, TimesMonotone
<1>11. h * rate.cache_write_1h \in Nat /\ h * top \in Nat /\ h * rate.cache_write_1h <= h * top
  <2>1. CASE oneHour
    BY <2>1, <1>1, <1>2, <1>3, TimesMonotone
  <2>2. CASE ~oneHour
    BY <2>2, <1>2, <1>3, <1>4
  <2> QED
    BY <2>1, <2>2
<1>12. /\ o * rate.output \in Nat /\ maxTokens * rate.output \in Nat
       /\ o * rate.output <= maxTokens * rate.output
  <2>1. rate.output * o <= rate.output * maxTokens
    BY <1>1, <1>3, <1>4, TimesMonotone
  <2> QED
    BY <2>1, <1>1, <1>3
<1>13. inputTokens * top \in Nat /\ (i + r + s + h) * top <= inputTokens * top
  <2>1. i + r + s + h \in Nat
    BY <1>1
  <2>2. top * (i + r + s + h) <= top * inputTokens
    BY <2>1, <1>2, <1>4, TimesMonotone
  <2> QED
    BY <2>1, <2>2, <1>2
<1>14. (i + r + s + h) * top = i * top + r * top + s * top + h * top
  BY <1>1, <1>2
<1>15. /\ rawCostOf(rate, u) \in Nat
       /\ inputTokens * top + maxTokens * rate.output \in Nat
       /\ rawCostOf(rate, u) <= inputTokens * top + maxTokens * rate.output
  BY <1>5, <1>8, <1>9, <1>10, <1>11, <1>12, <1>13, <1>14
<1> QED
  BY <1>6, <1>7, <1>15, QuotientMonotone

(* More tokens classified as 1-hour writes never bill less, which is what  *)
(* assertRateInvariants refuses to boot without (pricing.ts:52-64).        *)
THEOREM OneHourNeverCheaper ==
  ASSUME NEW rate \in Rate, assertRateInvariants(rate),
         NEW u \in Usage, NEW v \in Usage,
         v.input = u.input, v.output = u.output, v.read = u.read, v.write = u.write,
         u.write1h <= v.write1h
  PROVE  costOf(rate, u) <= costOf(rate, v)
<1> DEFINE a == write1hOf(u)
           b == write1hOf(v)
           w == sanitizeCount(u.write)
           base == sanitizeCount(u.input) * rate.input + sanitizeCount(u.output) * rate.output
           rest == sanitizeCount(u.read) * rate.cache_read
           five == rate.cache_write
           hour == rate.cache_write_1h
<1>1. a \in Nat /\ b \in Nat /\ w \in Nat /\ a <= b /\ b <= w
  BY DEF Usage, write1hOf, sanitizeCount, Lower
<1>2. five \in Nat /\ hour \in Nat /\ five <= hour
  BY DEF Rate, assertRateInvariants
<1>3. base \in Nat /\ rest \in Nat
  <2>1. /\ rate.input \in Nat /\ rate.output \in Nat /\ rate.cache_read \in Nat
        /\ sanitizeCount(u.input) \in Nat /\ sanitizeCount(u.output) \in Nat
        /\ sanitizeCount(u.read) \in Nat
    BY SaneCounts DEF Rate
  <2> QED
    BY <2>1, TimesMonotone
<1>4. /\ rawCostOf(rate, u) = base + (w - a) * five + a * hour + rest
      /\ rawCostOf(rate, v) = base + (w - b) * five + b * hour + rest
  BY DEF rawCostOf
<1> HIDE DEF a, b, w, base, rest, five, hour
<1>5. /\ (w - a) * five = (w - b) * five + (b - a) * five
      /\ b * hour = a * hour + (b - a) * hour
  BY <1>1, <1>2
<1>6. (b - a) * five <= (b - a) * hour
  BY <1>1, <1>2, TimesMonotone
<1>7. /\ (w - b) * five \in Nat /\ (b - a) * five \in Nat
      /\ a * hour \in Nat /\ (b - a) * hour \in Nat
  <2>1. w - b \in Nat /\ b - a \in Nat
    BY <1>1
  <2> QED
    BY <2>1, <1>1, <1>2, TimesMonotone
<1>8. /\ rawCostOf(rate, u) \in Nat /\ rawCostOf(rate, v) \in Nat
      /\ rawCostOf(rate, u) <= rawCostOf(rate, v)
  BY <1>3, <1>4, <1>5, <1>6, <1>7
<1> QED
  BY <1>8, QuotientMonotone DEF costOf

(* OpenAI's slices, however malformed, partition exactly the total the     *)
(* provider reported: nothing is billed twice and nothing below zero       *)
(* (openai.ts:17-32).                                                      *)
THEOREM SplitPartitionsTotal ==
  ASSUME NEW total \in Nat, NEW cached \in Nat, NEW written \in Nat
  PROVE  LET s == splitOpenAIInput(total, cached, written)
         IN /\ s.input \in Nat /\ s.read \in Nat /\ s.write \in Nat
            /\ s.input + s.read + s.write = total
            /\ s.read <= cached /\ s.write <= written
BY DEF splitOpenAIInput, Lower

-----------------------------------------------------------------------------
(* One request.  The model it is billed for is a row of the table, of the  *)
(* provider it is sent to.                                                 *)
OnCard(model, provider) ==
  \E id \in DOMAIN Rates : /\ findModel(model.base, model.suffix) = Rates[id]
                           /\ Rates[id].provider = provider
                           /\ isPriced(model)
                           /\ \/ model.suffix \in {"", "dated"}
                              \/ id = <<model.base, model.suffix>>

(* What Admit established about the request it let through.                *)
Admitted ==
  call # Idle =>
    /\ call.path \in Paths /\ call.provider \in ProvidersOf[call.path]
    /\ OnCard(call.model, call.provider)
    /\ call.option \in {"plain", "own_tool", "one_hour"}
    /\ "context-1m" \notin call.betas
    /\ call.asked
    /\ call.prompt \in Prompts
    /\ call.path # "messages" => call.prompt.write1h = 0
    /\ call.cap \in Nat \ {0} /\ call.hold \in Nat /\ call.input \in Nat \ {0}

(* The hold is enough for whatever the upstream may do for the request; of *)
(* a prompt that was counted short, at least for all it may generate.      *)
Covered ==
  call # Idle =>
    \A out \in 0 .. call.cap :
      /\ costOf(findRate(call.model), OutputOnly(out)) <= call.hold
      /\ ~call.short => costOf(findRate(call.model), Spent(out)) <= call.hold

Scanner == [model : Answers \cup {NoModel}, reported : BOOLEAN, usage : Usage, chars : Nat,
            any : BOOLEAN, failed : BOOLEAN]
Upstream == [stage : {"started", "done", "failed"}, out : 0 .. call.cap, frames : Nat,
             visible : Nat]

(* The scanner's closure against the upstream's work.                      *)
Scanned ==
  IF call = Idle \/ up.stage = "none" THEN up = Silent /\ scan = Unseen
  ELSE /\ up \in Upstream
       /\ scan \in Scanner
       /\ up.visible > 0 => up.out > 0
       /\ ~Anthropic /\ call.streaming => scan.chars = up.visible
       /\ ~call.streaming => scan = Unseen /\ up.visible = 0 /\ bill # Open

(* What a stream has reported, and that visible text leaves some evidence. *)
Reported ==
  call # Idle /\ call.streaming =>
    /\ scan.reported /\ up.stage # "done" => Anthropic /\ scan.usage \in Openings
    /\ Anthropic /\ up.stage \in {"started", "done"} => scan.reported
    /\ ~scan.reported /\ up.visible > 0 => ~Anthropic /\ scan.any
    /\ up.stage = "done" => scan.reported /\ scan.usage = Spent(up.out)

Settled == bill # Open => call # Idle /\ bill.charge \in 0 .. call.hold

IInv == Admitted /\ Covered /\ Scanned /\ Reported /\ Settled

LEMMA RateOnCard ==
  ASSUME NEW model, NEW provider, OnCard(model, provider)
  PROVE  findRate(model) \in Rate
BY PricingAssumption DEF OnCard, findRate

\* A route that was found ends at a provider of its path that owns the model.
LEMMA RouteIsOwned ==
  ASSUME NEW path \in Paths, NEW id,
         resolveProvider(candidatesOf(path), id) # Unresolved
  PROVE  LET route == resolveProvider(candidatesOf(path), id)
         IN /\ route.provider \in ProvidersOf[path]
            /\ route = [provider |-> route.provider, model |-> route.model]
            /\ providerOf(route.model) = route.provider
            /\ OnCard(route.model, route.provider)
<1> DEFINE route == resolveProvider(candidatesOf(path), id)
           bare == [id EXCEPT !.ns = ""]
<1>1. \A c \in candidatesOf(path) : c \in ProvidersOf[path] /\ c # "none"
  BY DEF candidatesOf, ProvidersOf, Paths
<1>2. \/ \E c \in candidatesOf(path) : /\ ownsModel(c, id)
                                       /\ route = [provider |-> providerOf(id), model |-> id]
      \/ /\ id.ns \in candidatesOf(path) /\ ownsModel(id.ns, bare)
         /\ route = [provider |-> id.ns, model |-> bare]
  BY Zenon DEF resolveProvider
<1>0. PICK c \in candidatesOf(path) :
        \E model : providerOf(model) = c /\ route = [provider |-> c, model |-> model]
  BY <1>2 DEF ownsModel
<1>3. PICK model : providerOf(model) = c /\ route = [provider |-> c, model |-> model]
  BY <1>0
<1>4. isPriced(model) /\ findModel(model.base, model.suffix).provider = c
  BY <1>1, <1>3 DEF providerOf
<1>5. OnCard(model, c)
  BY <1>1, <1>4 DEF OnCard, findModel, Unpriced, isPriced
<1> HIDE DEF route
<1>6. route.provider = c /\ route.model = model
  BY <1>3
<1> QED
  BY <1>1, <1>3, <1>5, <1>6 DEF route

\* The cap that is forwarded is the one the hold was sized for, whatever
\* fields the client spread it over, and usage is always asked for.
LEMMA CapForwarded ==
  ASSUME NEW path \in Paths, NEW provider \in ProvidersOf[path], NEW current \in Caps,
         NEW legacy \in Caps \cup {Absent}, NEW usage \in BOOLEAN,
         path # "chat" => legacy = Absent,
         NEW maxTokens, maxTokens > 0,
         maxTokens = IF outputCap(current, legacy) # Absent THEN outputCap(current, legacy)
                     ELSE DefaultMaxOutput
  PROVE  LET sent == prepareBody(provider, path, current, legacy, usage)
         IN /\ forwardedCap(sent) = maxTokens
            /\ maxTokens \in Nat \ {0}
            /\ sent.include_usage
<1>1. /\ current \in Nat \cup {-1} /\ legacy \in Nat \cup {-1}
      /\ DefaultMaxOutput \in Nat /\ Absent = -1
  BY UsageAssumption DEF Absent
<1>2. /\ provider \in {"anthropic", "openai", "tinfoil"}
      /\ path \in {"messages", "chat", "responses"}
      /\ provider = "anthropic" => path = "messages"
      /\ provider = "tinfoil" => path = "chat"
  BY DEF Paths, ProvidersOf
<1> DEFINE inject == IF outputCap(current, legacy) = Absent THEN DefaultMaxOutput ELSE Absent
           sent == prepareBody(provider, path, current, legacy, usage)
<1>3. /\ maxTokens \in Nat \ {0}
      /\ Given(inject, Given(current, legacy)) = maxTokens
      /\ Given(Given(inject, current), legacy) = maxTokens
  BY <1>1 DEF outputCap, Given
<1>4. CASE provider = "anthropic"
  <2>1. legacy = Absent /\ sent = anthropicPrepareBody(current, inject)
    BY <1>2, <1>4 DEF prepareBody
  <2> QED
    BY <2>1, <1>3 DEF anthropicPrepareBody, forwardedCap, Sent
<1>5. CASE provider = "tinfoil"
  <2>1. sent = tinfoilPrepareBody(current, legacy, inject, usage)
    BY <1>2, <1>5 DEF prepareBody
  <2>2. Given(maxTokens, Absent) = maxTokens
    BY <1>1, <1>3 DEF Given
  <2> QED
    BY <2>1, <2>2, <1>3 DEF tinfoilPrepareBody, forwardedCap, Sent
<1>6. CASE provider = "openai" /\ path = "chat"
  <2>1. sent = openaiChatPrepareBody(current, legacy, inject, usage)
    BY <1>6 DEF prepareBody
  <2> QED
    BY <2>1, <1>3 DEF openaiChatPrepareBody, forwardedCap, Sent
<1>7. CASE provider = "openai" /\ path # "chat"
  <2>1. legacy = Absent /\ sent = openaiResponsesPrepareBody(current, inject)
    BY <1>2, <1>7 DEF prepareBody
  <2> QED
    BY <2>1, <1>3 DEF openaiResponsesPrepareBody, forwardedCap, Sent
<1> QED
  BY <1>2, <1>4, <1>5, <1>6, <1>7

\* What is left of a provider's features once the premium ones are refused.
LEMMA PlainOptions ==
  ASSUME NEW path \in Paths, NEW provider \in ProvidersOf[path],
         NEW option \in Understood(provider, path), option \notin premiumReject(provider, path)
  PROVE  option \in {"plain", "own_tool", "one_hour"}
<1>1. CASE path = "messages"
  <2>1. provider = "anthropic"
    BY <1>1 DEF ProvidersOf
  <2> QED
    BY <2>1 DEF Understood, premiumReject
<1>2. CASE path = "chat"
  <2>1. CASE provider = "tinfoil"
    BY <2>1 DEF Understood, premiumReject, tinfoilPremiumReject
  <2>2. CASE provider = "openai"
    BY <1>2, <2>2 DEF Understood, premiumReject
  <2> QED
    BY <1>2, <2>1, <2>2 DEF ProvidersOf
<1>3. CASE path = "responses"
  <2>1. provider = "openai"
    BY <1>3 DEF ProvidersOf
  <2> QED
    BY <1>3, <2>1 DEF Understood, premiumReject
<1> QED
  BY <1>1, <1>2, <1>3 DEF Paths

\* What a provider counted, padded, is the whole prompt unless the counter
\* was short by more than the pad.
LEMMA CountCovers ==
  ASSUME NEW provider, NEW path, NEW prompt \in Prompts, NEW counter \in Counter,
         NEW count, count = tokenCount(provider, path, prompt, counter)
  PROVE  /\ count \in Nat
         /\ count > 0 => Padded(count) \in Nat \ {0}
         /\ count > 0 /\ ~(counter.drift < -Pad) => PromptTokens(prompt) <= Padded(count)
<1> DEFINE fields == countBody(provider, prompt.fields)
           tokens == TokensIn(prompt, fields)
<1>1. /\ prompt.input \in Nat /\ prompt.read \in Nat /\ prompt.write \in Nat
      /\ prompt.extra \in Nat
      /\ prompt.extra > 0 => prompt.fields \cap {"tools", "novel"} # {}
  BY UsageAssumption
<1>2. counter.drift \in Int
  <2>1. CASE counter = Unanswered
    BY <2>1 DEF Unanswered
  <2>2. CASE counter \in [answers : {TRUE}, drift : Drifts]
    <3>1. Drifts \subseteq Int
      BY UsageAssumption
    <3> QED
      BY <2>2, <3>1
  <2> QED
    BY <2>1, <2>2 DEF Counter
<1>3. PromptTokens(prompt) \in Nat /\ tokens = PromptTokens(prompt)
  <2>1. fields \cap {"tools", "novel"} = prompt.fields \cap {"tools", "novel"}
    BY DEF countBody, countOmit, ANTHROPIC_COUNT_OMIT, OPENAI_COUNT_OMIT
  <2> QED
    BY <2>1, <1>1 DEF TokensIn, PromptTokens
<1>4. count = Higher(0, PromptTokens(prompt) + counter.drift) \/ count = 0
  BY <1>3 DEF tokenCount
<1>5. count \in Nat /\ (count > 0 => count = PromptTokens(prompt) + counter.drift)
  BY <1>2, <1>3, <1>4 DEF Higher
<1>6. Pad \in Nat
  BY PricingAssumption
<1>7. ASSUME count > 0
      PROVE  Padded(count) \in Nat \ {0} /\ Padded(count) >= count + Pad
  BY <1>5, <1>6, <1>7 DEF Padded, Quotient
<1> HIDE DEF fields, tokens
<1> QED
  BY <1>2, <1>3, <1>5, <1>6, <1>7

\* What the upstream has spent once it has generated out tokens.
Work(prompt, out) == [input |-> prompt.input, output |-> out, read |-> prompt.read,
                      write |-> prompt.write, write1h |-> prompt.write1h]

LEMMA WorkIsUsage ==
  ASSUME NEW prompt \in Prompts, NEW out \in Nat
  PROVE  /\ Work(prompt, out) \in Usage
         /\ prompt.write1h \in Nat /\ prompt.write1h <= prompt.write
         /\ sanitizeCount(Work(prompt, out).output) = out
         /\ write1hOf(Work(prompt, out)) = prompt.write1h
         /\ sanitizeCount(Work(prompt, out).input) + sanitizeCount(Work(prompt, out).read)
              + sanitizeCount(Work(prompt, out).write) = PromptTokens(prompt)
<1>1. /\ prompt.input \in Nat /\ prompt.read \in Nat /\ prompt.write \in Nat
      /\ prompt.write1h \in Nat /\ prompt.write1h <= prompt.write
  BY UsageAssumption
<1> QED
  BY <1>1 DEF Work, Usage, sanitizeCount, write1hOf, Lower, PromptTokens

\* A cost is a natural.
LEMMA CostIsNatural ==
  ASSUME NEW rate \in Rate, NEW u \in Usage
  PROVE  rawCostOf(rate, u) \in Nat /\ costOf(rate, u) \in Nat
<1>1. /\ sanitizeCount(u.input) * rate.input \in Nat
      /\ sanitizeCount(u.output) * rate.output \in Nat
      /\ (sanitizeCount(u.write) - write1hOf(u)) * rate.cache_write \in Nat
      /\ write1hOf(u) * rate.cache_write_1h \in Nat
      /\ sanitizeCount(u.read) * rate.cache_read \in Nat
  BY SaneCounts, TimesMonotone DEF Rate
<1>2. rawCostOf(rate, u) \in Nat
  BY <1>1 DEF rawCostOf
<1>3. \A n \in Nat : n \div PerMtok \in Nat
  BY PricingAssumption
<1> QED
  BY <1>2, <1>3 DEF costOf

\* A bill grows with the tokens of output, whatever else is on it.
LEMMA OutputIsBilled ==
  ASSUME NEW rate \in Rate, NEW u \in Usage, NEW tokens \in Nat, tokens <= u.output
  PROVE  /\ OutputOnly(tokens) \in Usage
         /\ costOf(rate, OutputOnly(tokens)) <= costOf(rate, u)
<1> DEFINE others == sanitizeCount(u.input) * rate.input
                     + (sanitizeCount(u.write) - write1hOf(u)) * rate.cache_write
                     + write1hOf(u) * rate.cache_write_1h
                     + sanitizeCount(u.read) * rate.cache_read
           o == u.output
           price == rate.output
<1>1. price \in Nat /\ o \in Nat /\ sanitizeCount(u.output) = o
  BY DEF Rate, Usage, sanitizeCount
<1>2. /\ sanitizeCount(u.input) * rate.input \in Nat
      /\ (sanitizeCount(u.write) - write1hOf(u)) * rate.cache_write \in Nat
      /\ write1hOf(u) * rate.cache_write_1h \in Nat
      /\ sanitizeCount(u.read) * rate.cache_read \in Nat
  BY SaneCounts, TimesMonotone DEF Rate
<1>3. others \in Nat
  BY <1>2
<1>4. tokens * price \in Nat /\ o * price \in Nat /\ tokens * price <= o * price
  <2>1. price * tokens \in Nat /\ price * o \in Nat /\ price * tokens <= price * o
    BY <1>1, TimesMonotone
  <2> QED
    BY <2>1, <1>1
<1>5. rawCostOf(rate, u) = o * price + others
  BY <1>1, <1>2, <1>4 DEF rawCostOf
<1>6. /\ OutputOnly(tokens) \in Usage
      /\ rawCostOf(rate, OutputOnly(tokens)) = tokens * price
  <2>1. OutputOnly(tokens) = [input |-> 0, output |-> tokens, read |-> 0, write |-> 0,
                              write1h |-> 0]
    BY DEF OutputOnly, NoUsage
  <2>2. /\ OutputOnly(tokens) \in Usage
        /\ rawCostOf(rate, OutputOnly(tokens))
             = 0 * rate.input + tokens * rate.output + (0 - 0) * rate.cache_write
               + 0 * rate.cache_write_1h + 0 * rate.cache_read
    BY <2>1 DEF Usage, rawCostOf, sanitizeCount, write1hOf, Lower
  <2> QED
    BY <2>2, <1>1, <1>4 DEF Rate
<1> HIDE DEF others, o, price
<1>7. tokens * price <= o * price + others /\ o * price + others \in Nat
  BY <1>3, <1>4
<1>8. (tokens * price) \div PerMtok <= (o * price + others) \div PerMtok
  BY <1>4, <1>7, QuotientMonotone
<1> QED
  BY <1>5, <1>6, <1>8 DEF costOf

\* The prompt is on every bill for its work.
LEMMA WorkGrows ==
  ASSUME NEW rate \in Rate, NEW prompt \in Prompts, NEW out \in Nat
  PROVE  costOf(rate, Work(prompt, 0)) <= costOf(rate, Work(prompt, out))
<1> DEFINE before == Work(prompt, 0)
           after == Work(prompt, out)
           price == rate.output
<1>1. before \in Usage /\ after \in Usage /\ 0 \in Nat
  BY WorkIsUsage
<1>2. /\ sanitizeCount(before.output) = 0 /\ sanitizeCount(after.output) = out
      /\ sanitizeCount(before.input) = sanitizeCount(after.input)
      /\ sanitizeCount(before.read) = sanitizeCount(after.read)
      /\ sanitizeCount(before.write) = sanitizeCount(after.write)
      /\ write1hOf(before) = write1hOf(after)
  <2>1. /\ sanitizeCount(before.output) = 0 /\ sanitizeCount(after.output) = out
        /\ write1hOf(before) = write1hOf(after)
    BY WorkIsUsage
  <2> QED
    BY <2>1 DEF Work
<1>3. /\ sanitizeCount(before.input) * rate.input \in Nat
      /\ (sanitizeCount(before.write) - write1hOf(before)) * rate.cache_write \in Nat
      /\ write1hOf(before) * rate.cache_write_1h \in Nat
      /\ sanitizeCount(before.read) * rate.cache_read \in Nat
  BY <1>1, SaneCounts, TimesMonotone DEF Rate
<1>4. price \in Nat
  BY DEF Rate
<1>5. price * out \in Nat /\ out * price = price * out /\ 0 * price = 0
  <2>1. price * out \in Nat
    BY <1>4, TimesMonotone
  <2> QED
    BY <1>4, <2>1
<1>6. rawCostOf(rate, before) \in Nat /\ rawCostOf(rate, after) \in Nat
  BY <1>1, CostIsNatural
<1> HIDE DEF before, after
<1>7. rawCostOf(rate, after) = rawCostOf(rate, before) + out * price
  BY <1>2, <1>3, <1>5 DEF rawCostOf
<1> HIDE DEF price
<1>8. rawCostOf(rate, before) <= rawCostOf(rate, after)
  BY <1>5, <1>6, <1>7
<1> QED
  BY <1>6, <1>8, QuotientMonotone DEF costOf, before, after

\* What is charged within a hold grows with the cost.
LEMMA ChargeMonotone ==
  ASSUME NEW a \in Nat, NEW b \in Nat, a <= b, NEW hold \in Nat
  PROVE  /\ ChargeWithin(a, hold) <= ChargeWithin(b, hold)
         /\ a <= hold => a <= ChargeWithin(b, hold)
BY DEF ChargeWithin, Lower, Higher

LEMMA BoundIsNatural ==
  ASSUME NEW rate \in Rate, NEW oneHour \in BOOLEAN, NEW inputTokens \in Nat,
         NEW maxTokens \in Nat \ {0}
  PROVE  holdBoundOf(rate, inputTokens, maxTokens, oneHour) \in Nat
<1>1. maxInputRate(rate, oneHour) \in Nat /\ rate.output \in Nat
  BY RatesBounded DEF Rate
<1>2. /\ inputTokens * maxInputRate(rate, oneHour) \in Nat
      /\ maxTokens * rate.output \in Nat
  BY <1>1, TimesMonotone
<1>3. \A n \in Nat : n \div PerMtok \in Nat
  BY PricingAssumption
<1> QED
  BY <1>2, <1>3 DEF holdBoundOf

(* What countTokensHold reserves covers the request's work in full, unless *)
(* the provider's count was short of the prompt by more than the pad       *)
(* (hold.ts).                                                              *)
LEMMA HoldCovers ==
  ASSUME NEW model, NEW provider, NEW path, OnCard(model, provider),
         NEW prompt \in Prompts, NEW counter \in Counter,
         NEW count, count = tokenCount(provider, path, prompt, counter),
         NEW maxTokens \in Nat \ {0}, NEW oneHour \in BOOLEAN,
         prompt.write1h > 0 => oneHour,
         NEW hold, hold = countTokensHold(model, prompt.bytes, maxTokens, oneHour, count)
  PROVE  /\ hold.micros \in Nat
         /\ billableInput(hold) \in Nat \ {0}
         /\ \A out \in 0 .. maxTokens :
              costOf(findRate(model), OutputOnly(out)) <= hold.micros
         /\ ~(count > 0 /\ counter.drift < -Pad) =>
              \A out \in 0 .. maxTokens :
                costOf(findRate(model), Work(prompt, out)) <= hold.micros
<1> DEFINE rate == findRate(model)
           whole == holdBoundOf(rate, prompt.bytes, maxTokens, oneHour)
           counted == holdBoundOf(rate, Padded(count), maxTokens, oneHour)
<1>1. rate \in Rate
  BY RateOnCard
<1>2. /\ prompt.bytes \in Nat \ {0} /\ PromptTokens(prompt) \in Nat
      /\ PromptTokens(prompt) <= prompt.bytes
  <2>1. prompt.bytes \in Nat /\ PromptTokens(prompt) \in 1 .. prompt.bytes
    BY UsageAssumption
  <2> QED
    BY <2>1
<1>3. /\ count \in Nat
      /\ count > 0 => Padded(count) \in Nat \ {0}
      /\ count > 0 /\ ~(counter.drift < -Pad) => PromptTokens(prompt) <= Padded(count)
  BY CountCovers
<1>4. whole \in Nat
  BY <1>1, <1>2, BoundIsNatural
<1>5. count > 0 => counted \in Nat
  BY <1>1, <1>3, BoundIsNatural
<1>10. ASSUME NEW out \in 0 .. maxTokens, NEW tokens \in Nat
       PROVE  costOf(rate, OutputOnly(out)) <= holdBoundOf(rate, tokens, maxTokens, oneHour)
  <2>1. OutputOnly(out) = [input |-> 0, output |-> out, read |-> 0, write |-> 0,
                           write1h |-> 0]
    BY DEF OutputOnly, NoUsage
  <2>2. /\ OutputOnly(out) \in Usage /\ write1hOf(OutputOnly(out)) = 0
        /\ sanitizeCount(OutputOnly(out).output) <= maxTokens
        /\ sanitizeCount(OutputOnly(out).input) + sanitizeCount(OutputOnly(out).read)
             + sanitizeCount(OutputOnly(out).write) <= tokens
    BY <2>1 DEF Usage, sanitizeCount, write1hOf, Lower
  <2> QED
    BY <2>2, <1>1, CostWithinHold
<1>6. ASSUME NEW out \in 0 .. maxTokens, NEW tokens \in Nat, PromptTokens(prompt) <= tokens
      PROVE  costOf(rate, Work(prompt, out)) <= holdBoundOf(rate, tokens, maxTokens, oneHour)
  <2>1. /\ Work(prompt, out) \in Usage
        /\ sanitizeCount(Work(prompt, out).output) <= maxTokens
        /\ sanitizeCount(Work(prompt, out).input) + sanitizeCount(Work(prompt, out).read)
             + sanitizeCount(Work(prompt, out).write) <= tokens
        /\ write1hOf(Work(prompt, out)) = prompt.write1h /\ prompt.write1h \in Nat
    BY <1>6, WorkIsUsage
  <2>2. ~oneHour => write1hOf(Work(prompt, out)) = 0
    BY <2>1
  <2> QED
    BY <2>1, <2>2, <1>1, CostWithinHold
<1>7. hold = IF count < 1 THEN Estimate(whole, prompt.bytes, "byte_bound")
             ELSE Estimate(Lower(whole, counted), count, "counted")
  BY DEF countTokensHold, byteBoundHold, priceHoldBound, Estimate
<1> HIDE DEF rate, whole, counted
<1>8. CASE count < 1
  <2>1. hold.micros = whole /\ hold.inputTokens = prompt.bytes /\ hold.source = "byte_bound"
    BY <1>7, <1>8 DEF Estimate
  <2>2. billableInput(hold) \in Nat \ {0}
    <3>1. billableInput(hold) = Quotient(prompt.bytes, 4)
      BY <2>1 DEF billableInput
    <3>2. \A n \in Nat \ {0} : Quotient(n, 4) \in Nat \ {0}
      BY DEF Quotient
    <3> QED
      BY <3>1, <3>2, <1>2
  <2>3. \A out \in 0 .. maxTokens : /\ costOf(rate, Work(prompt, out)) <= hold.micros
                                    /\ costOf(rate, OutputOnly(out)) <= hold.micros
    BY <2>1, <1>2, <1>6, <1>10 DEF whole
  <2> QED
    BY <2>1, <2>2, <2>3, <1>4 DEF rate
<1>9. CASE count >= 1
  <2>1. hold.micros = Lower(whole, counted) /\ hold.inputTokens = count /\ hold.source = "counted"
    BY <1>3, <1>7, <1>9 DEF Estimate
  <2>2. billableInput(hold) \in Nat \ {0}
    BY <2>1, <1>3, <1>9 DEF billableInput
  <2>3. hold.micros \in Nat
    BY <2>1, <1>3, <1>4, <1>5, <1>9 DEF Lower
  <2>5. ASSUME NEW out \in 0 .. maxTokens
        PROVE  costOf(rate, OutputOnly(out)) <= hold.micros
    <3>1. costOf(rate, OutputOnly(out)) <= whole
      BY <1>2, <1>10 DEF whole
    <3>2. costOf(rate, OutputOnly(out)) <= counted
      BY <1>3, <1>9, <1>10 DEF counted
    <3> QED
      BY <3>1, <3>2, <2>1 DEF Lower
  <2>4. ASSUME ~(count > 0 /\ counter.drift < -Pad), NEW out \in 0 .. maxTokens
        PROVE  costOf(rate, Work(prompt, out)) <= hold.micros
    <3>1. costOf(rate, Work(prompt, out)) <= whole
      BY <1>2, <1>6 DEF whole
    <3>2. costOf(rate, Work(prompt, out)) <= counted
      BY <1>3, <1>6, <1>9, <2>4 DEF counted
    <3> QED
      BY <3>1, <3>2, <2>1 DEF Lower
  <2> QED
    BY <2>2, <2>3, <2>4, <2>5 DEF rate
<1> QED
  BY <1>3, <1>8, <1>9

-----------------------------------------------------------------------------
(* The steps *)

\* Admit, its choices named: what the request becomes.
LEMMA AdmitEstablishes ==
  ASSUME IInv, Admit
  PROVE  Admitted' /\ Covered' /\ (call # Idle)' /\ call = Idle
<1> DEFINE oneHour(option) == hasOneHourCacheControl(option)
           Accepts(path, id, option, current, prompt, betas, streaming, legacy, counter, usage) ==
             LET route == resolveProvider(candidatesOf(path), id)
                 count == tokenCount(route.provider, path, prompt, counter)
                 cap == outputCap(current, legacy)
                 maxTokens == IF cap # Absent THEN cap ELSE DefaultMaxOutput
                 sent == prepareBody(route.provider, path, current, legacy, usage)
                 relayed == buildUpstreamHeaders(route.provider, betas)
                 hold == countTokensHold(route.model, prompt.bytes, maxTokens, oneHour(option), count)
             IN /\ route # Unresolved
                /\ option \in Understood(route.provider, path)
                /\ option \notin premiumReject(route.provider, path)
                /\ maxTokens > 0
                /\ prompt.write1h > 0 => oneHour(option)
                /\ path # "messages" => prompt.write1h = 0
                /\ "context_management" \in prompt.fields => "context-management" \in relayed
                /\ call' = [provider |-> route.provider, path |-> path, model |-> route.model,
                            option |-> option, betas |-> relayed, streaming |-> streaming,
                            asked |-> sent.include_usage,
                            prompt |-> prompt, cap |-> forwardedCap(sent),
                            hold |-> hold.micros, input |-> billableInput(hold),
                            short |-> count > 0 /\ counter.drift < -Pad]
<1>0. PICK path \in Paths, id \in RequestIds, option \in Options, current \in Caps,
           prompt \in Prompts, betas \in BetaHeaders, streaming \in BOOLEAN :
        \E legacy \in (IF path = "chat" THEN Caps ELSE {Absent}),
           counter \in Counter, usage \in BOOLEAN :
          Accepts(path, id, option, current, prompt, betas, streaming, legacy, counter, usage)
  BY Zenon DEF Admit
<1>1. PICK legacy \in (IF path = "chat" THEN Caps ELSE {Absent}),
           counter \in Counter, usage \in BOOLEAN :
        Accepts(path, id, option, current, prompt, betas, streaming, legacy, counter, usage)
  BY <1>0
<1> DEFINE route == resolveProvider(candidatesOf(path), id)
           provider == route.provider
           model == route.model
           count == tokenCount(provider, path, prompt, counter)
           cap == outputCap(current, legacy)
           maxTokens == IF cap # Absent THEN cap ELSE DefaultMaxOutput
           sent == prepareBody(provider, path, current, legacy, usage)
           hold == countTokensHold(model, prompt.bytes, maxTokens, oneHour(option), count)
<1>2. /\ provider \in ProvidersOf[path] /\ OnCard(model, provider)
  BY <1>1, RouteIsOwned
<1>3. option \in {"plain", "own_tool", "one_hour"}
  BY <1>1, <1>2, PlainOptions
<1>4. "context-1m" \notin buildUpstreamHeaders(provider, betas)
  BY DEF buildUpstreamHeaders, ANTHROPIC_SAFE_BETA
<1>5. /\ forwardedCap(sent) = maxTokens /\ maxTokens \in Nat \ {0} /\ sent.include_usage
  <2>1. legacy \in Caps \cup {Absent} /\ (path # "chat" => legacy = Absent)
    OBVIOUS
  <2>2. maxTokens > 0
    BY <1>1
  <2> HIDE DEF maxTokens
  <2> QED
    BY <2>1, <2>2, <1>2, CapForwarded DEF maxTokens
<1>6. oneHour(option) \in BOOLEAN /\ (prompt.write1h > 0 => oneHour(option))
  BY <1>1 DEF hasOneHourCacheControl
<1>7. /\ hold.micros \in Nat
      /\ billableInput(hold) \in Nat \ {0}
      /\ \A out \in 0 .. maxTokens : costOf(findRate(model), OutputOnly(out)) <= hold.micros
      /\ ~(count > 0 /\ counter.drift < -Pad) =>
           \A out \in 0 .. maxTokens : costOf(findRate(model), Work(prompt, out)) <= hold.micros
  <2> HIDE DEF provider, model, maxTokens, hold, oneHour
  <2> QED
    BY <1>2, <1>5, <1>6, HoldCovers DEF count, hold
<1>8. /\ call'.provider = provider /\ call'.path = path /\ call'.model = model
      /\ call'.option = option /\ call'.betas = buildUpstreamHeaders(provider, betas)
      /\ call'.asked = sent.include_usage /\ call'.prompt = prompt /\ call'.cap = maxTokens
      /\ call'.hold = hold.micros /\ call'.input = billableInput(hold)
      /\ call'.short = (count > 0 /\ counter.drift < -Pad)
  <2> HIDE DEF provider, model, maxTokens, hold, oneHour, sent, count
  <2> QED
    BY <1>1, <1>5 DEF provider, model, maxTokens, hold, sent, count
<1>9. call' # Idle
  <2>1. provider # "none"
    BY <1>2 DEF ProvidersOf, Paths
  <2>2. call'.provider = provider
    BY <1>8
  <2> HIDE DEF provider
  <2> QED
    BY <2>1, <2>2 DEF Idle
<1>10. path # "messages" => prompt.write1h = 0
  BY <1>1
<1> HIDE DEF route, provider, model, count, cap, maxTokens, sent, hold, oneHour
<1>11. Admitted'
  BY <1>2, <1>3, <1>4, <1>5, <1>7, <1>8, <1>10 DEF Admitted
<1>12. Covered'
  <2> SUFFICES ASSUME NEW out \in 0 .. call'.cap
               PROVE  /\ costOf(findRate(call'.model), OutputOnly(out)) <= call'.hold
                      /\ ~call'.short =>
                           costOf(findRate(call'.model), Spent(out)') <= call'.hold
    BY DEF Covered
  <2>1. Spent(out)' = Work(prompt, out)
    BY <1>8 DEF Spent, Work
  <2> QED
    BY <2>1, <1>7, <1>8
<1> QED
  BY <1>9, <1>11, <1>12 DEF Admit

\* What the invariant says of a request on its stream.
LEMMA OnStream ==
  ASSUME IInv, call # Idle
  PROVE  /\ findRate(call.model) \in Rate
         /\ call.prompt \in Prompts
         /\ call.cap \in Nat \ {0} /\ call.hold \in Nat /\ call.input \in Nat \ {0}
         /\ Ceiling(call) = call.cap
         /\ \A n \in Nat : Spent(n) = Work(call.prompt, n) /\ Spent(n) \in Usage
         /\ Openings \subseteq Usage
<1>1. /\ OnCard(call.model, call.provider) /\ call.prompt \in Prompts
      /\ call.cap \in Nat \ {0} /\ call.hold \in Nat /\ call.input \in Nat \ {0}
      /\ call.option \in {"plain", "own_tool", "one_hour"}
  BY DEF IInv, Admitted
<1>2. Ceiling(call) = call.cap
  BY <1>1 DEF Ceiling
<1>3. ASSUME NEW n \in Nat
      PROVE  Spent(n) = Work(call.prompt, n) /\ Spent(n) \in Usage
  BY <1>1, WorkIsUsage DEF Spent, Work
<1>4. Openings \subseteq Usage
  <2>1. Spent(0) \in Usage
    BY <1>3
  <2>2. ASSUME NEW u \in Usage
        PROVE  [u EXCEPT !.input = @ + u.write, !.write = 0, !.write1h = 0] \in Usage
    <3>1. u.input + u.write \in Int /\ 0 \in Int
      BY DEF Usage
    <3> DEFINE total == u.input + u.write
    <3> HIDE DEF total
    <3>2. [u EXCEPT !.input = total, !.write = 0, !.write1h = 0] \in Usage
      BY <3>1 DEF Usage, total
    <3> QED
      BY <3>2 DEF total
  <2> QED
    BY <2>1, <2>2 DEF Openings
<1> QED
  BY <1>1, <1>2, <1>3, <1>4, RateOnCard

\* A well-formed inclusive report means exactly what was spent.
LEMMA InclusiveIsExact ==
  ASSUME NEW prompt \in Prompts, NEW out \in Nat, prompt.write1h = 0
  PROVE  mapOpenAIUsage(Inclusive(Work(prompt, out))) = Work(prompt, out)
<1> DEFINE u == Inclusive(Work(prompt, out))
           s == splitOpenAIInput(sanitizeCount(u.total), sanitizeCount(u.cached),
                                 sanitizeCount(u.written))
<1>1. prompt.input \in Nat /\ prompt.read \in Nat /\ prompt.write \in Nat
  BY UsageAssumption
<1>2. /\ sanitizeCount(u.total) = prompt.input + prompt.read + prompt.write
      /\ sanitizeCount(u.cached) = prompt.read /\ sanitizeCount(u.written) = prompt.write
      /\ sanitizeCount(u.output) = out
  BY <1>1 DEF Inclusive, Work, sanitizeCount
<1>3. s.input = prompt.input /\ s.read = prompt.read /\ s.write = prompt.write
  BY <1>1, <1>2 DEF splitOpenAIInput, Lower
<1>4. mapOpenAIUsage(u) = [input |-> s.input, output |-> sanitizeCount(u.output), read |-> s.read,
                           write |-> s.write, write1h |-> 0]
  BY DEF mapOpenAIUsage
<1> HIDE DEF u, s
<1>5. mapOpenAIUsage(u) = Work(prompt, out)
  BY <1>2, <1>3, <1>4 DEF Work
<1> QED
  BY <1>5 DEF u

\* Whatever name an answer carries, it is priced by the request's card.
LEMMA OneCard ==
  ASSUME NEW model \in Answers, NEW u
  PROVE  priceUsage(model, u, call.model) = costOf(findRate(call.model), u)
<1>1. model = Alias \/ model = call.model \/ findRate(model) = findRate(call.model)
  BY DEF Answers
<1>2. ~isPriced(Alias)
  BY UsageAssumption
<1> QED
  BY <1>1, <1>2 DEF priceUsage

\* An event with neither usage nor failure adds its text.
LEMMA EventScans ==
  ASSUME NEW s \in Scanner, NEW model \in Answers \cup {NoModel}, NEW chars \in Nat
  PROVE  /\ Event(s, model, chars) \in Scanner
         /\ Event(s, model, chars).chars = s.chars + chars
         /\ Event(s, model, chars).any
         /\ Event(s, model, chars).reported = s.reported
<1>1. s.chars + chars \in Nat
  BY DEF Scanner
<1> DEFINE total == s.chars + chars
           named == IF model # NoModel THEN model ELSE s.model
<1>2. named \in Answers \cup {NoModel}
  BY DEF Scanner
<1>3. Event(s, model, chars) = [s EXCEPT !.any = TRUE, !.chars = total, !.model = named]
  BY DEF Event
<1> HIDE DEF total, named
<1>4. total \in Nat
  BY <1>1 DEF total
<1>5. /\ Event(s, model, chars) \in Scanner
      /\ Event(s, model, chars).chars = total
      /\ Event(s, model, chars).any
      /\ Event(s, model, chars).reported = s.reported
  BY <1>2, <1>3, <1>4 DEF Scanner
<1> QED
  BY <1>5 DEF total

\* A frame, and the scanner's reading of it, while the request is unsettled.
LEMMA FrameKeeps ==
  ASSUME IInv, Start \/ Content \/ Report \/ ErrorFrame
  PROVE  Scanned' /\ Reported'
<1>1. /\ call # Idle /\ call.streaming /\ bill = Open
      /\ call' = call /\ bill' = bill
  BY DEF Start, Content, Report, ErrorFrame, Streaming
<1>2. /\ Anthropic' = Anthropic /\ Answers' = Answers /\ Scanner' = Scanner
      /\ Upstream' = Upstream /\ Openings' = Openings
      /\ \A n : Spent(n)' = Spent(n)
  BY <1>1 DEF Anthropic, Answers, Scanner, Upstream, Openings, Spent
<1>3. /\ call.cap \in Nat \ {0} /\ Ceiling(call) = call.cap /\ call.prompt \in Prompts
      /\ \A n \in Nat : Spent(n) = Work(call.prompt, n) /\ Spent(n) \in Usage
      /\ Openings \subseteq Usage
  BY <1>1, OnStream
<1>4. /\ up.stage = "none" => up = Silent /\ scan = Unseen
      /\ up.stage # "none" => /\ up \in Upstream /\ scan \in Scanner
                              /\ up.visible > 0 => up.out > 0
                              /\ ~Anthropic => scan.chars = up.visible
  BY <1>1 DEF IInv, Scanned
<1>5. /\ scan.reported /\ up.stage # "done" => Anthropic /\ scan.usage \in Openings
      /\ Anthropic /\ up.stage \in {"started", "done"} => scan.reported
      /\ ~scan.reported /\ up.visible > 0 => ~Anthropic /\ scan.any
      /\ up.stage = "done" => scan.reported /\ scan.usage = Spent(up.out)
  BY <1>1 DEF IInv, Reported
<1>6. Unseen \in Scanner /\ [Silent EXCEPT !.stage = "started"] \in Upstream
      /\ [Silent EXCEPT !.stage = "failed"] \in Upstream
  BY <1>3 DEF Unseen, Scanner, Silent, Upstream, NoUsage, Usage
<1>7. Scanned' <=> IF up'.stage = "none" THEN up' = Silent /\ scan' = Unseen
                   ELSE /\ up' \in Upstream /\ scan' \in Scanner
                        /\ up'.visible > 0 => up'.out > 0
                        /\ ~Anthropic => scan'.chars = up'.visible
  BY <1>1, <1>2 DEF Scanned
<1>8. Reported' <=> /\ scan'.reported /\ up'.stage # "done" => Anthropic /\ scan'.usage \in Openings
                    /\ Anthropic /\ up'.stage \in {"started", "done"} => scan'.reported
                    /\ ~scan'.reported /\ up'.visible > 0 => ~Anthropic /\ scan'.any
                    /\ up'.stage = "done" => scan'.reported /\ scan'.usage = Spent(up'.out)
  BY <1>1, <1>2 DEF Reported
<1>9. CASE Start
  <2>1. PICK model \in Answers, u \in Openings :
          scan' = IF Anthropic THEN MessageStart(scan, model, u) ELSE Event(scan, model, 0)
    BY <1>9 DEF Start
  <2>2. up = Silent /\ scan = Unseen /\ up' = [up EXCEPT !.stage = "started"]
    BY <1>4, <1>9 DEF Start
  <2>3. up' \in Upstream /\ up'.stage = "started" /\ up'.visible = 0
    BY <2>2, <1>6 DEF Silent
  <2>4. CASE Anthropic
    <3>1. scan' = [Unseen EXCEPT !.model = model, !.reported = TRUE, !.usage = u]
      BY <2>1, <2>2, <2>4 DEF MessageStart
    <3>2. u \in Usage
      BY <1>3
    <3>3. scan' \in Scanner /\ scan'.reported /\ scan'.usage = u
      BY <3>1, <3>2, <1>6 DEF Unseen, Scanner
    <3> QED
      BY <3>3, <2>3, <2>4, <1>7, <1>8
  <2>5. CASE ~Anthropic
    <3>1. scan' \in Scanner /\ ~scan'.reported /\ scan'.chars = 0
      <4>1. scan' = Event(Unseen, model, 0) /\ Unseen \in Scanner
        BY <2>1, <2>2, <2>5, <1>6
      <4>2. Unseen.chars = 0 /\ ~Unseen.reported
        BY DEF Unseen
      <4> QED
        BY <4>1, <4>2, EventScans
    <3> QED
      BY <3>1, <2>3, <2>5, <1>7, <1>8
  <2> QED
    BY <2>4, <2>5
<1>10. CASE Content
  <2>1. /\ up.stage = "started" /\ up \in Upstream /\ scan \in Scanner /\ up.out < call.cap
    BY <1>3, <1>4, <1>10 DEF Content
  <2>2. PICK chars \in CharsPerFrame :
          /\ up' = [up EXCEPT !.frames = @ + 1, !.out = @ + 1, !.visible = @ + chars]
          /\ scan' = IF Anthropic THEN scan ELSE Event(scan, NoModel, chars)
    BY <1>10 DEF Content
  <2>3. chars \in Nat
    BY UsageAssumption
  <2>4. /\ up' \in Upstream /\ up'.stage = "started" /\ up'.out > 0
        /\ up'.visible = up.visible + chars
    <3>1. /\ up.out \in Nat /\ up.out + 1 \in 0 .. call.cap /\ up.out + 1 > 0
          /\ up.frames + 1 \in Nat /\ up.visible + chars \in Nat
      BY <2>1, <2>3, <1>3 DEF Upstream
    <3> DEFINE o == up.out + 1
               f == up.frames + 1
               v == up.visible + chars
    <3>2. up' = [up EXCEPT !.frames = f, !.out = o, !.visible = v]
      BY <2>2
    <3>3. o \in 0 .. call.cap /\ o > 0 /\ f \in Nat /\ v \in Nat
      BY <3>1
    <3> HIDE DEF o, f, v
    <3>4. up' \in Upstream /\ up'.stage = "started" /\ up'.out = o /\ up'.visible = v
      BY <2>1, <3>2, <3>3 DEF Upstream
    <3> QED
      BY <3>3, <3>4 DEF v
  <2>5. CASE Anthropic
    BY <2>1, <2>2, <2>4, <2>5, <1>5, <1>7, <1>8
  <2>6. CASE ~Anthropic
    <3>1. /\ scan' \in Scanner /\ scan'.chars = scan.chars + chars /\ scan'.any
          /\ scan'.reported = scan.reported
      BY <2>1, <2>2, <2>3, <2>6, EventScans
    <3>2. ~scan.reported /\ scan.chars = up.visible
      BY <2>1, <2>6, <1>4, <1>5
    <3> QED
      BY <3>1, <3>2, <2>4, <2>6, <1>7, <1>8
  <2> QED
    BY <2>5, <2>6
<1>11. CASE Report
  <2>1. /\ up.stage = "started" /\ up \in Upstream /\ scan \in Scanner
        /\ up' = [up EXCEPT !.stage = "done"]
    BY <1>4, <1>11 DEF Report
  <2>2. /\ up' \in Upstream /\ up'.stage = "done" /\ up'.out = up.out /\ up'.visible = up.visible
        /\ up.out \in Nat
    BY <2>1, <1>3 DEF Upstream
  <2>3. Spent(up.out) = Work(call.prompt, up.out) /\ Spent(up.out) \in Usage
    BY <2>2, <1>3
  <2>4. CASE Anthropic
    <3>1. scan' = [scan EXCEPT !.usage = Spent(up.out)]
      BY <2>1, <2>4, <1>5, <1>11 DEF Report, MessageDelta
    <3>2. scan' \in Scanner /\ scan'.reported /\ scan'.usage = Spent(up.out)
      BY <3>1, <2>1, <2>3, <2>4, <1>5 DEF Scanner
    <3> QED
      BY <3>2, <2>2, <2>4, <1>4, <1>7, <1>8, <2>1
  <2>5. CASE ~Anthropic
    <3>1. call.asked /\ call.prompt.write1h = 0
      BY <2>5, <1>1 DEF IInv, Admitted, Anthropic
    <3>2. scan' = FinalUsage(scan, NoModel, Inclusive(Spent(up.out)))
      BY <3>1, <2>5, <1>11 DEF Report
    <3>3. mapOpenAIUsage(Inclusive(Spent(up.out))) = Spent(up.out)
      BY <3>1, <2>2, <2>3, <1>3, InclusiveIsExact
    <3>4. Event(scan, NoModel, 0) \in Scanner /\ Event(scan, NoModel, 0).chars = scan.chars
      BY <2>1, EventScans DEF Scanner
    <3>5. scan' = [Event(scan, NoModel, 0) EXCEPT !.reported = TRUE, !.usage = Spent(up.out)]
      BY <3>2, <3>3 DEF FinalUsage
    <3>6. /\ scan' \in Scanner /\ scan'.reported /\ scan'.usage = Spent(up.out)
          /\ scan'.chars = scan.chars
      BY <3>4, <3>5, <2>3 DEF Scanner
    <3> QED
      BY <3>6, <2>1, <2>2, <2>5, <1>4, <1>7, <1>8
  <2> QED
    BY <2>4, <2>5
<1>12. CASE ErrorFrame
  <2>1. /\ up.stage \in {"none", "started"} /\ up' = [up EXCEPT !.stage = "failed"]
        /\ scan' = [scan EXCEPT !.failed = TRUE, !.any = IF Anthropic THEN @ ELSE TRUE]
    BY <1>12 DEF ErrorFrame
  <2>2. scan \in Scanner
    BY <2>1, <1>4, <1>6
  <2>3. /\ scan' \in Scanner /\ scan'.reported = scan.reported /\ scan'.usage = scan.usage
        /\ scan'.chars = scan.chars /\ (scan.any \/ ~Anthropic => scan'.any)
    BY <2>1, <2>2 DEF Scanner
  <2>4. CASE up.stage = "none"
    <3>1. up' \in Upstream /\ up'.stage = "failed" /\ up'.visible = 0
      BY <2>1, <2>4, <1>4, <1>6 DEF Silent
    <3>2. ~scan.reported /\ scan.chars = 0
      BY <2>4, <1>4 DEF Unseen
    <3> QED
      BY <3>1, <3>2, <2>3, <1>7, <1>8
  <2>5. CASE up.stage = "started"
    <3>1. /\ up' \in Upstream /\ up'.stage = "failed" /\ up'.visible = up.visible
          /\ up'.out = up.out
      BY <2>1, <2>5, <1>4 DEF Upstream
    <3> QED
      BY <3>1, <2>3, <2>5, <1>4, <1>5, <1>7, <1>8
  <2> QED
    BY <2>1, <2>4, <2>5
<1> QED
  BY <1>9, <1>10, <1>11, <1>12

\* The clamp at the hold.
LEMMA ChargeClamped ==
  ASSUME NEW cost \in Nat, NEW hold \in Nat
  PROVE  /\ ChargeWithin(cost, hold) \in 0 .. hold
         /\ cost <= hold => ChargeWithin(cost, hold) = cost
BY DEF ChargeWithin, Lower, Higher

\* The estimate the OpenAI scanner falls back to.
Estimated == [InputOnly(call.input) EXCEPT !.output = Quotient(scan.chars, CHARS_PER_TOKEN)]

LEMMA EstimateIsUsage ==
  ASSUME call.input \in Nat, scan.chars \in Nat
  PROVE  /\ Estimated \in Usage /\ InputOnly(call.input) \in Usage
         /\ scan.chars > 0 => Estimated.output > 0
<1>1. \A n \in Nat : Quotient(n, CHARS_PER_TOKEN) \in Nat
                     /\ (n > 0 => Quotient(n, CHARS_PER_TOKEN) > 0)
  BY DEF Quotient, CHARS_PER_TOKEN
<1>2. InputOnly(call.input) \in Usage
  BY DEF InputOnly, Usage
<1> DEFINE o == Quotient(scan.chars, CHARS_PER_TOKEN)
<1>3. o \in Nat /\ (scan.chars > 0 => o > 0)
  BY <1>1
<1>4. Estimated = [InputOnly(call.input) EXCEPT !.output = o]
  BY DEF Estimated
<1> HIDE DEF o
<1>5. Estimated \in Usage /\ Estimated.output = o
  BY <1>2, <1>3, <1>4 DEF Usage
<1> QED
  BY <1>2, <1>3, <1>5

(* What decideStreamSettlement charges, by the evidence the scanner has:   *)
(* the report, else the estimate of visible text, and after a failure or   *)
(* a drain nothing without either.                                         *)
LEMMA StreamDecision ==
  ASSUME IInv, call # Idle, call.streaming, NEW cause \in Cause,
         NEW decision, decision = decideStreamSettlement(scan, cause)
  PROVE  /\ decision # Open /\ decision.charge \in 0 .. call.hold /\ decision.cause = cause
         /\ scan.reported =>
              /\ scan.usage \in Usage
              /\ decision.charge
                   = ChargeWithin(costOf(findRate(call.model), scan.usage), call.hold)
         /\ ~scan.reported /\ up.visible > 0 =>
              /\ Estimated \in Usage /\ Estimated.output > 0
              /\ decision.charge
                   = ChargeWithin(costOf(findRate(call.model), Estimated), call.hold)
         /\ /\ cause \in {"upstream_error", "upstream_timeout", "shutdown_drain"}
            /\ ~scan.reported /\ up.visible = 0
            => decision.charge = 0
<1> DEFINE rate == findRate(call.model)
           upstreamFailed == cause \in {"upstream_error", "upstream_timeout"} \/ scan.failed
           evidencedOnly == upstreamFailed \/ cause = "shutdown_drain"
           metered == result(scan, evidencedOnly)
           outcome == MeteredOutcome(cause, upstreamFailed)
<1>1. /\ rate \in Rate /\ call.hold \in Nat /\ call.input \in Nat
  BY OnStream
<1>2. /\ scan \in Scanner /\ up.visible \in Nat
      /\ ~Anthropic => scan.chars = up.visible
      /\ Anthropic /\ up.visible > 0 => scan.reported
      /\ ~scan.reported /\ up.visible > 0 => scan.any
  <2>1. CASE up.stage = "none"
    <3>1. scan = Unseen /\ up = Silent
      BY <2>1 DEF IInv, Scanned
    <3>2. Unseen \in Scanner
      BY DEF Unseen, Scanner, NoUsage, Usage
    <3> QED
      BY <3>1, <3>2 DEF Unseen, Silent
  <2>2. CASE up.stage # "none"
    <3>1. up \in Upstream /\ scan \in Scanner /\ (~Anthropic => scan.chars = up.visible)
      BY <2>2 DEF IInv, Scanned
    <3>2. ~scan.reported /\ up.visible > 0 => ~Anthropic /\ scan.any
      BY DEF IInv, Reported
    <3> QED
      BY <3>1, <3>2 DEF Upstream
  <2> QED
    BY <2>1, <2>2
<1>3. /\ scan.usage \in Usage /\ scan.chars \in Nat /\ scan.reported \in BOOLEAN
      /\ scan.model \in Answers \cup {NoModel}
  BY <1>2 DEF Scanner
<1>4. /\ Estimated \in Usage /\ InputOnly(call.input) \in Usage
      /\ scan.chars > 0 => Estimated.output > 0
  BY <1>1, <1>3, EstimateIsUsage
<1>5. call.model \in Answers
  BY DEF Answers
<1>6. \A u \in Usage : costOf(rate, u) \in Nat
  BY <1>1, CostIsNatural
<1>7. InputFloor = costOf(rate, InputOnly(call.input)) /\ InputFloor \in Nat
  BY <1>4, <1>5, <1>6, OneCard DEF InputFloor
<1>8. ASSUME NEW evidence, NEW u \in Usage,
             metered = Metered(scan, evidence, u), evidence # "none"
      PROVE  /\ decision.charge = ChargeWithin(costOf(rate, u), call.hold)
             /\ decision.cause = cause
             /\ decision # Open
  <2>1. metered.model \in Answers /\ metered.usage = u /\ metered.evidence = evidence
    BY <1>3, <1>5, <1>8 DEF Metered
  <2>2. metered # NoMeter
    BY <2>1, <1>8 DEF NoMeter
  <2>3. decision = Decide(outcome, priceUsage(metered.model, metered.usage, call.model),
                          metered.evidence, cause)
    BY <2>2 DEF decideStreamSettlement
  <2>4. priceUsage(metered.model, metered.usage, call.model) = costOf(rate, u)
    BY <2>1, OneCard
  <2>5. decision.evidence = evidence
    BY <2>1, <2>3 DEF Decide
  <2> HIDE DEF rate, metered, outcome
  <2> QED
    BY <2>3, <2>4, <2>5, <1>8 DEF Decide, Open
<1>9. ASSUME metered = NoMeter
      PROVE  /\ decision # Open /\ decision.cause = cause
             /\ \E cost \in {0, InputFloor} : decision.charge = ChargeWithin(cost, call.hold)
             /\ cause \in {"upstream_error", "upstream_timeout", "shutdown_drain"} =>
                  decision.charge = ChargeWithin(0, call.hold)
  <2>1. \/ decision = Decide("upstream_aborted", 0, "none", cause)
        \/ /\ cause \in {"client_cancel", "deadline"}
           /\ decision = Decide("partial", InputFloor, "none", cause)
        \/ decision = Decide("shutdown_aborted", 0, "none", cause)
        \/ /\ cause \notin {"client_cancel", "deadline"}
           /\ decision = Decide("unmetered_complete", 0, "none", cause)
    BY <1>9 DEF decideStreamSettlement
  <2> HIDE DEF metered
  <2> QED
    BY <2>1 DEF Decide, Open
<1>10. CASE scan.reported
  <2>1. metered = Metered(scan, "reported", scan.usage)
    BY <1>10 DEF result, anthropicResult, openaiResult
  <2>2. decision.charge = ChargeWithin(costOf(rate, scan.usage), call.hold)
        /\ decision.cause = cause /\ decision # Open
    BY <2>1, <1>3, <1>8
  <2>3. decision.charge \in 0 .. call.hold
    <3>1. costOf(rate, scan.usage) \in Nat
      BY <1>3, <1>6
    <3> HIDE DEF rate
    <3> QED
      BY <3>1, <2>2, <1>1, ChargeClamped
  <2> QED
    BY <2>2, <2>3, <1>3, <1>10
<1>11. CASE ~scan.reported /\ metered = NoMeter
  <2>1. up.visible = 0
    <3>1. ASSUME up.visible > 0
          PROVE  FALSE
      <4>1. ~Anthropic /\ scan.any /\ scan.chars > 0
        BY <1>2, <1>11, <3>1
      <4>2. metered = Metered(scan, "estimated", Estimated)
        BY <4>1, <1>11 DEF result, openaiResult, Estimated
      <4>3. metered.evidence = "estimated"
        BY <4>2 DEF Metered
      <4> QED
        BY <4>3, <1>11 DEF NoMeter
    <3> QED
      BY <3>1, <1>2
  <2>2. decision.charge \in 0 .. call.hold /\ ChargeWithin(0, call.hold) = 0
    <3>1. PICK cost \in {0, InputFloor} : decision.charge = ChargeWithin(cost, call.hold)
      BY <1>9, <1>11
    <3>2. cost \in Nat /\ 0 \in Nat
      BY <1>7
    <3>3. ChargeWithin(cost, call.hold) \in 0 .. call.hold /\ ChargeWithin(0, call.hold) = 0
      BY <3>2, <1>1, ChargeClamped
    <3> QED
      BY <3>1, <3>3
  <2> QED
    BY <2>1, <2>2, <1>9, <1>11
<1>12. CASE ~scan.reported /\ metered # NoMeter
  <2>1. ~Anthropic /\ scan.any /\ metered = Metered(scan, "estimated", Estimated)
        /\ ~(evidencedOnly /\ scan.chars = 0)
    BY <1>12 DEF result, anthropicResult, openaiResult, Estimated
  <2>2. decision.charge = ChargeWithin(costOf(rate, Estimated), call.hold)
        /\ decision.cause = cause /\ decision # Open
    BY <2>1, <1>4, <1>8
  <2>3. decision.charge \in 0 .. call.hold
    <3>1. costOf(rate, Estimated) \in Nat
      BY <1>4, <1>6
    <3> HIDE DEF rate
    <3> QED
      BY <3>1, <2>2, <1>1, ChargeClamped
  <2>4. cause \in {"upstream_error", "upstream_timeout", "shutdown_drain"} => evidencedOnly
    OBVIOUS
  <2> HIDE DEF metered, evidencedOnly
  <2> QED
    BY <2>1, <2>2, <2>3, <2>4, <1>2, <1>4, <1>12
<1> QED
  BY <1>10, <1>11, <1>12

\* Off-card billing is excluded by the gates: the invoice is the card's.
LEMMA InvoiceIsCard ==
  ASSUME IInv, call # Idle
  PROVE  Invoice = costOf(findRate(call.model), Spent(up.out))
<1> DEFINE cost == costOf(findRate(call.model), Spent(up.out))
<1>1. /\ OnCard(call.model, call.provider)
      /\ call.option \in {"plain", "own_tool", "one_hour"}
      /\ "context-1m" \notin call.betas
  BY DEF IInv, Admitted
<1>2. \/ call.model.suffix \in {"", "dated"}
      \/ <<call.model.base, call.model.suffix>> \in DOMAIN Rates
  BY <1>1 DEF OnCard
<1>3. Invoice = cost + 0
  BY <1>1, <1>2 DEF Invoice
<1>4. cost \in Int
  <2>1. up.out \in Nat
    BY DEF IInv, Scanned, Upstream, Silent
  <2> QED
    BY <2>1, OnStream, CostIsNatural
<1> HIDE DEF cost
<1>5. Invoice = cost
  BY <1>3, <1>4
<1> QED
  BY <1>5 DEF cost

(* A charge for work that was done in full is the invoice: the report is   *)
(* exact, the answer's name is priced by the same card, and the hold       *)
(* covers it.                                                              *)
LEMMA FullWorkIsCovered ==
  ASSUME IInv, call # Idle, ~call.short, NEW out \in 0 .. call.cap
  PROVE  ChargeWithin(costOf(findRate(call.model), Spent(out)), call.hold)
           = costOf(findRate(call.model), Spent(out))
<1>1. out \in Nat /\ call.hold \in Nat /\ findRate(call.model) \in Rate /\ Spent(out) \in Usage
  BY OnStream
<1>2. costOf(findRate(call.model), Spent(out)) \in Nat
  BY <1>1, CostIsNatural
<1>3. costOf(findRate(call.model), Spent(out)) <= call.hold
  BY DEF IInv, Covered
<1> QED
  BY <1>1, <1>2, <1>3, ChargeClamped

LEMMA SettleStreamExact ==
  ASSUME IInv, SettleStream
  PROVE  Settled' /\ HonestBillIsExact' /\ UnprovenFailureIsFree'
<1>1. /\ call # Idle /\ call.streaming
      /\ call' = call /\ up' = up /\ scan' = scan
  BY DEF SettleStream, Streaming
<1>2. PICK cause \in Cause : bill' = decideStreamSettlement(scan, cause)
  BY DEF SettleStream
<1>3. /\ bill' # Open /\ bill'.charge \in 0 .. call.hold /\ bill'.cause = cause
      /\ scan.reported =>
           bill'.charge = ChargeWithin(costOf(findRate(call.model), scan.usage), call.hold)
      /\ /\ cause \in {"upstream_error", "upstream_timeout", "shutdown_drain"}
         /\ ~scan.reported /\ up.visible = 0
         => bill'.charge = 0
  BY <1>1, <1>2, StreamDecision
<1>4. Settled'
  BY <1>1, <1>3 DEF Settled
<1>5. HonestBillIsExact'
  <2> SUFFICES ASSUME up.stage = "done", ~call.short
               PROVE  bill'.charge = Invoice'
    BY <1>1 DEF HonestBillIsExact
  <2>1. Invoice' = Invoice
    BY <1>1 DEF Invoice, Spent
  <2>2. scan.reported /\ scan.usage = Spent(up.out)
    BY <1>1 DEF IInv, Reported
  <2>3. up.out \in 0 .. call.cap
    BY <1>1 DEF IInv, Scanned, Upstream
  <2> QED
    BY <2>1, <2>2, <2>3, <1>1, <1>3, InvoiceIsCard, FullWorkIsCovered
<1>6. UnprovenFailureIsFree'
  BY <1>1, <1>3 DEF UnprovenFailureIsFree
<1> QED
  BY <1>4, <1>5, <1>6

LEMMA SettleBufferedExact ==
  ASSUME IInv, SettleBuffered
  PROVE  /\ Scanned' /\ Reported' /\ Settled' /\ HonestBillIsExact'
         /\ UnprovenFailureIsFree' /\ up'.visible = 0
<1>1. /\ call # Idle /\ ~call.streaming /\ bill = Open /\ call' = call /\ scan' = scan
  BY DEF SettleBuffered, Buffering
<1>2. PICK out \in 0 .. Ceiling(call), model \in Answers, parseable \in BOOLEAN :
        LET metered == extracted(model, Spent(out))
        IN /\ up' = [up EXCEPT !.stage = IF parseable THEN "done" ELSE "started",
                               !.out = out]
           /\ bill' = IF parseable
                      THEN Decide("served",
                                  priceUsage(metered.model, metered.usage, call.model),
                                  "reported", "complete")
                      ELSE Decide("unmetered_complete", 0, "none", "complete")
  BY Zenon DEF SettleBuffered
<1>3. up = Silent /\ scan = Unseen
  BY <1>1 DEF IInv, Scanned
<1>4. /\ call.cap \in Nat \ {0} /\ Ceiling(call) = call.cap /\ call.hold \in Nat
      /\ call.prompt \in Prompts /\ findRate(call.model) \in Rate
      /\ \A n \in Nat : Spent(n) = Work(call.prompt, n) /\ Spent(n) \in Usage
  BY <1>1, OnStream
<1>5. /\ out \in 0 .. call.cap /\ out \in Nat /\ up'.out = out
      /\ up'.stage = IF parseable THEN "done" ELSE "started"
      /\ up' \in Upstream /\ up'.visible = 0
  <2>1. out \in 0 .. call.cap /\ out \in Nat
    BY <1>4
  <2>2. up' = [stage |-> IF parseable THEN "done" ELSE "started", out |-> out, frames |-> 0,
               visible |-> 0]
    BY <1>2, <1>3 DEF Silent
  <2>3. (IF parseable THEN "done" ELSE "started") \in {"started", "done", "failed"}
    OBVIOUS
  <2> QED
    BY <2>1, <2>2, <2>3 DEF Upstream
<1> DEFINE metered == extracted(model, Spent(out))
<1>6. metered.model = model /\ metered.usage = Spent(out)
  <2>1. CASE call.path = "messages"
    BY <2>1 DEF extracted, extractUsage
  <2>2. CASE call.path # "messages"
    <3>1. call.prompt.write1h = 0
      BY <2>2, <1>1 DEF IInv, Admitted
    <3>2. mapOpenAIUsage(Inclusive(Spent(out))) = Spent(out)
      BY <3>1, <1>4, <1>5, InclusiveIsExact
    <3>3. metered = [model |-> model, usage |-> mapOpenAIUsage(Inclusive(Spent(out)))]
      BY <2>2 DEF extracted, extractOpenAIChatUsage, extractOpenAIResponsesUsage
    <3> HIDE DEF metered
    <3> QED
      BY <3>2, <3>3
  <2> QED
    BY <2>1, <2>2
<1> DEFINE cost == costOf(findRate(call.model), Spent(out))
<1>7. priceUsage(metered.model, metered.usage, call.model) = cost
  BY <1>6, OneCard
<1>8. cost \in Nat
  BY <1>4, <1>5, CostIsNatural
<1>9. /\ bill' # Open /\ bill'.cause = "complete"
      /\ bill'.charge = ChargeWithin(IF parseable THEN cost ELSE 0, call.hold)
  <2>1. bill' = IF parseable
                THEN Decide("served", cost, "reported", "complete")
                ELSE Decide("unmetered_complete", 0, "none", "complete")
    BY <1>2, <1>7
  <2> HIDE DEF cost
  <2> QED
    BY <2>1 DEF Decide, Open
<1>10. Settled'
  BY <1>1, <1>4, <1>8, <1>9, ChargeClamped DEF Settled
<1>11. HonestBillIsExact'
  <2> SUFFICES ASSUME parseable, ~call.short
               PROVE  bill'.charge = Invoice'
    BY <1>1, <1>5 DEF HonestBillIsExact
  <2>1. bill'.charge = cost
    BY <1>1, <1>5, <1>9, FullWorkIsCovered
  <2>2. Invoice' = cost
    <3>1. /\ OnCard(call.model, call.provider)
          /\ call.option \in {"plain", "own_tool", "one_hour"}
          /\ "context-1m" \notin call.betas
      BY <1>1 DEF IInv, Admitted
    <3>2. \/ call.model.suffix \in {"", "dated"}
          \/ <<call.model.base, call.model.suffix>> \in DOMAIN Rates
      BY <3>1 DEF OnCard
    <3>3. Spent(up.out)' = Spent(out)
      BY <1>1, <1>5 DEF Spent
    <3>4. Invoice' = cost + 0
      BY <1>1, <3>1, <3>2, <3>3 DEF Invoice
    <3> HIDE DEF cost
    <3> QED
      BY <3>4, <1>8
  <2> QED
    BY <2>1, <2>2
<1>12. Scanned' /\ Reported' /\ UnprovenFailureIsFree'
  <2>1. Unseen \in Scanner /\ Scanner' = Scanner /\ Upstream' = Upstream /\ Anthropic' = Anthropic
    BY <1>1 DEF Unseen, Scanner, NoUsage, Usage, Answers, Upstream, Anthropic
  <2>2. Scanned'
    BY <2>1, <1>1, <1>3, <1>5, <1>9 DEF Scanned, Unseen
  <2> QED
    BY <2>2, <1>1, <1>9 DEF Reported, UnprovenFailureIsFree
<1> QED
  BY <1>5, <1>10, <1>11, <1>12

LEMMA BufferedFailsExact ==
  ASSUME IInv, BufferedFails
  PROVE  /\ Scanned' /\ Reported' /\ Settled' /\ HonestBillIsExact'
         /\ UnprovenFailureIsFree' /\ up'.visible = 0
<1>1. /\ call # Idle /\ ~call.streaming /\ bill = Open
      /\ call' = call /\ up' = up /\ scan' = scan
  BY DEF BufferedFails, Buffering
<1>2. up = Silent /\ scan = Unseen
  BY <1>1 DEF IInv, Scanned
<1>3. InputFloor \in Nat /\ call.hold \in Nat
  <2>1. InputFloor = costOf(findRate(call.model), InputOnly(call.input))
    <3>1. call.model \in Answers
      BY DEF Answers
    <3> QED
      BY <3>1, OneCard DEF InputFloor
  <2>2. call.input \in Nat /\ call.hold \in Nat /\ findRate(call.model) \in Rate
    BY <1>1, OnStream
  <2>3. InputOnly(call.input) \in Usage
    BY <2>2 DEF InputOnly, Usage
  <2> QED
    BY <2>1, <2>2, <2>3, CostIsNatural
<1>4. \/ bill' = Decide("input_floor", InputFloor, "none", "upstream_error")
      \/ bill' = Decide("refunded", 0, "none", "upstream_error")
  BY DEF BufferedFails
<1>5. /\ bill' # Open /\ bill'.charge \in 0 .. call.hold
      /\ bill'.outcome # "input_floor" => bill'.charge = 0
  <2>1. /\ ChargeWithin(InputFloor, call.hold) \in 0 .. call.hold
        /\ ChargeWithin(0, call.hold) = 0 /\ 0 \in 0 .. call.hold
    BY <1>3, ChargeClamped
  <2>2. /\ bill'.outcome \in {"input_floor", "refunded"}
        /\ bill'.charge = ChargeWithin(IF bill'.outcome = "input_floor" THEN InputFloor ELSE 0,
                                        call.hold)
    BY <1>4 DEF Decide
  <2> QED
    BY <2>1, <2>2 DEF Open
<1>6. Scanned' /\ Reported' /\ Settled'
  BY <1>1, <1>2, <1>5 DEF Scanned, Reported, Settled, Silent
<1>7. HonestBillIsExact' /\ UnprovenFailureIsFree'
  BY <1>1, <1>2, <1>5 DEF HonestBillIsExact, UnprovenFailureIsFree, Silent
<1> QED
  BY <1>1, <1>2, <1>6, <1>7 DEF Silent

(* A stream's charge against the text it has shown: reported in full, the  *)
(* invoice has at least as much output; in the middle of an Anthropic      *)
(* stream it is the reported prompt; and without a report it is the text   *)
(* itself.                                                                 *)
LEMMA SettleStreamBills ==
  ASSUME IInv, SettleStream
  PROVE  VisibleWorkIsBilled'
<1>1. /\ call # Idle /\ call.streaming
      /\ call' = call /\ up' = up /\ scan' = scan
  BY DEF SettleStream, Streaming
<1>2. PICK cause \in Cause : bill' = decideStreamSettlement(scan, cause)
  BY DEF SettleStream
<1> DEFINE rate == findRate(call.model)
           seen == Lower(up.out, Quotient(up.visible, CHARS_PER_TOKEN))
<1>3. /\ scan.reported =>
           /\ scan.usage \in Usage
           /\ bill'.charge = ChargeWithin(costOf(rate, scan.usage), call.hold)
      /\ ~scan.reported /\ up.visible > 0 =>
           /\ Estimated \in Usage
           /\ bill'.charge = ChargeWithin(costOf(rate, Estimated), call.hold)
  BY <1>1, <1>2, StreamDecision
<1> SUFFICES ASSUME up.visible > 0
             PROVE  IF Anthropic
                    THEN \E u \in Openings :
                           ChargeWithin(costOf(rate, u), call.hold) <= bill'.charge
                    ELSE costOf(rate, OutputOnly(seen)) <= bill'.charge
  BY <1>1 DEF VisibleWorkIsBilled, TokensSeen, Anthropic, Openings, Spent
<1>4. /\ rate \in Rate /\ call.hold \in Nat /\ call.cap \in Nat /\ call.prompt \in Prompts
      /\ \A n \in Nat : Spent(n) = Work(call.prompt, n) /\ Spent(n) \in Usage
      /\ Openings \subseteq Usage
  BY <1>1, OnStream
<1>5. /\ up \in Upstream /\ scan \in Scanner
      /\ ~Anthropic => scan.chars = up.visible
  BY <1>1 DEF IInv, Scanned, Silent
<1>6. /\ up.out \in 0 .. call.cap /\ up.visible \in Nat
      /\ seen \in Nat /\ seen <= up.out /\ seen <= Quotient(up.visible, CHARS_PER_TOKEN)
  <2>1. up.out \in 0 .. call.cap /\ up.visible \in Nat
    BY <1>5 DEF Upstream
  <2>2. Quotient(up.visible, CHARS_PER_TOKEN) \in Nat
    BY <2>1 DEF Quotient, CHARS_PER_TOKEN
  <2> QED
    BY <2>1, <2>2, <1>4 DEF Lower
<1>7. \A u \in Usage : costOf(rate, u) \in Nat
  BY <1>4, CostIsNatural
<1>8. costOf(rate, OutputOnly(seen)) <= call.hold
  <2>1. seen \in 0 .. call.cap
    BY <1>4, <1>6
  <2> HIDE DEF seen
  <2> QED
    BY <2>1, <1>1 DEF IInv, Covered
<1> HIDE DEF rate, seen
\* A bill for at least the tokens seen is at least their price.
<1>9. ASSUME NEW u \in Usage, seen <= u.output,
             bill'.charge = ChargeWithin(costOf(rate, u), call.hold)
      PROVE  costOf(rate, OutputOnly(seen)) <= bill'.charge
  <2>1. /\ OutputOnly(seen) \in Usage
        /\ costOf(rate, OutputOnly(seen)) <= costOf(rate, u)
    BY <1>4, <1>6, <1>9, OutputIsBilled
  <2> QED
    BY <2>1, <1>4, <1>7, <1>8, <1>9, ChargeMonotone
<1>10. CASE Anthropic /\ up.stage # "done"
  <2>1. scan.reported
    BY <1>1, <1>10 DEF IInv, Reported
  <2>2. scan.usage \in Openings
    BY <2>1, <1>1, <1>10 DEF IInv, Reported
  <2>3. bill'.charge = ChargeWithin(costOf(rate, scan.usage), call.hold)
    BY <2>1, <1>3
  <2>4. costOf(rate, scan.usage) \in Nat
    BY <2>2, <1>4, <1>7
  <2>5. ChargeWithin(costOf(rate, scan.usage), call.hold) <= bill'.charge
    BY <2>3, <2>4, <1>4, ChargeMonotone
  <2> QED
    BY <2>2, <2>5, <1>10
<1>11. CASE Anthropic /\ up.stage = "done"
  <2>1. scan.reported /\ scan.usage = Spent(up.out)
    BY <1>1, <1>11 DEF IInv, Reported
  <2>2. Spent(0) \in Openings
    BY DEF Openings
  <2>3. costOf(rate, Spent(0)) <= costOf(rate, Spent(up.out))
    BY <1>4, <1>6, WorkGrows
  <2>4. costOf(rate, Spent(0)) \in Nat /\ costOf(rate, Spent(up.out)) \in Nat
    BY <1>4, <1>6, <1>7
  <2>5. ChargeWithin(costOf(rate, Spent(0)), call.hold) <= bill'.charge
    BY <2>1, <2>3, <2>4, <1>3, <1>4, ChargeMonotone
  <2> QED
    BY <2>2, <2>5, <1>11
<1>12. CASE ~Anthropic /\ scan.reported
  <2>1. up.stage = "done" /\ scan.usage = Spent(up.out)
    BY <1>1, <1>12 DEF IInv, Reported
  <2>2. seen <= scan.usage.output
    BY <2>1, <1>6 DEF Spent
  <2> QED
    BY <2>2, <1>3, <1>9, <1>12
<1>13. CASE ~Anthropic /\ ~scan.reported
  <2>1. Estimated.output = Quotient(up.visible, CHARS_PER_TOKEN)
    BY <1>5, <1>13 DEF Estimated, InputOnly
  <2> QED
    BY <2>1, <1>3, <1>6, <1>9, <1>13
<1> QED
  BY <1>10, <1>11, <1>12, <1>13

LEMMA UsageInit ==
  ASSUME Init
  PROVE  IInv /\ HonestBillIsExact /\ UnprovenFailureIsFree /\ VisibleWorkIsBilled
<1>1. call = Idle /\ up = Silent /\ scan = Unseen /\ bill = Open
  BY DEF Init
<1> QED
  BY <1>1 DEF IInv, Admitted, Covered, Scanned, Reported, Settled, HonestBillIsExact,
              UnprovenFailureIsFree, VisibleWorkIsBilled, Silent, Open

\* A step that leaves the request and its open bill alone keeps what the
\* invariant says of them.
LEMMA RequestKeeps ==
  ASSUME IInv, call' = call
  PROVE  Admitted' /\ Covered'
<1>1. \A n : Spent(n)' = Spent(n)
  BY DEF Spent
<1> QED
  BY <1>1 DEF IInv, Admitted, Covered

LEMMA UsageNext ==
  ASSUME IInv, HonestBillIsExact, UnprovenFailureIsFree, [Next]_vars
  PROVE  IInv' /\ HonestBillIsExact' /\ UnprovenFailureIsFree'
<1>1. CASE Admit
  <2>1. Admitted' /\ Covered' /\ call' # Idle /\ call = Idle
    BY <1>1, AdmitEstablishes
  <2>2. up' = up /\ scan' = scan /\ bill' = bill /\ up = Silent /\ scan = Unseen
    BY <1>1, <2>1 DEF Admit, IInv, Scanned
  <2>3. bill = Open
    BY <2>1 DEF IInv, Settled
  <2>4. Scanned' /\ Reported' /\ Settled'
    BY <2>2, <2>3 DEF Scanned, Reported, Settled, Silent, Unseen
  <2>5. HonestBillIsExact' /\ UnprovenFailureIsFree'
    BY <2>2, <2>3 DEF HonestBillIsExact, UnprovenFailureIsFree, Open
  <2> QED
    BY <2>1, <2>4, <2>5 DEF IInv
<1>2. CASE Start \/ Content \/ Report \/ ErrorFrame
  <2>1. call' = call /\ bill' = bill /\ bill = Open
    BY <1>2 DEF Start, Content, Report, ErrorFrame, Streaming
  <2>2. Scanned' /\ Reported' /\ Admitted' /\ Covered'
    BY <1>2, <2>1, FrameKeeps, RequestKeeps
  <2>3. Settled' /\ HonestBillIsExact' /\ UnprovenFailureIsFree'
    BY <2>1 DEF Settled, HonestBillIsExact, UnprovenFailureIsFree, Open
  <2> QED
    BY <2>2, <2>3 DEF IInv
<1>3. CASE SettleStream
  <2>1. call' = call /\ up' = up /\ scan' = scan /\ call # Idle /\ call.streaming
    BY <1>3 DEF SettleStream, Streaming
  <2>2. Scanned' /\ Reported'
    <3>1. /\ Answers' = Answers /\ Openings' = Openings /\ Anthropic' = Anthropic
          /\ \A n : Spent(n)' = Spent(n)
      BY <2>1 DEF Answers, Openings, Anthropic, Spent
    <3>2. Scanner' = Scanner /\ Upstream' = Upstream
      BY <2>1, <3>1 DEF Scanner, Upstream
    <3> QED
      BY <2>1, <3>1, <3>2 DEF IInv, Scanned, Reported
  <2> QED
    BY <1>3, <2>1, <2>2, SettleStreamExact, RequestKeeps DEF IInv
<1>4. CASE SettleBuffered
  <2>1. call' = call
    BY <1>4 DEF SettleBuffered
  <2> QED
    BY <1>4, <2>1, SettleBufferedExact, RequestKeeps DEF IInv
<1>5. CASE BufferedFails
  <2>1. call' = call
    BY <1>5 DEF BufferedFails
  <2> QED
    BY <1>5, <2>1, BufferedFailsExact, RequestKeeps DEF IInv
<1>6. CASE UNCHANGED vars
  <2>1. call' = call /\ up' = up /\ scan' = scan /\ bill' = bill
    BY <1>6 DEF vars
  <2>2. /\ Answers' = Answers /\ Openings' = Openings /\ Anthropic' = Anthropic
        /\ \A n : Spent(n)' = Spent(n)
    BY <2>1 DEF Answers, Openings, Anthropic, Spent
  <2>3. Scanner' = Scanner /\ Upstream' = Upstream /\ Invoice' = Invoice
    BY <2>1, <2>2 DEF Scanner, Upstream, Invoice
  <2>4. Scanned' /\ Reported' /\ Settled'
    BY <2>1, <2>2, <2>3 DEF IInv, Scanned, Reported, Settled
  <2>5. HonestBillIsExact' /\ UnprovenFailureIsFree'
    BY <2>1, <2>3 DEF HonestBillIsExact, UnprovenFailureIsFree
  <2> QED
    BY <2>1, <2>4, <2>5, RequestKeeps DEF IInv
<1> QED
  BY <1>1, <1>2, <1>3, <1>4, <1>5, <1>6 DEF Next

LEMMA VisibleNext ==
  ASSUME IInv, bill # Open => VisibleWorkIsBilled, [Next]_vars
  PROVE  (bill # Open => VisibleWorkIsBilled)'
<1>1. CASE Admit \/ Start \/ Content \/ Report \/ ErrorFrame
  <2>1. bill' = bill /\ bill = Open
    BY <1>1 DEF Admit, Start, Content, Report, ErrorFrame, Streaming, IInv, Settled
  <2> QED
    BY <2>1
<1>2. CASE SettleStream
  BY <1>2, SettleStreamBills
<1>3. CASE SettleBuffered
  BY <1>3, SettleBufferedExact DEF VisibleWorkIsBilled
<1>4. CASE BufferedFails
  BY <1>4, BufferedFailsExact DEF VisibleWorkIsBilled
<1>5. CASE UNCHANGED vars
  <2>1. call' = call /\ up' = up /\ bill' = bill
    BY <1>5 DEF vars
  <2> QED
    BY <2>1 DEF VisibleWorkIsBilled, Anthropic, Openings, Spent, TokensSeen, OutputOnly
<1> QED
  BY <1>1, <1>2, <1>3, <1>4, <1>5 DEF Next

-----------------------------------------------------------------------------
(* Theorems about every metered request.                                   *)

(* The scanner never goes beyond what was admitted and done: what a request *)
(* was let through with, what its stream has reported, and a hold that     *)
(* covers its work (handler.ts, hold.ts, cost/usage).                      *)
THEOREM UsageInvariant == Spec => [](IInv /\ HonestBillIsExact /\ UnprovenFailureIsFree)
<1>1. Init => IInv /\ HonestBillIsExact /\ UnprovenFailureIsFree
  BY UsageInit
<1>2. IInv /\ HonestBillIsExact /\ UnprovenFailureIsFree /\ [Next]_vars
        => (IInv /\ HonestBillIsExact /\ UnprovenFailureIsFree)'
  BY UsageNext
<1> QED
  BY <1>1, <1>2, PTL DEF Spec

(* Holds, counts and charges are naturals, and no charge exceeds its hold. *)
THEOREM UsageTypeOK == Spec => []TypeOK
<1>1. IInv => TypeOK
  <2> SUFFICES ASSUME IInv
               PROVE  TypeOK
    OBVIOUS
  <2>1. call = Idle \/ (call.hold \in Nat /\ call.input \in Nat /\ call.cap \in Nat)
    BY OnStream
  <2>2. scan.usage \in Usage /\ up.out \in Nat
    <3>1. CASE call = Idle \/ up.stage = "none"
      BY <3>1 DEF IInv, Scanned, Silent, Unseen, NoUsage, Usage
    <3>2. CASE call # Idle /\ up.stage # "none"
      BY <3>2, OnStream DEF IInv, Scanned, Scanner, Upstream
    <3> QED
      BY <3>1, <3>2
  <2>3. bill.charge \in Nat /\ (bill # Open => bill.charge <= call.hold)
    <3>1. CASE bill = Open
      BY <3>1 DEF Open
    <3>2. CASE bill # Open
      BY <3>2, OnStream DEF IInv, Settled
    <3> QED
      BY <3>1, <3>2
  <2> QED
    BY <2>1, <2>2, <2>3 DEF TypeOK
<1> QED
  BY <1>1, UsageInvariant, PTL

(* Work done in full is charged exactly the provider's invoice, for every  *)
(* table of rates, prompt, cap, byte bound and count that is not short by  *)
(* more than the pad (pricing.ts:1-10, hold.ts:1-3).                       *)
THEOREM UsageHonestBill == Spec => []HonestBillIsExact
BY UsageInvariant, PTL

(* A failure or a drain charges nothing that neither a report nor visible  *)
(* text supports, whatever the rates (types.ts:10-14).                     *)
THEOREM UsageUnprovenIsFree == Spec => []UnprovenFailureIsFree
BY UsageInvariant, PTL

(* BilledOnEvidence: however a request ends, for any table of rates, text  *)
(* the client could read is charged at least what it is worth by what the  *)
(* scanner knows (handler.ts:233-236), and a failure or a drain nothing    *)
(* without evidence.                                                       *)
THEOREM UsageBilledOnEvidence == Spec => []BilledOnEvidence
<1> DEFINE Visible == bill # Open => VisibleWorkIsBilled
<1>1. Init => Visible
  BY UsageInit
<1>2. IInv /\ Visible /\ [Next]_vars => Visible'
  BY VisibleNext
<1>3. UnprovenFailureIsFree /\ Visible => BilledOnEvidence
  BY DEF BilledOnEvidence
<1> QED
  BY <1>1, <1>2, <1>3, UsageInvariant, PTL DEF Spec
=============================================================================
