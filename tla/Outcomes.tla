------------------------------ MODULE Outcomes ------------------------------
(***************************************************************************)
(* How every metered request ends and where it is counted: the gates of    *)
(* handleMetered in core/src/handler.ts in their order, the forward, the   *)
(* classification of what the upstream answers, the settlement through     *)
(* billActual, and the counters of core/src/metrics.ts with the windows    *)
(* proxy.ts flushes to the journal.                                        *)
(*                                                                         *)
(* Every await is a step boundary, so requests, balance reads, flushes and *)
(* the shutdown interleave there.  How a stream comes to its one decision  *)
(* is StreamSettlement's; here it ends with any of them.  A ledger call is *)
(* confirmed or rejected.  Labels of counters are those of the journal.    *)
(* Init, Next and what belongs to them carry the prefix Outcome, because   *)
(* SettlementProofs extends this module beside Settlement.                 *)
(***************************************************************************)
EXTENDS Integers, FiniteSets, Functions

CONSTANTS
  Requests,      \* requests on the metered paths
  Tokens,        \* tokens of the balance store
  FlawSets,      \* what may be wrong with a request
  TokenOf,       \* [Requests -> the token each one carries]
  Openings,      \* balances to start with: [Tokens -> balance, or Unknown]
  HoldMicros,    \* what estimateHold reserves
  InputFloor,    \* the price of the accepted input
  Costs,         \* what reported usage may price at
  Replies,       \* [status, tag] of the non-2xx answers of the upstream
  MaxRejects,    \* bound on rejected ledger calls
  MaxBackground  \* bound on free reads and periodic flushes, together

Unknown == -1
NoCharge == -1

\* In the order the handler looks for them.
Flaw == {"content_length", "no_token", "json", "model", "premium", "max_tokens"}

ASSUME OutcomesAssumption ==
  /\ IsFiniteSet(Requests)
  /\ FlawSets \subseteq SUBSET Flaw
  /\ TokenOf \in [Requests -> Tokens]
  /\ Openings \subseteq [Tokens -> Nat \cup {Unknown}]
  /\ {HoldMicros, InputFloor, MaxRejects, MaxBackground} \subseteq Nat
  /\ Costs \subseteq Nat
  /\ Replies \subseteq [status : (100 .. 599) \ (200 .. 299),
                      tag : {"", "auth", "billing", "model"}]

VARIABLES
  req,      \* request -> the variables its handler closes over
  balance,  \* the accounts, as the ledger answers
  window,   \* the counters of metrics.ts
  journal,  \* level -> the sums of the [metrics] lines at it
  process,  \* stage of the process
  bounds    \* rejected calls, and reads and flushes, so far

outcomeVars == <<req, balance, window, journal, process, bounds>>

-----------------------------------------------------------------------------
(* Counters *)

UpstreamKind ==
  {"upstream:throttle", "upstream:5xx", "upstream:auth", "upstream:billing",
   "upstream:timeout", "upstream:unreachable", "upstream:4xx", "upstream:notfound",
   "upstream:other"}
GateKind == {"gate:auth", "gate:request", "gate:model", "gate:premium", "gate:funds"}
BalanceKind == {"balance:ok", "balance:unknown", "balance:throttled", "balance:error"}
\* Details of a failure, beside its terminal counter ("billed" stands for
\* the reported and the estimated partial).
FailureKind ==
  {"failure:stream-timeout", "failure:stream-billed", "failure:stream-refunded",
   "failure:http-input-floor"}

\* Where a forwarded request may land.
Terminal == {"served", "stream:partial", "stream:aborted", "bill:refunded"} \cup UpstreamKind

Counter ==
  Terminal \cup GateKind \cup BalanceKind \cup FailureKind
    \cup {"req", "bill:holdexceeded", "reject:read"}

\* What turns a line into a warning.
Problem ==
  {"bill:refunded", "bill:holdexceeded", "reject:read", "balance:error"}
    \cup (UpstreamKind \ {"upstream:4xx", "upstream:notfound"})

Zero == [c \in Counter |-> 0]
Counting(cs) == [c \in Counter |-> window[c] + (IF c \in cs THEN 1 ELSE 0)]

\* Mutant: a window that forwarded nothing prints nothing.
formatMetricsLineOfTraffic(m) ==
  [level |-> IF \E c \in Problem : m[c] > 0 THEN "warn" ELSE "info",
   line |-> IF m["req"] = 0 THEN Zero ELSE m]

\* The line prints every counter that is not zero, except that "served" is
\* part of the heartbeat of a window that forwarded something.
formatMetricsLine(m) ==
  [level |-> IF \E c \in Problem : m[c] > 0 THEN "warn" ELSE "info",
   line |-> [m EXCEPT !["served"] = IF m["req"] > 0 THEN @ ELSE 0]]

-----------------------------------------------------------------------------
(* What the upstream's refusal says, and what the client is told of it *)

\* Mutant: only a structured tag says whose credential was refused.
isOperatorAuthErrorByTag(reply) == reply.tag = "auth"

isOperatorAuthError(reply) == reply.status \in {401, 403, 407} \/ reply.tag = "auth"
isBillingError(reply) == reply.tag = "billing"
isModelNotFound(reply) == reply.status = 404 \/ reply.tag = "model"

StatusKind(status) ==
  CASE status = 429 -> "upstream:throttle"
    [] status >= 500 -> "upstream:5xx"
    [] status \in {400, 413, 422} -> "upstream:4xx"
    [] OTHER -> "upstream:other"

\* Mutant: only the status tells a refused account, not the text.
relayOrSanitizeByStatus(reply) ==
  IF isOperatorAuthError(reply) THEN [count |-> "upstream:auth", status |-> 503]
  ELSE IF reply.status = 402 THEN [count |-> "upstream:billing", status |-> 503]
  ELSE [count |-> IF isModelNotFound(reply) THEN "upstream:notfound"
                  ELSE StatusKind(reply.status),
        status |-> reply.status]

relayOrSanitizeUpstream(reply) ==
  IF isOperatorAuthError(reply) THEN [count |-> "upstream:auth", status |-> 503]
  ELSE IF isBillingError(reply) \/ reply.status = 402
       THEN [count |-> "upstream:billing", status |-> 503]
  ELSE [count |-> IF isModelNotFound(reply) THEN "upstream:notfound"
                  ELSE StatusKind(reply.status),
        status |-> reply.status]

-----------------------------------------------------------------------------
(* One request *)

Stages ==
  {"arrived", "known", "parsed", "funded", "refused",      \* the gates
   "forwarded", "reading", "open", "billing", "retry",     \* the hold is open
   "ended", "thrown", "unsettled", "conflict"}             \* it is over

\* Where a forwarded request ends, once it is billed: its counters and the
\* status of the answer.
Ending == [count : Terminal, status : Nat, details : SUBSET FailureKind]
NoEnding == [count |-> "none"]
Ends(count, status, details) == [count |-> count, status |-> status, details |-> details]

NoReply == [status |-> 0, tag |-> ""]
BodylessOk == [status |-> 200, tag |-> ""]   \* a 2xx stream without a body

Request ==
  [stage : Stages,
   flaws : FlawSets \cup {{}},
   streaming : BOOLEAN,
   reply : Replies \cup {NoReply, BodylessOk},  \* a non-2xx answer; kept as history
   actual : Nat,                                \* what billActual is asked to bill
   ending : Ending \cup {NoEnding},
   charge : Nat \cup {NoCharge},                \* completedCharge
   sent : SUBSET Nat,                           \* history: charges sent to the ledger
   answer : Nat]                                \* status the client gets

Arrived ==
  [stage |-> "arrived", flaws |-> {}, streaming |-> FALSE, reply |-> NoReply, actual |-> 0,
   ending |-> NoEnding, charge |-> NoCharge, sent |-> {}, answer |-> 0]

OutcomeInit ==
  /\ req = [r \in Requests |-> Arrived]
  /\ balance \in Openings
  /\ window = Zero
  /\ journal = [level \in {"info", "warn", "silent"} |-> Zero]
  /\ process = "serving"
  /\ bounds = [rejects |-> 0, background |-> 0]

Alive == process # "exited"
At(r, stage) == Alive /\ req[r].stage = stage
Become(r, q) == req' = [req EXCEPT ![r] = q]
Count(cs) == window' = Counting(cs)
Bump(bound) == bounds' = [bounds EXCEPT ![bound] = @ + 1]

\* Mutant: the bill is taken as it is.
ClampNothing(actual) == actual
Clamp(actual) == IF actual < HoldMicros THEN actual ELSE HoldMicros

\* billActual: an overrun is counted at every call, and the charge sent
\* unless one is already definite.
Bill(r, q, actual, ending) ==
  /\ Become(r, [q EXCEPT !.stage = "billing", !.actual = actual, !.ending = ending,
                         !.sent = IF q.charge = NoCharge THEN @ \cup {Clamp(actual)} ELSE @])
  /\ Count(IF actual > HoldMicros THEN {"bill:holdexceeded"} ELSE {})

\* What is left of a request when its handler is over.
Gone(stage, answer, charge, sent) ==
  [Arrived EXCEPT !.stage = stage, !.answer = answer, !.charge = charge, !.sent = sent]

\* The request is counted and answered.
Over(r, q) ==
  /\ Become(r, [Gone("ended", q.ending.status, q.charge, q.sent) EXCEPT !.reply = q.reply])
  /\ Count({q.ending.count} \cup q.ending.details)

Deny(r, gate, status) ==
  /\ Become(r, Gone("ended", status, NoCharge, {}))
  /\ Count({gate})

-----------------------------------------------------------------------------
(* The gates *)

LedgerRejects == bounds.rejects < MaxRejects

\* A read or an openHold rejects: the handler throws, and Bun answers 500.
Throws(r) ==
  /\ \E stage \in {"known", "parsed", "funded", "refused"} : At(r, stage)
  /\ LedgerRejects
  /\ Become(r, Gone("thrown", 500, NoCharge, {}))
  /\ Bump("rejects")
  /\ UNCHANGED <<balance, window, journal, process>>

\* Content-Length and the token, before anything is awaited.
Headers(r) ==
  /\ At(r, "arrived")
  /\ process = "serving"
  /\ \E flaws \in FlawSets :
       IF "content_length" \in flaws THEN Deny(r, "gate:request", 413)
       ELSE IF "no_token" \in flaws THEN Deny(r, "gate:auth", 401)
       ELSE /\ Become(r, [req[r] EXCEPT !.stage = "known", !.flaws = flaws])
            /\ UNCHANGED window
  /\ UNCHANGED <<balance, journal, process, bounds>>

\* The first balance read sheds unknown tokens before the body is read.
Known(r) ==
  /\ At(r, "known")
  /\ IF balance[TokenOf[r]] = Unknown THEN Deny(r, "gate:auth", 401)
     ELSE Become(r, [req[r] EXCEPT !.stage = "parsed"]) /\ UNCHANGED window
  /\ UNCHANGED <<balance, journal, process, bounds>>

\* The body: parsed, its model resolved, priced features only, a cap; then
\* the second balance read, which the code starts here.
Body(r) ==
  /\ At(r, "parsed")
  /\ IF "json" \in req[r].flaws THEN Deny(r, "gate:request", 400)
     ELSE IF "model" \in req[r].flaws THEN Deny(r, "gate:model", 400)
     ELSE IF "premium" \in req[r].flaws THEN Deny(r, "gate:premium", 400)
     ELSE IF "max_tokens" \in req[r].flaws THEN Deny(r, "gate:request", 400)
     ELSE IF balance[TokenOf[r]] = Unknown THEN Deny(r, "gate:auth", 401)
     ELSE IF balance[TokenOf[r]] = 0 THEN Deny(r, "gate:funds", 402)
     ELSE /\ \E streaming \in BOOLEAN :
               Become(r, [req[r] EXCEPT !.stage = "funded", !.streaming = streaming])
          /\ UNCHANGED window
  /\ UNCHANGED <<balance, journal, process, bounds>>

\* openHold, after the estimate was awaited: the debit and the forward, or
\* the refusal.
OpenHold(r) ==
  /\ At(r, "funded")
  /\ IF balance[TokenOf[r]] # Unknown /\ balance[TokenOf[r]] >= HoldMicros
     THEN /\ balance' = [balance EXCEPT ![TokenOf[r]] = @ - HoldMicros]
          /\ Become(r, [req[r] EXCEPT !.stage = "forwarded"])
          /\ Count({"req"})
     ELSE /\ Become(r, [req[r] EXCEPT !.stage = "refused"])
          /\ UNCHANGED <<balance, window>>
  /\ UNCHANGED <<journal, process, bounds>>

\* Mutant: both refusals are counted at the gate of the token.
RefusedMiscounted(r) ==
  /\ At(r, "refused")
  /\ IF balance[TokenOf[r]] = Unknown THEN Deny(r, "gate:auth", 401)
     ELSE Deny(r, "gate:auth", 402)
  /\ UNCHANGED <<balance, journal, process, bounds>>

\* Why it was refused: the token is gone, or its balance too low.
Refused(r) ==
  /\ At(r, "refused")
  /\ IF balance[TokenOf[r]] = Unknown THEN Deny(r, "gate:auth", 401)
     ELSE Deny(r, "gate:funds", 402)
  /\ UNCHANGED <<balance, journal, process, bounds>>

\* An account without open holds is removed by hand (no code does it, but
\* the handler reads the balance again because of it).
Holding(r) ==
  req[r].stage \in {"forwarded", "reading", "open", "billing", "retry"}
    /\ req[r].charge = NoCharge
TokenDeleted(t) ==
  /\ Alive
  /\ balance[t] # Unknown
  /\ \A r \in Requests : Holding(r) \/ req[r].stage = "unsettled" => TokenOf[r] # t
  /\ balance' = [balance EXCEPT ![t] = Unknown]
  /\ UNCHANGED <<req, window, journal, process, bounds>>

-----------------------------------------------------------------------------
(* The upstream *)

TransportFailure(timedOut, details) ==
  IF timedOut THEN Ends("upstream:timeout", 504, details)
  ELSE Ends("upstream:unreachable", 502, details)

\* The fetch itself fails: refunded in full.
FetchFails(r) ==
  /\ At(r, "forwarded")
  /\ \E timedOut \in BOOLEAN : Bill(r, req[r], 0, TransportFailure(timedOut, {}))
  /\ UNCHANGED <<balance, journal, process, bounds>>

\* A 2xx: an event stream to meter, or a body to read.
Accepts(r) ==
  /\ At(r, "forwarded")
  /\ Become(r, [req[r] EXCEPT !.stage = IF req[r].streaming THEN "open" ELSE "reading"])
  /\ UNCHANGED <<balance, window, journal, process, bounds>>

\* Mutant: the refusal of a stream is read as accepted work.
RefusesAccepted(r) ==
  /\ At(r, "forwarded")
  /\ \E reply \in Replies :
       IF req[r].streaming
       THEN Bill(r, [req[r] EXCEPT !.reply = NoReply], 0, NoEnding)
       ELSE Become(r, [req[r] EXCEPT !.stage = "reading", !.reply = reply]) /\ UNCHANGED window
  /\ UNCHANGED <<balance, journal, process, bounds>>

\* Anything else.  A refused stream has nothing to meter and is refunded
\* before its body is read.
Refuses(r) ==
  /\ At(r, "forwarded")
  /\ \E reply \in Replies \cup (IF req[r].streaming THEN {BodylessOk} ELSE {}) :
       LET q == [req[r] EXCEPT !.reply = reply]
       IN IF q.streaming THEN Bill(r, q, 0, NoEnding)
          ELSE Become(r, [q EXCEPT !.stage = "reading"]) /\ UNCHANGED window
  /\ UNCHANGED <<balance, journal, process, bounds>>

Relayed(reply) ==
  LET told == relayOrSanitizeUpstream(reply) IN Ends(told.count, told.status, {})

\* The body is read: usage is billed, anything else refunded; what an
\* upstream refusal says is classified.
BodyRead(r) ==
  /\ At(r, "reading")
  /\ LET q == req[r]
     IN IF q.reply = NoReply
        THEN \/ \E cost \in Costs : Bill(r, q, cost, Ends("served", 200, {}))
             \/ Bill(r, q, 0, Ends("bill:refunded", 200, {}))
        ELSE IF q.streaming THEN Over(r, [q EXCEPT !.ending = Relayed(q.reply)])
        ELSE Bill(r, q, 0, Relayed(q.reply))
  /\ UNCHANGED <<balance, journal, process, bounds>>

\* The body breaks off: after a 2xx the accepted input is paid for.
ReadFails(r) ==
  /\ At(r, "reading")
  /\ \E timedOut \in BOOLEAN :
       IF req[r].reply = NoReply
       THEN Bill(r, req[r], InputFloor,
                 TransportFailure(timedOut, {"failure:http-input-floor"}))
       ELSE Bill(r, req[r], 0, TransportFailure(timedOut, {}))
  /\ UNCHANGED <<balance, journal, process, bounds>>

\* The one decision of a stream, and the details its failure is counted by.
StreamDecision ==
  LET Failed(kind) == {{kind}, {kind, "failure:stream-timeout"}}
      Of(count, costs, details) ==
        {[actual |-> c, ending |-> Ends(count, 200, d)] : c \in costs, d \in details}
  IN Of("served", Costs, {{}})
       \cup Of("stream:partial", Costs \cup {InputFloor}, {{}})
       \cup Of("stream:partial", Costs,
               Failed("failure:stream-billed"))
       \cup Of("stream:aborted", {0}, {{}} \cup Failed("failure:stream-refunded"))
       \cup Of("bill:refunded", {0}, {{}})

StreamEnds(r) ==
  /\ At(r, "open")
  /\ \E d \in StreamDecision : Bill(r, req[r], d.actual, d.ending)
  /\ UNCHANGED <<balance, journal, process, bounds>>

\* A later terminal event, or the drain, tries the same decision again.
StreamRetries(r) ==
  /\ At(r, "retry")
  /\ Bill(r, req[r], req[r].actual, req[r].ending)
  /\ UNCHANGED <<balance, journal, process, bounds>>

-----------------------------------------------------------------------------
(* billActual, after the ledger *)

\* Where the handler goes on once its charge is definite: a refused stream
\* reads the body, everything else is counted and answered.
Settled(r, charge) ==
  LET q == [req[r] EXCEPT !.charge = charge]
  IN IF q.ending = NoEnding
     THEN Become(r, [q EXCEPT !.stage = "reading"]) /\ UNCHANGED window
     ELSE Over(r, q)

Confirmed(r) ==
  /\ At(r, "billing")
  /\ req[r].charge = NoCharge
  /\ balance' = [balance EXCEPT ![TokenOf[r]] = @ + HoldMicros - Clamp(req[r].actual)]
  /\ Settled(r, Clamp(req[r].actual))
  /\ UNCHANGED <<journal, process, bounds>>

\* billActual again: a charge is already definite, and must be this one.
Repeated(r) ==
  /\ At(r, "billing")
  /\ req[r].charge # NoCharge
  /\ IF req[r].charge = Clamp(req[r].actual) THEN Settled(r, req[r].charge)
     ELSE /\ Become(r, Gone("conflict", 500, req[r].charge, req[r].sent))
          /\ UNCHANGED window
  /\ UNCHANGED <<balance, journal, process, bounds>>

\* Mutant: the catch takes a rejected settlement for a transport failure.
RejectedRefunds(r) ==
  /\ At(r, "billing")
  /\ req[r].charge = NoCharge
  /\ LedgerRejects
  /\ IF req[r].streaming /\ req[r].reply = NoReply
     THEN Become(r, [req[r] EXCEPT !.stage = "retry"]) /\ UNCHANGED window
     ELSE Bill(r, req[r], 0, TransportFailure(FALSE, {}))
  /\ Bump("rejects")
  /\ UNCHANGED <<balance, journal, process>>

\* Rejected: a stream keeps its decision for a retry; a handler rethrows.
Streamed(q) == q.ending # NoEnding /\ q.streaming /\ q.reply = NoReply
                 /\ q.ending.status = 200
Rejected(r) ==
  /\ At(r, "billing")
  /\ req[r].charge = NoCharge
  /\ LedgerRejects
  /\ Become(r, IF Streamed(req[r]) THEN [req[r] EXCEPT !.stage = "retry"]
               ELSE Gone("unsettled", 500, NoCharge, req[r].sent))
  /\ Bump("rejects")
  /\ UNCHANGED <<balance, window, journal, process>>

-----------------------------------------------------------------------------
(* The free reads *)

ReadBounded == Alive /\ process = "serving" /\ bounds.background < MaxBackground

\* The shared throttle refuses a balance read, or a read of the catalog.
Throttled ==
  /\ ReadBounded
  /\ \/ Count({"reject:read", "balance:throttled"})
     \/ Count({"reject:read"})
  /\ Bump("background")
  /\ UNCHANGED <<req, balance, journal, process>>

GetBalance(t) ==
  /\ ReadBounded
  /\ Count({IF balance[t] = Unknown THEN "balance:unknown" ELSE "balance:ok"})
  /\ Bump("background")
  /\ UNCHANGED <<req, balance, journal, process>>

GetBalanceFails ==
  /\ ReadBounded
  /\ LedgerRejects
  /\ Count({"balance:error"})
  /\ bounds' = [bounds EXCEPT !.background = @ + 1, !.rejects = @ + 1]
  /\ UNCHANGED <<req, balance, journal, process>>

-----------------------------------------------------------------------------
(* Windows and shutdown *)

\* Print the window, and start the next.
flushMetrics ==
  LET out == formatMetricsLine(window)
      Added(sums, more) == [c \in Counter |-> sums[c] + more[c]]
  IN /\ journal' = [journal EXCEPT
                      ![out.level] = Added(@, out.line),
                      !.silent = Added(@, [c \in Counter |-> window[c] - out.line[c]])]
     /\ window' = Zero

\* The timer, which the shutdown clears first.
Flush ==
  /\ process = "serving"
  /\ bounds.background < MaxBackground
  /\ flushMetrics
  /\ Bump("background")
  /\ UNCHANGED <<req, balance, process>>

SigTerm ==
  /\ process = "serving"
  /\ process' = "draining"
  /\ UNCHANGED <<req, balance, window, journal, bounds>>

\* The drain is over, whatever it waited for: the last flush, the hard
\* close of what is left, and the exit.
FinalFlush ==
  /\ process = "draining"
  /\ flushMetrics
  /\ process' = "closing"
  /\ UNCHANGED <<req, balance, bounds>>

Exit ==
  /\ process = "closing"
  /\ process' = "exited"
  /\ UNCHANGED <<req, balance, window, journal, bounds>>

-----------------------------------------------------------------------------
Gate(r) == Headers(r) \/ Known(r) \/ Body(r) \/ OpenHold(r) \/ Refused(r) \/ Throws(r)
Upstream(r) ==
  \/ FetchFails(r) \/ Accepts(r) \/ Refuses(r) \/ BodyRead(r) \/ ReadFails(r)
  \/ StreamEnds(r) \/ StreamRetries(r)
Ledger(r) == Confirmed(r) \/ Repeated(r) \/ Rejected(r)
Read == Throttled \/ GetBalanceFails \/ \E t \in Tokens : GetBalance(t)
ProcessStep == Flush \/ SigTerm \/ FinalFlush \/ Exit

OutcomeNext ==
  \/ \E r \in Requests : Gate(r) \/ Upstream(r) \/ Ledger(r)
  \/ \E t \in Tokens : TokenDeleted(t)
  \/ Read
  \/ ProcessStep

OutcomeSpec == OutcomeInit /\ [][OutcomeNext]_outcomeVars

-----------------------------------------------------------------------------
With(stages) == Cardinality({r \in Requests : req[r].stage \in stages})
Answered(status) == Cardinality({r \in Requests : req[r].answer = status})

\* Everything counted since boot: in the window, or in a line, or left out.
Tally ==
  [c \in Counter |-> window[c] + journal.info[c] + journal.warn[c] + journal.silent[c]]

(* Every variable keeps its type, and a definite charge is within the hold. *)
OutcomeTypeOK ==
  /\ req \in [Requests -> Request]
  /\ \A r \in Requests : req[r].charge <= HoldMicros
  /\ balance \in [Tokens -> Nat \cup {Unknown}]
  /\ window \in [Counter -> Nat]
  /\ journal \in [{"info", "warn", "silent"} -> [Counter -> Nat]]
  /\ process \in {"serving", "draining", "closing", "exited"}
  /\ bounds \in [rejects : 0 .. MaxRejects, background : 0 .. MaxBackground]

(* metrics.ts: "requests = served + servedPartial + streamAborted +        *)
(* bill.refundedInFull + sum of upstream.*".  It holds of the process's    *)
(* life, not of one window: a forwarded request is in exactly one of the   *)
(* terminal counters from the moment it ends, unless its settlement was    *)
(* rejected.  No counter but "served" is ever left out of the journal, and *)
(* the info lines show no problem.                                         *)
Reconciled ==
  /\ Tally["req"] = SumFunctionOnSet(Tally, Terminal)
                      + With({"forwarded", "reading", "open", "billing", "retry"})
                      + With({"unsettled", "conflict"})
  /\ \A c \in Counter \ {"served"} : journal.silent[c] = 0
  /\ \A c \in Problem : journal.info[c] = 0

(* handler.ts: a rejected settlement is surfaced, "never reinterpret[ed]   *)
(* as a refund with a different payload", and "a later response-path error *)
(* can reuse the same settlement".  However a request ends, the ledger is  *)
(* only ever asked for one charge on its hold, and billActual never finds  *)
(* a conflicting one.                                                      *)
OneChargePerHold ==
  \A r \in Requests :
    /\ Cardinality(req[r].sent) <= 1
    /\ req[r].charge # NoCharge => req[r].sent = {req[r].charge}
    /\ req[r].stage # "conflict"

\* Upstream answers that are about the operator's credential or credit.
OfOperator(reply) == reply.status \in {401, 402, 403, 407} \/ reply.tag \in {"auth", "billing"}

(* A client that reads 401 or 402 was refused by the proxy on its own      *)
(* token or balance, before anything was forwarded, and is counted at that *)
(* gate.  What the upstream says of the operator's account never reaches   *)
(* it, under whatever status it is said and to streams as well: such a     *)
(* request is answered 503, or fails in a way that says nothing of it.     *)
DenialsAreOurs ==
  /\ Tally["gate:auth"] = Answered(401)
  /\ Tally["gate:funds"] = Answered(402)
  /\ \A r \in Requests :
       /\ req[r].answer \in {401, 402} => req[r].sent = {}
       /\ OfOperator(req[r].reply) => req[r].answer \in {0, 500, 502, 503, 504}
=============================================================================
