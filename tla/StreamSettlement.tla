-------------------------- MODULE StreamSettlement --------------------------
(***************************************************************************)
(* The terminal races of a metered request inside one proxy process: the   *)
(* settle() latch and the response stream of core/src/handler.ts, and the  *)
(* SIGTERM drain of core/src/shutdown.ts with its caller in proxy.ts.      *)
(*                                                                         *)
(* Every request here has its hold open and its upstream fetch pending.    *)
(* Pull, cancel, the force-settle deadline and the drain run as separate   *)
(* event-loop turns, so each is a step; what a handler does after an await *)
(* is a later step.  The ledger is the promise port the handler sees: a    *)
(* settlement is confirmed or rejected.  (One whose outcome stays unknown  *)
(* ends the process, see Metering.)  What a stream's scanner has seen is   *)
(* abstracted to the strength of its evidence, and "upstream_timeout" to   *)
(* "upstream_error", which settle() decides alike.                         *)
(***************************************************************************)
EXTENDS Integers, FiniteSets

CONSTANTS
  Requests,    \* metered requests of this process
  HoldMicros,  \* what each of them reserved
  Chunks,      \* request -> the chunks its upstream may send
  InputCost,   \* the price of the accepted input
  UsageCost,   \* the price of reported usage, or of input and visible text
  MaxRejects   \* bound on rejected settlements

(* What the scanner can tell: nothing, that some event was parsed, or that *)
(* there is work to bill (visible text, or usage the provider reported).   *)
Nothing == 0
Seen == 1
Worked == 2
Evidence == Nothing .. Worked

ASSUME StreamAssumption ==
  /\ IsFiniteSet(Requests)
  /\ {InputCost, UsageCost, HoldMicros} \subseteq Nat \ {0}
  /\ Chunks \in [Requests -> SUBSET [evidence : Evidence, failed : BOOLEAN]]
  /\ MaxRejects \in Nat

VARIABLES
  req,        \* request -> the variables its handler closes over
  inflight,   \* requests whose settle() is registered for shutdown
  stragglers, \* what the drain found in inflight and settles
  awaited,    \* stragglers whose settlement allSettled still waits for
  process,    \* stage of the process
  rejects     \* settlements rejected so far

drain == <<stragglers, awaited>>
vars == <<req, inflight, drain, process, rejects>>

-----------------------------------------------------------------------------
LocalCause == {"client_cancel", "deadline", "shutdown_drain"}
Cause == LocalCause \cup {"complete", "upstream_error", "buffered"}
Outcome == {"served", "partial", "upstream_partial", "upstream_aborted",
            "shutdown_aborted", "unmetered_complete", "buffered"}
Decision == [outcome : Outcome, cost : Nat, cause : Cause]
Undecided == [outcome |-> "none"]
NoCause == "none"
NoCharge == -1

Request ==
  [stage : {"forwarding", "streaming", "buffered"},
   evidence : Evidence,                        \* scan
   errored : BOOLEAN,                          \* scan.errored()
   ended : BOOLEAN,                            \* history: the body reached its own end
   requestedCause : LocalCause \cup {NoCause},
   timer : BOOLEAN,                            \* the deadline is armed
   pull : {"idle", "reading", "closing", "failing"},
   cancelling : BOOLEAN,                       \* cancel() awaits reader.cancel()
   downstream : {"open", "closed", "errored", "cancelled"},
   decision : Decision \cup {Undecided},       \* settlementDecision, settlementCause
   attempt : {"none", "pending", "done"},      \* settlementAttempt
   charge : Nat \cup {NoCharge},               \* completedCharge
   counted : Nat]                              \* history: terminal outcomes recorded

Forwarding ==
  [stage |-> "forwarding", evidence |-> Nothing, errored |-> FALSE, ended |-> FALSE,
   requestedCause |-> NoCause, timer |-> FALSE, pull |-> "idle", cancelling |-> FALSE,
   downstream |-> "open", decision |-> Undecided, attempt |-> "none",
   charge |-> NoCharge, counted |-> 0]

Running == process # "exited"
Decided(q) == q.decision # Undecided
Lower(a, b) == IF a < b THEN a ELSE b

-----------------------------------------------------------------------------
(* The policy table of a 2xx stream *)

\* scan.result(): what may be billed, if anything.  After a failure or a
\* drain only visible text or reported usage counts.
Metered(evidence, evidencedOnly) ==
  CASE evidence = Worked -> [is |-> "usage", cost |-> UsageCost]
    [] evidence = Seen /\ ~evidencedOnly -> [is |-> "usage", cost |-> InputCost]
    [] OTHER -> [is |-> "null"]

MeteredOutcome(cause, upstreamFailed) ==
  IF upstreamFailed THEN "upstream_partial"
  ELSE IF cause = "complete" THEN "served" ELSE "partial"

\* Mutant: a drain bills like a disconnect.
decideStreamSettlementLax(cause, evidence, errored) ==
  LET upstreamFailed == cause = "upstream_error" \/ errored
      metered == Metered(evidence, upstreamFailed)
      Is(outcome, cost) == [outcome |-> outcome, cost |-> cost, cause |-> cause]
  IN IF metered.is = "usage"
     THEN Is(MeteredOutcome(cause, upstreamFailed), metered.cost)
     ELSE IF upstreamFailed THEN Is("upstream_aborted", 0)
     ELSE CASE cause \in {"client_cancel", "deadline"} -> Is("partial", InputCost)
            [] cause = "shutdown_drain" -> Is("shutdown_aborted", 0)
            [] OTHER -> Is("unmetered_complete", 0)

decideStreamSettlement(cause, evidence, errored) ==
  LET upstreamFailed == cause = "upstream_error" \/ errored
      metered == Metered(evidence, upstreamFailed \/ cause = "shutdown_drain")
      Is(outcome, cost) == [outcome |-> outcome, cost |-> cost, cause |-> cause]
  IN IF metered.is = "usage"
     THEN Is(MeteredOutcome(cause, upstreamFailed), metered.cost)
     ELSE IF upstreamFailed THEN Is("upstream_aborted", 0)
     ELSE CASE cause \in {"client_cancel", "deadline"} -> Is("partial", InputCost)
            [] cause = "shutdown_drain" -> Is("shutdown_aborted", 0)
            [] OTHER -> Is("unmetered_complete", 0)

\* Mutant: only a pending attempt is joined.
SettleUnlatched(q, cause) ==
  IF q.attempt = "pending" THEN q
  ELSE [q EXCEPT
          !.attempt = "pending",
          !.timer = FALSE,
          !.decision = IF Decided(q) THEN @
                       ELSE decideStreamSettlement(cause, q.evidence, q.errored)]
\* Mutant: a retry decides anew.
SettleRedecides(q, cause) ==
  IF q.attempt # "none" THEN q
  ELSE [q EXCEPT
          !.attempt = "pending",
          !.timer = FALSE,
          !.decision = decideStreamSettlement(cause, q.evidence, q.errored)]

(* settle(): one latch for every terminal event.  A pending or completed   *)
(* attempt is joined; otherwise the first cause fixes the decision and     *)
(* stops the deadline, and an attempt to bill it starts.                   *)
Settle(q, cause) ==
  IF q.attempt # "none" THEN q
  ELSE [q EXCEPT
          !.attempt = "pending",
          !.timer = FALSE,
          !.decision = IF Decided(q) THEN @
                       ELSE decideStreamSettlement(cause, q.evidence, q.errored)]

\* settle("drain"): a first cause that also stops the upstream body and
\* the client's stream.
DrainSettle(q) ==
  IF q.attempt # "none" \/ Decided(q) THEN Settle(q, "shutdown_drain")
  ELSE [Settle(q, "shutdown_drain") EXCEPT
          !.requestedCause = "shutdown_drain",
          !.downstream = IF @ = "open" THEN "errored" ELSE @]

\* Mutant: the marker is not consulted.
CauseUnmarked(q, cause) == cause
CauseOr(q, cause) == IF q.requestedCause = NoCause THEN cause ELSE q.requestedCause

-----------------------------------------------------------------------------
Init ==
  /\ req = [r \in Requests |-> Forwarding]
  /\ inflight = {}
  /\ stragglers = {}
  /\ awaited = {}
  /\ process = "serving"
  /\ rejects = 0

Become(r, q) == req' = [req EXCEPT ![r] = q]

(* The upstream fetch *)

\* Mutant: no deadline is armed.
StreamStartsUntimed(r) ==
  /\ Running
  /\ req[r].stage = "forwarding"
  /\ Become(r, [req[r] EXCEPT !.stage = "streaming"])
  /\ inflight' = inflight \cup {r}
  /\ UNCHANGED <<drain, process, rejects>>

\* A 2xx with a body: the stream registers itself and arms its deadline.
StreamStarts(r) ==
  /\ Running
  /\ req[r].stage = "forwarding"
  /\ Become(r, [req[r] EXCEPT !.stage = "streaming", !.timer = TRUE])
  /\ inflight' = inflight \cup {r}
  /\ UNCHANGED <<drain, process, rejects>>

\* Any other end of the fetch: the handler bills it itself and is not
\* registered.  A refund, the input floor, or the usage of a whole body.
Buffered(r) ==
  /\ Running
  /\ req[r].stage = "forwarding"
  /\ \E cost \in {0, InputCost, UsageCost} :
       Become(r, [req[r] EXCEPT
                    !.stage = "buffered",
                    !.attempt = "pending",
                    !.decision = [outcome |-> "buffered", cost |-> cost, cause |-> "buffered"]])
  /\ UNCHANGED <<inflight, drain, process, rejects>>

(* The response stream *)

\* The client wants more, and pull() awaits the next read.
Pull(r) ==
  /\ Running
  /\ req[r].stage = "streaming"
  /\ req[r].downstream = "open"
  /\ req[r].pull = "idle"
  /\ Become(r, [req[r] EXCEPT !.pull = "reading"])
  /\ UNCHANGED <<inflight, drain, process, rejects>>

Chunk(r) ==
  /\ Running
  /\ req[r].pull = "reading"
  /\ req[r].requestedCause = NoCause  \* reader.cancel() drops what is queued
  /\ \E chunk \in Chunks[r] :
       Become(r, [req[r] EXCEPT
                    !.pull = "idle",
                    !.evidence = IF @ < chunk.evidence THEN chunk.evidence ELSE @,
                    !.errored = @ \/ chunk.failed])
  /\ UNCHANGED <<inflight, drain, process, rejects>>

\* Mutant: the stream closes before its settlement is confirmed.
ReadDoneCloses(r) ==
  /\ Running
  /\ req[r].pull = "reading"
  /\ Become(r, [Settle(req[r], CauseOr(req[r], "complete")) EXCEPT
                  !.pull = "idle",
                  !.ended = @ \/ req[r].requestedCause = NoCause,
                  !.downstream = IF @ = "open" THEN "closed" ELSE @])
  /\ UNCHANGED <<inflight, drain, process, rejects>>

\* The read is done: at the end of the body, or because of a cancel.
ReadDone(r) ==
  /\ Running
  /\ req[r].pull = "reading"
  /\ Become(r, [Settle(req[r], CauseOr(req[r], "complete")) EXCEPT
                  !.pull = "closing",
                  !.ended = @ \/ req[r].requestedCause = NoCause])
  /\ UNCHANGED <<inflight, drain, process, rejects>>

\* The read fails: the connection breaks or times out, or because of a cancel.
ReadFails(r) ==
  /\ Running
  /\ req[r].pull = "reading"
  /\ Become(r, [Settle(req[r], CauseOr(req[r], "upstream_error")) EXCEPT !.pull = "failing"])
  /\ UNCHANGED <<inflight, drain, process, rejects>>

\* The client disconnects: cancel() marks the cause and stops the reader ...
Cancel(r) ==
  /\ Running
  /\ req[r].stage = "streaming"
  /\ req[r].downstream = "open"
  /\ Become(r, [req[r] EXCEPT
                  !.requestedCause = "client_cancel",
                  !.cancelling = TRUE,
                  !.downstream = "cancelled"])
  /\ UNCHANGED <<inflight, drain, process, rejects>>

\* ... and settles when the reader has stopped.
CancelSettles(r) ==
  /\ Running
  /\ req[r].cancelling
  /\ Become(r, [Settle(req[r], "client_cancel") EXCEPT !.cancelling = FALSE])
  /\ UNCHANGED <<inflight, drain, process, rejects>>

\* The force-settle deadline of a stream nobody reads or leaves.
Deadline(r) ==
  /\ Running
  /\ req[r].timer
  /\ Become(r, [Settle([req[r] EXCEPT !.requestedCause = "deadline"], "deadline") EXCEPT
                  !.timer = FALSE,
                  !.downstream = IF @ = "open" THEN "errored" ELSE @])
  /\ UNCHANGED <<inflight, drain, process, rejects>>

(* The ledger's answer, and what waits for it *)

\* A pull that waits closes the stream, or fails it.
Woken(q, end) ==
  [q EXCEPT
     !.pull = IF @ \in {"closing", "failing"} THEN "idle" ELSE @,
     !.downstream = IF @ = "open" /\ q.pull = "closing" THEN end
                    ELSE IF @ = "open" /\ q.pull = "failing" THEN "errored"
                    ELSE @]

\* Mutant: the charge is not clamped.
ConfirmedUnclamped(r) ==
  /\ Running
  /\ req[r].attempt = "pending"
  /\ Become(r, [Woken(req[r], "closed") EXCEPT
                  !.attempt = "done",
                  !.charge = req[r].decision.cost,
                  !.counted = @ + 1])
  /\ inflight' = inflight \ {r}
  /\ awaited' = awaited \ {r}
  /\ UNCHANGED <<stragglers, process, rejects>>

\* billActual with the clamp, the metrics of the outcome, the registry.
Confirmed(r) ==
  /\ Running
  /\ req[r].attempt = "pending"
  /\ Become(r, [Woken(req[r], "closed") EXCEPT
                  !.attempt = "done",
                  !.charge = Lower(req[r].decision.cost, HoldMicros),
                  !.counted = @ + 1])
  /\ inflight' = inflight \ {r}
  /\ awaited' = awaited \ {r}
  /\ UNCHANGED <<stragglers, process, rejects>>

\* Mutant: Promise.all gives up on the first rejection.
RejectedAbortsDrain(r) ==
  /\ Running
  /\ rejects < MaxRejects
  /\ req[r].attempt = "pending"
  /\ Become(r, [Woken(req[r], "errored") EXCEPT !.attempt = "none"])
  /\ awaited' = {}
  /\ rejects' = rejects + 1
  /\ UNCHANGED <<inflight, stragglers, process>>

\* The attempt is forgotten; the decision and the registration are not.
Rejected(r) ==
  /\ Running
  /\ rejects < MaxRejects
  /\ req[r].attempt = "pending"
  /\ Become(r, [Woken(req[r], "errored") EXCEPT !.attempt = "none"])
  /\ awaited' = awaited \ {r}
  /\ rejects' = rejects + 1
  /\ UNCHANGED <<inflight, stragglers, process>>

(* Shutdown *)

\* SIGTERM: server.stop() and the wait for streams and handlers.
SigTerm ==
  /\ process = "serving"
  /\ process' = "draining"
  /\ UNCHANGED <<req, inflight, drain, rejects>>

\* Everything finished or the grace ran out: settle what is registered now.
DrainStragglers ==
  /\ process = "draining"
  /\ process' = "settling"
  /\ req' = [r \in Requests |-> IF r \in inflight THEN DrainSettle(req[r]) ELSE req[r]]
  /\ stragglers' = inflight
  /\ awaited' = inflight
  /\ UNCHANGED <<inflight, rejects>>

\* Every drain settlement is over: server.stop(true) cuts what is left.
Exit ==
  /\ process = "settling"
  /\ awaited = {}
  /\ process' = "exited"
  /\ UNCHANGED <<req, inflight, drain, rejects>>

-----------------------------------------------------------------------------
ProcessStep == SigTerm \/ DrainStragglers \/ Exit

RequestStep(r) ==
  \/ StreamStarts(r) \/ Buffered(r)
  \/ Pull(r) \/ Chunk(r) \/ ReadDone(r) \/ ReadFails(r)
  \/ Cancel(r) \/ CancelSettles(r) \/ Deadline(r)
  \/ Confirmed(r) \/ Rejected(r)

Next == ProcessStep \/ \E r \in Requests : RequestStep(r)

Spec == Init /\ [][Next]_vars

(* Timers fire, an awaited reader.cancel() resolves, the fetch and the     *)
(* ledger call end (both have timeouts), and a drain runs on.  Nothing     *)
(* makes a client read or leave, and nothing makes SIGTERM come.           *)
Fairness ==
  /\ WF_vars(DrainStragglers) /\ WF_vars(Exit)
  /\ \A r \in Requests :
       /\ WF_vars(StreamStarts(r) \/ Buffered(r))
       /\ WF_vars(CancelSettles(r))
       /\ WF_vars(Deadline(r))
       /\ WF_vars(Confirmed(r) \/ Rejected(r))

FairSpec == Spec /\ Fairness

-----------------------------------------------------------------------------
Settled(r) == req[r].attempt = "done"

(* Every variable of a handler keeps its type, a charge is within the hold *)
(* it settles, and only a stream with no confirmed settlement is           *)
(* registered for shutdown.                                                *)
TypeOK ==
  /\ req \in [Requests -> Request]
  /\ \A r \in Requests : req[r].charge <= HoldMicros
  /\ inflight = {r \in Requests : req[r].stage = "streaming" /\ ~Settled(r)}
  /\ stragglers \subseteq Requests
  /\ awaited \subseteq {r \in stragglers : req[r].attempt = "pending"}
  /\ process \in {"serving", "draining", "settling", "exited"}
  /\ rejects \in 0 .. MaxRejects

(* The ends of a request agree, whichever came first.  Its terminal        *)
(* outcome is counted once, when its charge is definite, however many      *)
(* events race for it and however often a rejected settlement is tried     *)
(* again.  Only a body that reached its own end is served: a read that a   *)
(* cancel woke "cannot masquerade as a clean end", and "downstream         *)
(* completion means the charge is already definite".  What is charged      *)
(* follows what the client was given: visible text or reported usage is    *)
(* paid for, and a stream the upstream failed or the proxy drained is free *)
(* without them.  A drained process exits only when every straggler got    *)
(* its answer: one rejection does not abandon its siblings.                *)
CountedOnce ==
  \A r \in Requests : req[r].counted = IF Settled(r) THEN 1 ELSE 0
CutShortIsNotServed ==
  \A r \in Requests :
    req[r].decision.outcome \in {"served", "unmetered_complete"} => req[r].ended
CloseMeansCharged ==
  \A r \in Requests : req[r].downstream = "closed" => Settled(r)
ChargeFollowsEvidence ==
  \A r \in Requests :
    req[r].stage = "streaming" /\ Settled(r) =>
      LET worked == req[r].evidence = Worked
          failed == req[r].errored
                    \/ req[r].decision.cause \in {"upstream_error", "shutdown_drain"}
      IN /\ worked => req[r].charge > 0
         /\ failed /\ ~worked => req[r].charge = 0
StragglersAnswered ==
  process = "exited" =>
    Cardinality({r \in stragglers : ~Settled(r)}) <= rejects
EndsAgree ==
  CountedOnce /\ CutShortIsNotServed /\ CloseMeansCharged /\ ChargeFollowsEvidence
  /\ StragglersAnswered

(* The first terminal event fixes the billing decision and a charge, once  *)
(* confirmed, stays: a retry of a rejected settlement, a later cancel, the *)
(* deadline or the drain pays the same amount.                             *)
DecisionIsFinal ==
  [][\A r \in Requests :
       /\ req[r].decision # Undecided => req'[r].decision = req[r].decision
       /\ Settled(r) => req'[r].charge = req[r].charge]_vars

(* Every hold is closed in the end, even of a stream that is opened and    *)
(* neither read nor left, unless the process goes or a settlement of the   *)
(* request is rejected (which then waits for the drain).                   *)
HoldsClose ==
  \A r \in Requests : <>(Settled(r) \/ ~Running \/ rejects > 0)

(* shutdown.ts: the drain waits up to the grace window, "then ALWAYS       *)
(* force-settle any straggler stream -- billing its metered partial,       *)
(* refunding the rest -- so a restart charges for output already           *)
(* delivered".                                                             *)
DeliveredIsCharged ==
  process = "exited" =>
    \A r \in Requests : req[r].stage = "streaming" /\ req[r].evidence = Worked => Settled(r)
=============================================================================
