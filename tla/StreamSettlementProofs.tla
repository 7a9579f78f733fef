----------------------- MODULE StreamSettlementProofs -----------------------
(***************************************************************************)
(* One request, one decision, one charge, for any number of requests and   *)
(* any chunks, costs and holds.                                            *)
(*                                                                         *)
(* Almost everything is said of one handler's variables alone: Sound(q).   *)
(* Every action changes the handlers it touches by one of a few updates,   *)
(* and each update keeps Sound and finality; the actions then only put     *)
(* the changed record back and keep the registry.                          *)
(***************************************************************************)
EXTENDS StreamSettlement, FiniteSetTheorems, TLAPS

StreamCause == Cause \ {"buffered"}
CleanEnd == {"served", "unmetered_complete"}

\* A decided stream reads no more, so its evidence stays what it was.
Frozen(q) ==
  q.stage = "streaming" /\ Decided(q) =>
    \/ q.requestedCause # NoCause
    \/ q.pull \in {"closing", "failing"}
    \/ q.pull = "idle" /\ q.downstream # "open"

\* The decision follows from the evidence and the first cause.
Based(q) ==
  q.stage = "streaming" /\ Decided(q) =>
    /\ q.decision.cause \in StreamCause
    /\ q.decision = decideStreamSettlement(q.decision.cause, q.evidence, q.errored)

Core(q) ==
  /\ q \in Request
  /\ q.stage # "streaming" => q.pull = "idle" /\ ~q.cancelling /\ ~q.timer
  /\ q.stage = "forwarding" => q.decision = Undecided /\ q.attempt = "none"
  /\ q.cancelling => q.requestedCause # NoCause
  /\ q.attempt # "none" => Decided(q)
  /\ q.counted = IF q.attempt = "done" THEN 1 ELSE 0
  /\ q.charge <= HoldMicros
  /\ q.attempt = "done" => q.charge = Lower(q.decision.cost, HoldMicros)
  /\ q.downstream = "closed" => q.attempt = "done"
  /\ Based(q)

Earned(q) == q.decision.outcome \in CleanEnd => q.ended

Sound(q) == Core(q) /\ Frozen(q) /\ Earned(q)

\* What no step may take back.
Kept(q, p) ==
  /\ Decided(q) => p.decision = q.decision
  /\ q.attempt = "done" => p.attempt = "done" /\ p.charge = q.charge

\* Stragglers that the drain has stopped waiting for without a charge.
Lost == {r \in stragglers : ~Settled(r)} \ awaited

IInv ==
  /\ TypeOK
  /\ \A r \in Requests : Sound(req[r])
  /\ process \in {"settling", "exited"} => Cardinality(Lost) <= rejects
  /\ process = "exited" => awaited = {}

-----------------------------------------------------------------------------
(* The policy table *)

\* A decision that names its cause; only a body that is complete ends cleanly;
\* work is paid for, and a failure or a drain without work is free.
Fair(d, cause, evidence, errored) ==
  /\ d \in Decision
  /\ d.cause = cause
  /\ d.outcome \in CleanEnd => cause = "complete"
  /\ evidence = Worked => d.cost > 0
  /\ (errored \/ cause \in {"upstream_error", "shutdown_drain"})
       /\ evidence # Worked => d.cost = 0

\* What the table returns is such a decision.
LEMMA DecisionTable ==
  ASSUME NEW cause \in StreamCause, NEW evidence \in Evidence, NEW errored \in BOOLEAN
  PROVE  Fair(decideStreamSettlement(cause, evidence, errored), cause, evidence, errored)
<1>1. UsageCost \in Nat /\ UsageCost > 0 /\ InputCost \in Nat
  BY StreamAssumption
<1>2. cause \in Cause /\ evidence \in {Nothing, Seen, Worked}
  BY DEF StreamCause, Evidence, Nothing, Seen, Worked
<1> QED
  BY <1>1, <1>2
  DEF decideStreamSettlement, MeteredOutcome, Metered, Fair, Decision, Outcome, CleanEnd,
      StreamCause, Cause, LocalCause, Nothing, Seen, Worked

\* The pseudo-decision of an undecided request is none.
LEMMA UndecidedIsNone ==
  Undecided.outcome = "none" /\ Undecided.outcome \notin CleanEnd
BY DEF Undecided, CleanEnd

-----------------------------------------------------------------------------
(* The updates of one handler *)

\* What settle() leaves as it was.
SameBut(q, p) ==
  /\ p.stage = q.stage /\ p.evidence = q.evidence /\ p.errored = q.errored
  /\ p.ended = q.ended /\ p.requestedCause = q.requestedCause /\ p.pull = q.pull
  /\ p.cancelling = q.cancelling /\ p.downstream = q.downstream
  /\ p.charge = q.charge /\ p.counted = q.counted
  /\ p.attempt = "done" <=> q.attempt = "done"

\* settle() keeps what a decision was and decides a stream that had none.
LEMMA SettleKeeps ==
  ASSUME NEW q, Core(q), q.stage = "streaming", NEW cause \in StreamCause
  PROVE  LET p == Settle(q, cause)
         IN /\ Core(p) /\ Kept(q, p) /\ SameBut(q, p)
            /\ p.attempt # "none" /\ Decided(p)
            /\ p.decision.outcome \in CleanEnd =>
                 (Decided(q) /\ p.decision = q.decision) \/ cause = "complete"
<1> DEFINE p == Settle(q, cause)
           d == decideStreamSettlement(cause, q.evidence, q.errored)
<1>0. q \in Request /\ q.evidence \in Evidence /\ q.errored \in BOOLEAN
  BY DEF Core, Request
<1>1. d \in Decision /\ d.cause = cause /\ (d.outcome \in CleanEnd => cause = "complete")
  BY <1>0, DecisionTable DEF Fair
<1>2. CASE q.attempt # "none"
  BY <1>2 DEF Settle, Kept, SameBut, Core
<1>3. CASE q.attempt = "none"
  <2> DEFINE e == IF Decided(q) THEN q.decision ELSE d
  <2> HIDE DEF d
  <2>1. p = [q EXCEPT !.attempt = "pending", !.timer = FALSE, !.decision = e]
    BY <1>3 DEF Settle, d
  <2>2. e \in Decision
    BY <1>0, <1>1 DEF Decided, Request
  <2>3. e # Undecided
    <3>1. e.outcome \in Outcome
      BY <2>2 DEF Decision
    <3>2. "none" \notin Outcome
      BY DEF Outcome
    <3> QED
      BY <3>1, <3>2, UndecidedIsNone
  <2> HIDE DEF e
  <2>4. p \in Request /\ SameBut(q, p) /\ p.decision = e /\ p.attempt = "pending"
        /\ p.timer = FALSE
    BY <1>0, <1>3, <2>1, <2>2 DEF Request, SameBut
  <2>5. Decided(p)
    BY <2>3, <2>4 DEF Decided
  <2>6. Based(p)
    BY <1>1, <2>4 DEF Based, SameBut, Core, e, d
  <2>7. Core(p)
    BY <1>3, <2>4, <2>5, <2>6 DEF Core, SameBut
  <2>8. Kept(q, p)
    BY <1>3, <2>4 DEF Kept, e
  <2>9. p.decision.outcome \in CleanEnd =>
          (Decided(q) /\ p.decision = q.decision) \/ cause = "complete"
    BY <1>1, <2>4 DEF e
  <2> QED
    BY <2>4, <2>5, <2>7, <2>8, <2>9
<1> QED
  BY <1>2, <1>3

\* A step of one handler that gets no answer from the ledger.
Quiet(q, p) ==
  /\ Sound(p) /\ Kept(q, p)
  /\ p.attempt = "done" <=> q.attempt = "done"
  /\ q.attempt = "pending" => p.attempt = "pending"
  /\ q.stage = "streaming" => p.stage = "streaming"

\* Every event of the fetch and of the response stream is such a step.
LEMMA HandlerStep ==
  ASSUME NEW r \in Requests, req \in [Requests -> Request], Sound(req[r]),
         RequestStep(r), ~Confirmed(r), ~Rejected(r)
  PROVE  Quiet(req[r], req'[r])
<1> DEFINE q == req[r]
<1>0. q \in Request /\ Core(q) /\ Frozen(q) /\ Earned(q)
  BY DEF Sound, Core
<1>u. \A x : Become(r, x) => req'[r] = x
  BY DEF Become
<1>n. UsageCost \in Nat /\ InputCost \in Nat
  BY StreamAssumption
<1> HIDE DEF q
<1>1. CASE StreamStarts(r)
  <2> DEFINE p == [q EXCEPT !.stage = "streaming", !.timer = TRUE]
  <2>1. req'[r] = p /\ q.stage = "forwarding"
    BY <1>1, <1>u DEF StreamStarts, q
  <2>2. q.decision = Undecided /\ q.attempt = "none" /\ q.pull = "idle"
    BY <1>0, <2>1 DEF Core
  <2>3. Core(p)
    BY <1>0, <2>1, <2>2 DEF Core, Request, Based, Decided
  <2>4. Frozen(p) /\ Earned(p) /\ Kept(q, p)
    BY <1>0, <2>2, UndecidedIsNone DEF Frozen, Earned, Kept, Decided, Request
  <2> QED
    BY <1>0, <2>1, <2>2, <2>3, <2>4 DEF Quiet, Sound, q, Request
<1>2. CASE Buffered(r)
  <2>1. PICK cost \in {0, InputCost, UsageCost} :
          req'[r] = [q EXCEPT !.stage = "buffered", !.attempt = "pending",
                       !.decision = [outcome |-> "buffered", cost |-> cost,
                                     cause |-> "buffered"]]
    BY <1>2, <1>u DEF Buffered, q
  <2> DEFINE d == [outcome |-> "buffered", cost |-> cost, cause |-> "buffered"]
             p == [q EXCEPT !.stage = "buffered", !.attempt = "pending", !.decision = d]
  <2>2. q.stage = "forwarding"
    BY <1>2 DEF Buffered, q
  <2>3. /\ q.decision = Undecided /\ q.attempt = "none" /\ q.pull = "idle"
        /\ ~q.cancelling /\ ~q.timer
    BY <1>0, <2>2 DEF Core
  <2>4. d \in Decision /\ d.outcome = "buffered"
    BY <1>n DEF Decision, Outcome, Cause
  <2>5. d # Undecided /\ d.outcome \notin CleanEnd
    BY <2>4, UndecidedIsNone DEF CleanEnd
  <2> HIDE DEF d
  <2>6. p \in Request /\ p.stage = "buffered" /\ p.decision = d /\ p.attempt = "pending"
    BY <1>0, <2>4 DEF Request
  <2>7. Core(p)
    BY <1>0, <2>3, <2>5, <2>6 DEF Core, Request, Based, Decided
  <2>8. Frozen(p) /\ Earned(p) /\ Kept(q, p)
    BY <1>0, <2>3, <2>5, <2>6 DEF Frozen, Earned, Kept, Decided
  <2> QED
    BY <2>1, <2>2, <2>3, <2>6, <2>7, <2>8 DEF Quiet, Sound, q, d
<1>3. CASE Pull(r)
  <2> DEFINE p == [q EXCEPT !.pull = "reading"]
  <2>1. req'[r] = p /\ q.stage = "streaming" /\ q.downstream = "open" /\ q.pull = "idle"
    BY <1>3, <1>u DEF Pull, q
  <2>2. Core(p)
    BY <1>0, <2>1 DEF Core, Request, Based, Decided
  <2>3. Frozen(p) /\ Earned(p) /\ Kept(q, p)
    BY <1>0, <2>1 DEF Frozen, Earned, Kept, Decided, Request
  <2> QED
    BY <1>0, <2>1, <2>2, <2>3 DEF Quiet, Sound, q, Request
<1>4. CASE Chunk(r)
  <2>1. PICK chunk \in Chunks[r] :
          req'[r] = [q EXCEPT !.pull = "idle",
                       !.evidence = IF q.evidence < chunk.evidence THEN chunk.evidence
                                    ELSE q.evidence,
                       !.errored = q.errored \/ chunk.failed]
    BY <1>4, <1>u DEF Chunk, q
  <2>2. q.pull = "reading" /\ q.requestedCause = NoCause
    BY <1>4 DEF Chunk, q
  <2>3. q.stage = "streaming" /\ ~Decided(q)
    BY <1>0, <2>2 DEF Core, Frozen, Request
  <2>4. chunk \in [evidence : Evidence, failed : BOOLEAN]
    BY StreamAssumption
  <2> DEFINE e == IF q.evidence < chunk.evidence THEN chunk.evidence ELSE q.evidence
             b == q.errored \/ chunk.failed
             p == [q EXCEPT !.pull = "idle", !.evidence = e, !.errored = b]
  <2>5. e \in Evidence /\ b \in BOOLEAN
    BY <1>0, <2>4 DEF Request
  <2> HIDE DEF e, b
  <2>6. Core(p)
    BY <1>0, <2>3, <2>5 DEF Core, Request, Based, Decided
  <2>7. Frozen(p) /\ Earned(p) /\ Kept(q, p)
    BY <1>0, <2>3, <2>5 DEF Frozen, Earned, Kept, Decided, Request
  <2>8. req'[r] = p
    BY <2>1 DEF e, b
  <2> QED
    BY <1>0, <2>5, <2>6, <2>7, <2>8 DEF Quiet, Sound, q, Request
<1>5. CASE ReadDone(r)
  <2> DEFINE cause == CauseOr(q, "complete")
             m == Settle(q, cause)
             b == q.ended \/ q.requestedCause = NoCause
             p == [m EXCEPT !.pull = "closing", !.ended = b]
  <2>1. /\ q.pull = "reading"
        /\ req'[r] = [m EXCEPT !.pull = "closing",
                               !.ended = m.ended \/ q.requestedCause = NoCause]
    BY <1>5, <1>u DEF ReadDone, q
  <2>2. q.stage = "streaming"
    BY <1>0, <2>1 DEF Core, Request
  <2>3. cause \in StreamCause /\ (cause = "complete" => q.requestedCause = NoCause)
    BY <1>0 DEF CauseOr, Request, StreamCause, Cause, LocalCause, NoCause
  <2> HIDE DEF cause
  <2>4. /\ Core(m) /\ Kept(q, m) /\ SameBut(q, m) /\ m.attempt # "none" /\ Decided(m)
        /\ m.decision.outcome \in CleanEnd =>
             (Decided(q) /\ m.decision = q.decision) \/ cause = "complete"
    BY <1>0, <2>2, <2>3, SettleKeeps
  <2> HIDE DEF m
  <2>5. req'[r] = p
    BY <2>1, <2>4 DEF SameBut
  <2>6. b \in BOOLEAN
    BY <1>0 DEF Request
  <2>7. m.decision.outcome \in CleanEnd => b
    BY <1>0, <2>3, <2>4 DEF Earned
  <2>8. m \in Request /\ m.stage = "streaming"
    BY <2>2, <2>4 DEF Core, SameBut
  <2> HIDE DEF b
  <2>9. Core(p)
    BY <2>4, <2>6, <2>8 DEF Core, Request, Based, Decided
  <2>10. Frozen(p) /\ Earned(p)
    BY <2>6, <2>7, <2>8 DEF Frozen, Earned, Request
  <2>11. Kept(q, p)
    BY <2>4, <2>8 DEF Kept, Request
  <2>12. p.attempt = m.attempt
    BY <2>8 DEF Request
  <2> QED
    BY <2>4, <2>5, <2>8, <2>9, <2>10, <2>11, <2>12
    DEF Quiet, Sound, SameBut, q, Request, m, Settle
<1>6. CASE ReadFails(r)
  <2> DEFINE cause == CauseOr(q, "upstream_error")
             m == Settle(q, cause)
             p == [m EXCEPT !.pull = "failing"]
  <2>1. q.pull = "reading" /\ req'[r] = p
    BY <1>6, <1>u DEF ReadFails, q
  <2>2. q.stage = "streaming"
    BY <1>0, <2>1 DEF Core, Request
  <2>3. cause \in StreamCause /\ cause # "complete"
    BY <1>0 DEF CauseOr, Request, StreamCause, Cause, LocalCause, NoCause
  <2> HIDE DEF cause
  <2>4. /\ Core(m) /\ Kept(q, m) /\ SameBut(q, m)
        /\ m.decision.outcome \in CleanEnd =>
             (Decided(q) /\ m.decision = q.decision) \/ cause = "complete"
    BY <1>0, <2>2, <2>3, SettleKeeps
  <2>5. q.attempt = "pending" => m.attempt = "pending"
    BY DEF Settle
  <2> HIDE DEF m
  <2>6. m \in Request /\ m.stage = "streaming" /\ p.attempt = m.attempt
    BY <2>2, <2>4 DEF Core, SameBut, Request
  <2>7. Core(p)
    BY <2>4, <2>6 DEF Core, Request, Based, Decided
  <2>8. Frozen(p) /\ Earned(p) /\ Kept(q, p)
    BY <1>0, <2>3, <2>4, <2>6 DEF Frozen, Earned, Kept, SameBut, Request
  <2> QED
    BY <2>1, <2>4, <2>5, <2>6, <2>7, <2>8 DEF Quiet, Sound, SameBut, q
<1>7. CASE Cancel(r)
  <2> DEFINE p == [q EXCEPT !.requestedCause = "client_cancel", !.cancelling = TRUE,
                            !.downstream = "cancelled"]
  <2>1. req'[r] = p /\ q.stage = "streaming" /\ q.downstream = "open"
    BY <1>7, <1>u DEF Cancel, q
  <2>2. Core(p)
    BY <1>0, <2>1 DEF Core, Request, Based, Decided, LocalCause, NoCause
  <2>3. Frozen(p) /\ Earned(p) /\ Kept(q, p)
    BY <1>0, <2>1 DEF Frozen, Earned, Kept, Decided, Request, NoCause
  <2> QED
    BY <1>0, <2>1, <2>2, <2>3 DEF Quiet, Sound, q, Request
<1>8. CASE CancelSettles(r)
  <2> DEFINE m == Settle(q, "client_cancel")
             p == [m EXCEPT !.cancelling = FALSE]
  <2>1. q.cancelling /\ req'[r] = p
    BY <1>8, <1>u DEF CancelSettles, q
  <2>2. q.stage = "streaming"
    BY <1>0, <2>1 DEF Core
  <2>3. "client_cancel" \in StreamCause
    BY DEF StreamCause, Cause, LocalCause
  <2>4. /\ Core(m) /\ Kept(q, m) /\ SameBut(q, m)
        /\ m.decision.outcome \in CleanEnd => Decided(q) /\ m.decision = q.decision
    BY <1>0, <2>2, <2>3, SettleKeeps
  <2>5. q.attempt = "pending" => m.attempt = "pending"
    BY DEF Settle
  <2> HIDE DEF m
  <2>6. m \in Request /\ m.stage = "streaming" /\ p.attempt = m.attempt
    BY <2>2, <2>4 DEF Core, SameBut, Request
  <2>7. Core(p)
    BY <2>4, <2>6 DEF Core, Request, Based, Decided
  <2>8. Frozen(p)
    BY <1>0, <2>1, <2>4, <2>6 DEF Core, Frozen, SameBut, Request
  <2>9. Earned(p) /\ Kept(q, p)
    BY <1>0, <2>4, <2>6 DEF Earned, Kept, SameBut, Request
  <2> QED
    BY <2>1, <2>4, <2>5, <2>6, <2>7, <2>8, <2>9 DEF Quiet, Sound, SameBut, q
<1>9. CASE Deadline(r)
  <2> DEFINE n == [q EXCEPT !.requestedCause = "deadline"]
             m == Settle(n, "deadline")
             end == IF m.downstream = "open" THEN "errored" ELSE m.downstream
             p == [m EXCEPT !.timer = FALSE, !.downstream = end]
  <2>1. q.timer /\ req'[r] = p
    BY <1>9, <1>u DEF Deadline, q
  <2>2. q.stage = "streaming"
    BY <1>0, <2>1 DEF Core
  <2>3. "deadline" \in StreamCause
    BY DEF StreamCause, Cause, LocalCause
  <2>4. Core(n) /\ n.requestedCause = "deadline" /\ n.stage = "streaming"
    BY <1>0, <2>2 DEF Core, Request, Based, Decided, LocalCause, NoCause
  <2>5. /\ n.decision = q.decision /\ n.attempt = q.attempt /\ n.charge = q.charge
        /\ n.ended = q.ended
    BY <1>0 DEF Request
  <2> HIDE DEF n
  <2>6. /\ Core(m) /\ Kept(n, m) /\ SameBut(n, m)
        /\ m.decision.outcome \in CleanEnd => Decided(n) /\ m.decision = n.decision
    BY <2>3, <2>4, SettleKeeps
  <2>7. n.attempt = "pending" => m.attempt = "pending"
    BY DEF Settle
  <2> HIDE DEF m
  <2>8. m \in Request /\ m.stage = "streaming" /\ m.requestedCause = "deadline"
    BY <2>4, <2>6 DEF Core, SameBut
  <2>9. /\ end \in {"open", "closed", "errored", "cancelled"}
        /\ end = "closed" => m.downstream = "closed"
    BY <2>8 DEF Request
  <2> HIDE DEF end
  <2>10. p.attempt = m.attempt /\ p.stage = "streaming"
    BY <2>8 DEF Request
  <2>11. Core(p)
    BY <2>6, <2>8, <2>9 DEF Core, Request, Based, Decided
  <2>12. Frozen(p)
    BY <2>8 DEF Frozen, Request, NoCause
  <2>13. Earned(p) /\ Kept(q, p)
    BY <1>0, <2>5, <2>6, <2>8 DEF Earned, Kept, SameBut, Decided, Request
  <2> QED
    BY <2>1, <2>5, <2>6, <2>7, <2>10, <2>11, <2>12, <2>13 DEF Quiet, Sound, SameBut, q
<1> QED
  BY <1>1, <1>2, <1>3, <1>4, <1>5, <1>6, <1>7, <1>8, <1>9 DEF RequestStep

\* The ledger's answer wakes a waiting pull: a confirmation fixes the charge,
\* a rejection frees the latch and keeps the decision.
LEMMA AnswerStep ==
  ASSUME NEW r \in Requests, req \in [Requests -> Request], Sound(req[r]),
         Confirmed(r) \/ Rejected(r)
  PROVE  /\ Sound(req'[r]) /\ Kept(req[r], req'[r]) /\ req'[r].stage = req[r].stage
         /\ req'[r].attempt = IF Confirmed(r) THEN "done" ELSE "none"
<1> DEFINE q == req[r]
<1>0. q \in Request /\ Core(q) /\ Frozen(q) /\ Earned(q) /\ q.attempt = "pending"
  BY DEF Sound, Core, Confirmed, Rejected
<1>u. \A x : Become(r, x) => req'[r] = x
  BY DEF Become
<1>d. Decided(q) /\ q.decision \in Decision /\ q.stage # "forwarding" /\ q.downstream # "closed"
  BY <1>0 DEF Core, Request, Decided
<1> HIDE DEF q
<1>1. CASE Confirmed(r)
  <2> DEFINE c == Lower(q.decision.cost, HoldMicros)
             n == q.counted + 1
             m == Woken(q, "closed")
             p == [m EXCEPT !.attempt = "done", !.charge = c, !.counted = n]
  <2>1. req'[r] = [m EXCEPT !.attempt = "done", !.charge = c, !.counted = m.counted + 1]
    BY <1>1, <1>u DEF Confirmed, q
  <2>2. c \in Nat /\ c <= HoldMicros
    BY <1>d, StreamAssumption DEF Lower, Decision
  <2>3. n = 1
    BY <1>0 DEF Core
  <2>4. /\ m \in Request /\ m.stage = q.stage /\ m.decision = q.decision /\ m.ended = q.ended
        /\ m.counted = q.counted /\ m.requestedCause = q.requestedCause
        /\ m.evidence = q.evidence /\ m.errored = q.errored
        /\ m.cancelling = q.cancelling /\ m.timer = q.timer
        /\ q.pull = "idle" => m.pull = "idle"
        /\ m.pull \in {"idle", "reading"}
        /\ q.pull \in {"closing", "failing"} => m.downstream # "open"
        /\ q.downstream # "open" => m.downstream # "open"
        /\ m.pull = "reading" => q.pull = "reading"
    BY <1>0 DEF Woken, Request
  <2> HIDE DEF m, c, n
  <2>5. req'[r] = p
    BY <2>1, <2>4 DEF n
  <2>6. /\ p \in Request /\ p.stage = q.stage /\ p.decision = q.decision /\ p.ended = q.ended
        /\ p.counted = 1 /\ p.requestedCause = q.requestedCause
        /\ p.evidence = q.evidence /\ p.errored = q.errored
        /\ p.cancelling = q.cancelling /\ p.timer = q.timer
        /\ p.pull = m.pull /\ p.downstream = m.downstream
        /\ p.attempt = "done" /\ p.charge = c
    BY <2>2, <2>3, <2>4 DEF Request
  <2> HIDE DEF p
  <2>7. Core(p)
    BY <1>0, <1>d, <2>2, <2>4, <2>6 DEF Core, Based, Decided, c
  <2>8. Frozen(p)
    BY <1>0, <1>d, <2>4, <2>6 DEF Frozen, Request
  <2>9. Earned(p) /\ Kept(q, p)
    BY <1>0, <1>d, <2>6 DEF Earned, Kept, Decided
  <2> QED
    BY <1>1, <2>5, <2>6, <2>7, <2>8, <2>9 DEF Sound, q
<1>2. CASE Rejected(r) /\ ~Confirmed(r)
  <2> DEFINE m == Woken(q, "errored")
             p == [m EXCEPT !.attempt = "none"]
  <2>1. req'[r] = p
    BY <1>2, <1>u DEF Rejected, q
  <2>2. /\ m \in Request /\ m.stage = q.stage /\ m.decision = q.decision /\ m.ended = q.ended
        /\ m.counted = q.counted /\ m.requestedCause = q.requestedCause
        /\ m.evidence = q.evidence /\ m.errored = q.errored /\ m.charge = q.charge
        /\ m.cancelling = q.cancelling /\ m.timer = q.timer
        /\ q.pull = "idle" => m.pull = "idle"
        /\ m.pull \in {"idle", "reading"}
        /\ q.pull \in {"closing", "failing"} => m.downstream # "open"
        /\ q.downstream # "open" => m.downstream # "open"
        /\ m.pull = "reading" => q.pull = "reading"
        /\ m.downstream # "closed"
    BY <1>0, <1>d DEF Woken, Request
  <2> HIDE DEF m
  <2>3. /\ p \in Request /\ p.stage = q.stage /\ p.decision = q.decision /\ p.ended = q.ended
        /\ p.counted = q.counted /\ p.requestedCause = q.requestedCause
        /\ p.evidence = q.evidence /\ p.errored = q.errored /\ p.charge = q.charge
        /\ p.cancelling = q.cancelling /\ p.timer = q.timer
        /\ p.pull = m.pull /\ p.downstream = m.downstream /\ p.attempt = "none"
    BY <2>2 DEF Request
  <2> HIDE DEF p
  <2>4. Core(p)
    BY <1>0, <1>d, <2>2, <2>3 DEF Core, Based, Decided
  <2>5. Frozen(p)
    BY <1>0, <1>d, <2>2, <2>3 DEF Frozen, Request
  <2>6. Earned(p) /\ Kept(q, p)
    BY <1>0, <1>d, <2>3 DEF Earned, Kept, Decided
  <2> QED
    BY <1>2, <2>1, <2>3, <2>4, <2>5, <2>6 DEF Sound, q
<1> QED
  BY <1>1, <1>2

\* The drain settles a registered stream, and one that was undecided stops.
LEMMA DrainStep ==
  ASSUME NEW q, Sound(q), q.stage = "streaming"
  PROVE  Quiet(q, DrainSettle(q)) /\ DrainSettle(q).attempt # "none"
         /\ DrainSettle(q).stage = "streaming"
<1> DEFINE m == Settle(q, "shutdown_drain")
<1>0. q \in Request /\ Core(q) /\ Frozen(q) /\ Earned(q)
  BY DEF Sound, Core
<1>1. "shutdown_drain" \in StreamCause
  BY DEF StreamCause, Cause, LocalCause
<1>2. /\ Core(m) /\ Kept(q, m) /\ SameBut(q, m) /\ m.attempt # "none"
      /\ m.decision.outcome \in CleanEnd => Decided(q) /\ m.decision = q.decision
  BY <1>0, <1>1, SettleKeeps
<1>3. q.attempt = "pending" => m.attempt = "pending"
  BY DEF Settle
<1>4. Earned(m)
  BY <1>0, <1>2 DEF Earned, SameBut
<1> HIDE DEF m
<1>5. CASE q.attempt # "none" \/ Decided(q)
  <2>1. DrainSettle(q) = m
    BY <1>5 DEF DrainSettle, m
  <2>2. Frozen(m)
    BY <1>0, <1>2, <1>5 DEF Core, Frozen, SameBut
  <2> QED
    BY <1>2, <1>3, <1>4, <2>1, <2>2 DEF Quiet, Sound, SameBut
<1>6. CASE ~(q.attempt # "none" \/ Decided(q))
  <2> DEFINE end == IF m.downstream = "open" THEN "errored" ELSE m.downstream
             p == [m EXCEPT !.requestedCause = "shutdown_drain", !.downstream = end]
  <2>1. DrainSettle(q) = p
    BY <1>6 DEF DrainSettle, m
  <2>2. m \in Request /\ m.stage = "streaming"
    BY <1>2 DEF Core, SameBut
  <2>3. /\ end \in {"open", "closed", "errored", "cancelled"}
        /\ end = "closed" => m.downstream = "closed"
    BY <2>2 DEF Request
  <2> HIDE DEF end
  <2>4. p.attempt = m.attempt /\ p.stage = "streaming"
    BY <2>2 DEF Request
  <2>5. Core(p)
    BY <1>2, <2>2, <2>3 DEF Core, Request, Based, Decided, LocalCause, NoCause
  <2>6. Frozen(p) /\ Earned(p) /\ Kept(q, p)
    BY <1>2, <1>4, <2>2 DEF Frozen, Earned, Kept, Request, NoCause
  <2> QED
    BY <1>2, <1>3, <2>1, <2>4, <2>5, <2>6 DEF Quiet, Sound, SameBut
<1> QED
  BY <1>5, <1>6

-----------------------------------------------------------------------------
(* The registry and the drain *)

Registered == {r \in Requests : req[r].stage = "streaming" /\ ~Settled(r)}

\* Nobody is lost before the drain has begun to wait.
LEMMA LostIsFinite ==
  ASSUME stragglers \subseteq Requests
  PROVE  IsFiniteSet(Lost) /\ Cardinality(Lost) \in Nat
BY StreamAssumption, FS_Subset, FS_CardinalityType DEF Lost

LEMMA InitIInv == Init => IInv
<1> SUFFICES ASSUME Init PROVE IInv
  OBVIOUS
<1>1. Sound(Forwarding)
  <2>1. Forwarding \in Request
    BY DEF Forwarding, Request, Evidence, Nothing, Worked, NoCause, NoCharge
  <2>2. Core(Forwarding)
    BY <2>1, StreamAssumption DEF Core, Forwarding, Based, NoCharge
  <2> QED
    BY <2>2, UndecidedIsNone DEF Sound, Frozen, Earned, Forwarding
<1>2. \A r \in Requests : Sound(req[r])
  BY <1>1 DEF Init
<1>3. TypeOK
  <2>1. req \in [Requests -> Request] /\ \A r \in Requests : req[r].charge <= HoldMicros
    BY <1>1, <1>2 DEF Init, Sound, Core
  <2>2. {r \in Requests : req[r].stage = "streaming" /\ ~Settled(r)} = {}
    BY DEF Init, Forwarding
  <2>3. rejects \in 0 .. MaxRejects
    BY StreamAssumption DEF Init
  <2> QED
    BY <2>1, <2>2, <2>3 DEF Init, TypeOK
<1> QED
  BY <1>2, <1>3 DEF IInv, Init

\* An event of the fetch or the stream keeps the registry exact.
LEMMA EventKeeps ==
  ASSUME IInv, NEW r \in Requests, RequestStep(r), ~Confirmed(r), ~Rejected(r)
  PROVE  IInv' /\ \A s \in Requests : Kept(req[s], req'[s])
<1> DEFINE q == req[r]
           p == req'[r]
<1>0. /\ req \in [Requests -> Request] /\ inflight = Registered
      /\ \A s \in Requests : Sound(req[s])
  BY DEF IInv, TypeOK, Registered
<1>1. Quiet(q, p)
  BY <1>0, HandlerStep
<1>2. /\ req' = [req EXCEPT ![r] = p]
      /\ UNCHANGED <<stragglers, awaited, process, rejects>>
  BY <1>0
  DEF RequestStep, StreamStarts, Buffered, Pull, Chunk, ReadDone, ReadFails, Cancel,
      CancelSettles, Deadline, Become, drain
<1>3. inflight' = IF p.stage = "streaming" /\ ~Settled(r) THEN inflight \cup {r}
                  ELSE inflight \ {r}
  <2>1. CASE StreamStarts(r)
    <3>1. q.stage = "forwarding" /\ p.stage = "streaming" /\ inflight' = inflight \cup {r}
      BY <1>0, <2>1 DEF StreamStarts, Become, Request
    <3>2. q.attempt = "none"
      BY <1>0, <3>1 DEF Sound, Core
    <3> QED
      BY <3>1, <3>2 DEF Settled
  <2>2. CASE ~StreamStarts(r)
    <3>1. inflight' = inflight
      BY <2>2
      DEF RequestStep, Buffered, Pull, Chunk, ReadDone, ReadFails, Cancel, CancelSettles, Deadline
    <3>2. p.stage = "streaming" <=> q.stage = "streaming"
      <4>1. CASE Buffered(r)
        BY <1>0, <4>1 DEF Buffered, Become, Request, Sound, Core
      <4>2. CASE ~Buffered(r)
        BY <1>0, <1>1, <2>2, <4>2
        DEF RequestStep, Pull, Chunk, ReadDone, ReadFails, Cancel, CancelSettles, Deadline,
            Quiet, Sound, Core
      <4> QED
        BY <4>1, <4>2
    <3> QED
      BY <1>0, <3>1, <3>2 DEF Registered
  <2> QED
    BY <2>1, <2>2
<1>4. /\ \A s \in Requests : Sound(req'[s]) /\ Kept(req[s], req'[s])
      /\ \A s \in Requests : Settled(s)' <=> Settled(s)
      /\ \A s \in Requests : req[s].attempt = "pending" => req'[s].attempt = "pending"
  BY <1>0, <1>1, <1>2 DEF Quiet, Kept, Settled
<1>5. inflight' = Registered'
  BY <1>0, <1>2, <1>3, <1>4 DEF Registered
<1>6. Lost' = Lost
  BY <1>2, <1>4, <1>0 DEF Lost, IInv, TypeOK
<1>7. TypeOK'
  <2>1. req' \in [Requests -> Request] /\ \A s \in Requests : req'[s].charge <= HoldMicros
    BY <1>0, <1>2, <1>4 DEF Sound, Core
  <2> QED
    BY <1>2, <1>4, <1>5, <2>1 DEF IInv, TypeOK, Registered
<1> QED
  BY <1>2, <1>4, <1>6, <1>7 DEF IInv

\* The ledger's answer takes a settled stream off the registry, and a drain
\* loses at most one straggler for every rejection.
LEMMA AnswerKeeps ==
  ASSUME IInv, NEW r \in Requests, Confirmed(r) \/ Rejected(r)
  PROVE  IInv' /\ \A s \in Requests : Kept(req[s], req'[s])
<1> DEFINE q == req[r]
           p == req'[r]
<1>0. /\ req \in [Requests -> Request] /\ inflight = Registered
      /\ \A s \in Requests : Sound(req[s])
      /\ q.attempt = "pending" /\ process # "exited"
      /\ stragglers \subseteq Requests /\ rejects \in Nat
  BY StreamAssumption DEF IInv, TypeOK, Registered, Confirmed, Rejected, Running
<1>1. /\ Sound(p) /\ Kept(q, p) /\ p.stage = q.stage
      /\ p.attempt = IF Confirmed(r) THEN "done" ELSE "none"
  BY <1>0, AnswerStep
<1>2. /\ req' = [req EXCEPT ![r] = p]
      /\ awaited' = awaited \ {r}
      /\ UNCHANGED <<stragglers, process>>
  BY <1>0 DEF Confirmed, Rejected, Become
<1>3. IF Confirmed(r) THEN inflight' = inflight \ {r} /\ rejects' = rejects
      ELSE inflight' = inflight /\ rejects' = rejects + 1 /\ rejects < MaxRejects
  BY DEF Confirmed, Rejected
<1>4. /\ \A s \in Requests : Sound(req'[s]) /\ Kept(req[s], req'[s])
      /\ \A s \in Requests \ {r} : req'[s] = req[s]
  BY <1>0, <1>1, <1>2 DEF Kept
<1>5. TypeOK'
  <2>1. req' \in [Requests -> Request] /\ \A s \in Requests : req'[s].charge <= HoldMicros
    BY <1>0, <1>2, <1>4 DEF Sound, Core
  <2>2. inflight' = Registered'
    BY <1>0, <1>1, <1>3, <1>4 DEF Registered, Settled
  <2>3. awaited' \subseteq {s \in stragglers' : req'[s].attempt = "pending"}
    BY <1>0, <1>2, <1>4 DEF IInv, TypeOK
  <2>4. rejects' \in 0 .. MaxRejects
    BY <1>0, <1>3, StreamAssumption DEF IInv, TypeOK
  <2> QED
    BY <1>2, <2>1, <2>2, <2>3, <2>4 DEF IInv, TypeOK, Registered
<1>6. Cardinality(Lost') <= Cardinality(Lost) + (IF Confirmed(r) THEN 0 ELSE 1)
  <2>1. IsFiniteSet(Lost) /\ Cardinality(Lost) \in Nat
    BY <1>0, LostIsFinite
  <2>2. CASE Confirmed(r)
    <3>1. Lost' \subseteq Lost
      BY <1>0, <1>1, <1>2, <1>4, <2>2 DEF Lost, Settled
    <3>2. Cardinality(Lost') <= Cardinality(Lost)
      BY <2>1, <3>1, FS_Subset
    <3> QED
      BY <2>1, <2>2, <3>2
  <2>3. CASE ~Confirmed(r)
    <3>1. Lost' \subseteq Lost \cup {r}
      BY <1>0, <1>1, <1>2, <1>4, <2>3 DEF Lost, Settled
    <3>2. /\ IsFiniteSet(Lost \cup {r})
          /\ Cardinality(Lost \cup {r}) \in Nat
          /\ Cardinality(Lost \cup {r}) <= Cardinality(Lost) + 1
      BY <2>1, FS_AddElement, FS_CardinalityType
    <3>3. Cardinality(Lost') <= Cardinality(Lost \cup {r}) /\ Cardinality(Lost') \in Nat
      BY <3>1, <3>2, FS_Subset, FS_CardinalityType
    <3> QED
      BY <2>1, <2>3, <3>2, <3>3
  <2> QED
    BY <2>2, <2>3
<1>7. process' \in {"settling", "exited"} => Cardinality(Lost') <= rejects'
  <2>1. Cardinality(Lost) \in Nat
    BY <1>0, LostIsFinite
  <2>2. stragglers' \subseteq Requests
    BY <1>0, <1>2
  <2>3. Cardinality(Lost') \in Nat
    BY <2>2, LostIsFinite, <1>5, StreamAssumption, FS_Subset, FS_CardinalityType DEF Lost
  <2> QED
    BY <1>0, <1>2, <1>3, <1>6, <2>1, <2>3 DEF IInv
<1> QED
  BY <1>0, <1>2, <1>4, <1>5, <1>7 DEF IInv

\* SIGTERM, the drain and the exit of the process.
LEMMA ProcessKeeps ==
  ASSUME IInv, ProcessStep
  PROVE  IInv' /\ \A s \in Requests : Kept(req[s], req'[s])
<1>0. /\ req \in [Requests -> Request] /\ inflight = Registered
      /\ \A s \in Requests : Sound(req[s]) /\ Kept(req[s], req[s])
      /\ rejects \in Nat
  BY StreamAssumption DEF IInv, TypeOK, Registered, Kept
<1>1. CASE SigTerm
  BY <1>0, <1>1 DEF SigTerm, IInv, TypeOK, drain, Settled
<1>2. CASE DrainStragglers
  <2>1. /\ req' = [s \in Requests |-> IF s \in Registered THEN DrainSettle(req[s]) ELSE req[s]]
        /\ process' = "settling"
        /\ stragglers' = Registered /\ awaited' = Registered
        /\ inflight' = Registered /\ rejects' = rejects
    BY <1>0, <1>2 DEF DrainStragglers
  <2>2. \A s \in Registered : s \in Requests /\ Quiet(req[s], req'[s])
                              /\ req'[s].attempt # "none" /\ req'[s].stage = "streaming"
    BY <1>0, <2>1, DrainStep DEF Registered
  <2>3. \A s \in Requests \ Registered : req'[s] = req[s]
    BY <2>1
  <2>4. \A s \in Requests : Sound(req'[s]) /\ Kept(req[s], req'[s])
    BY <1>0, <2>2, <2>3 DEF Quiet
  <2>5. req' \in [Requests -> Request] /\ \A s \in Requests : req'[s].charge <= HoldMicros
    BY <2>1, <2>4 DEF Sound, Core
  <2>6. \A s \in Registered : req'[s].attempt = "pending"
    <3>1. \A s \in Registered : /\ req'[s].attempt # "done"
                                /\ req'[s].attempt \in {"none", "pending", "done"}
      BY <2>2, <2>5 DEF Quiet, Registered, Settled, Request
    <3> QED
      BY <2>2, <3>1
  <2>7. Registered' = Registered
    BY <2>2, <2>3, <2>6 DEF Registered, Settled
  <2>8. TypeOK'
    BY <2>1, <2>5, <2>6, <2>7 DEF IInv, TypeOK, Registered
  <2>9. Lost' = {}
    BY <2>1 DEF Lost
  <2>10. Cardinality(Lost') <= rejects'
    BY <1>0, <2>1, <2>9, FS_EmptySet
  <2> QED
    BY <2>1, <2>4, <2>8, <2>10 DEF IInv
<1>3. CASE Exit
  <2>1. Lost' = Lost
    BY <1>3 DEF Exit, drain, Lost, Settled
  <2> QED
    BY <1>0, <1>3, <2>1 DEF Exit, drain, IInv, TypeOK, Settled
<1> QED
  BY <1>1, <1>2, <1>3 DEF ProcessStep

LEMMA NextIInv ==
  IInv /\ [Next]_vars => IInv' /\ \A s \in Requests : Kept(req[s], req'[s])
<1> SUFFICES ASSUME IInv, [Next]_vars
             PROVE  IInv' /\ \A s \in Requests : Kept(req[s], req'[s])
  OBVIOUS
<1>1. CASE ProcessStep
  BY <1>1, ProcessKeeps
<1>2. ASSUME NEW r \in Requests, RequestStep(r)
      PROVE  IInv' /\ \A s \in Requests : Kept(req[s], req'[s])
  BY <1>2, EventKeeps, AnswerKeeps
<1>3. CASE UNCHANGED vars
  <2>1. Lost' = Lost
    BY <1>3 DEF vars, drain, Lost, Settled
  <2> QED
    BY <1>3, <2>1 DEF vars, drain, IInv, TypeOK, Settled, Kept
<1> QED
  BY <1>1, <1>2, <1>3 DEF Next

-----------------------------------------------------------------------------
(* What holds of every run *)

(* Every handler's record stays sound: latch, decision, charge and count   *)
(* go together, and the registry is exactly the unsettled streams.         *)
THEOREM StreamInvariant == Spec => []IInv
<1> QED BY InitIInv, NextIInv, PTL DEF Spec

(* Every variable of a handler keeps its type, no charge exceeds its hold, *)
(* and the registry is what shutdown believes it is.                       *)
THEOREM StreamTypeOK == Spec => []TypeOK
<1>1. IInv => TypeOK
  BY DEF IInv
<1> QED BY <1>1, StreamInvariant, PTL

(* A settled stream is charged by its evidence: work is paid for, and a    *)
(* failure or a drain without work is free.                                *)
LEMMA ChargedAsEarned == IInv => ChargeFollowsEvidence
<1> SUFFICES ASSUME IInv, NEW r \in Requests, req[r].stage = "streaming", Settled(r)
             PROVE  /\ req[r].evidence = Worked => req[r].charge > 0
                    /\ (req[r].errored
                          \/ req[r].decision.cause \in {"upstream_error", "shutdown_drain"})
                       /\ req[r].evidence # Worked => req[r].charge = 0
  BY DEF ChargeFollowsEvidence
<1> DEFINE q == req[r]
           d == decideStreamSettlement(q.decision.cause, q.evidence, q.errored)
<1>1. Core(q) /\ q \in Request
  BY DEF IInv, Sound, Core
<1>2. q.decision = d /\ q.decision.cause \in StreamCause
      /\ q.charge = Lower(q.decision.cost, HoldMicros)
  BY <1>1 DEF Core, Based, Settled
<1>3. q.evidence \in Evidence /\ q.errored \in BOOLEAN
  BY <1>1 DEF Request
<1>4. Fair(q.decision, q.decision.cause, q.evidence, q.errored)
  BY <1>2, <1>3, DecisionTable
<1>5. HoldMicros \in Nat /\ HoldMicros > 0
  BY StreamAssumption
<1> HIDE DEF d
<1> QED
  BY <1>2, <1>4, <1>5 DEF Fair, Lower, Decision

(* However the ends of a request race, it is counted once, served only at  *)
(* its own end, closed only when charged and charged by what the client    *)
(* got; and an exited process lost no straggler but by a rejection.        *)
THEOREM StreamEndsAgree == Spec => []EndsAgree
<1>1. IInv => CountedOnce /\ CutShortIsNotServed /\ CloseMeansCharged
  BY DEF IInv, Sound, Core, Earned, CleanEnd, CountedOnce, CutShortIsNotServed,
         CloseMeansCharged, Settled
<1>2. IInv => StragglersAnswered
  <2> SUFFICES ASSUME IInv, process = "exited"
               PROVE  Cardinality({r \in stragglers : ~Settled(r)}) <= rejects
    BY DEF StragglersAnswered
  <2>1. {r \in stragglers : ~Settled(r)} = Lost
    BY DEF IInv, Lost
  <2> QED
    BY <2>1 DEF IInv
<1>3. IInv => EndsAgree
  BY <1>1, <1>2, ChargedAsEarned DEF EndsAgree
<1> QED BY <1>3, StreamInvariant, PTL

(* The first terminal event fixes the decision, and a confirmed charge     *)
(* stays, whatever comes later.                                            *)
THEOREM StreamDecisionIsFinal == Spec => DecisionIsFinal
<1>1. IInv /\ [Next]_vars =>
        [\A r \in Requests :
           /\ req[r].decision # Undecided => req'[r].decision = req[r].decision
           /\ Settled(r) => req'[r].charge = req[r].charge]_vars
  BY NextIInv DEF Kept, Decided, Settled
<1> QED BY <1>1, StreamInvariant, PTL DEF Spec, DecisionIsFinal
=============================================================================
