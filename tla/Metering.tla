------------------------------ MODULE Metering ------------------------------
(***************************************************************************)
(* Metered requests against the ledger process: proxy boots, one after the *)
(* other (core/src/proxy.ts), each with its ledger client                  *)
(* (core/src/ledger/client.ts), the Unix socket between them, and the      *)
(* socket server (core/src/ledger/server.ts) in front of Ledger.           *)
(*                                                                         *)
(* A mutation's payload is built once.  An attempt whose answer does not   *)
(* arrive may or may not have committed and may still commit later, so the *)
(* client sends the same payload again until an answer is definite or its  *)
(* time is up; then the process exits.  A message stays on the wire until  *)
(* the ledger takes it, also after its sender has died; a lost one is one  *)
(* that is never taken.                                                    *)
(***************************************************************************)
EXTENDS Integers, FiniteSets, Functions

CONSTANTS
  Hashes, Sessions, HoldIds, CreditKeys, MaxSafeInteger, NoSession,
  Micros,       \* amounts of holds and of bills
  Payments,     \* amounts of credits
  MaxAttempts,  \* bound: attempts of one call before its time is up
  NoReply

(* A boot and a request are never confused, an answer is not the lack of    *)
(* one, and the amounts the proxies and the payments name are safe.        *)
ASSUME MeteringAssumption ==
  /\ Sessions \cap HoldIds = {} /\ IsFiniteSet(HoldIds) /\ NoSession \notin Sessions
  /\ MaxSafeInteger \in Nat
  /\ Micros \subseteq Int /\ \A micros \in Micros : micros <= MaxSafeInteger
  /\ Payments \subseteq 0 .. MaxSafeInteger
  /\ MaxAttempts \in Nat \ {0}
  /\ NoReply \notin
       {"started", "current", "stale_session", "opened", "already_open", "unknown_token",
        "insufficient_balance", "settled", "already_settled", "unknown_hold", "conflict",
        "invalid_amount", "invalid_charge"}

VARIABLES
  tokens, applied_orders, holds, ledger_session, retired, settled_holds,
  credited, charged, debits, tenures,
  proxy,    \* boot session -> unborn, starting, serving or dead
  request,  \* hold_id -> a metered request past its gates
  call,     \* caller -> its outstanding call: attempt, payload, reply
  wire      \* attempts the ledger has not taken yet

store == <<tokens, applied_orders, holds, ledger_session, retired, settled_holds,
           credited, charged, debits, tenures>>
vars == <<store, proxy, request, call, wire>>

Store == INSTANCE Ledger

-----------------------------------------------------------------------------
Callers == Sessions \cup HoldIds
Finished == {"denied", "settled", "failed", "lost"}
Live(s) == proxy[s] \in {"starting", "serving"}
SessionOf(c) == IF c \in Sessions THEN c ELSE request[c].session
At(id, step) == id \in DOMAIN request /\ request[id].step = step
Awaits(c) == c \in DOMAIN call
Reply(c) == call[c].reply

Init ==
  /\ Store!Init
  /\ proxy = [s \in Sessions |-> "unborn"]
  /\ request = Store!EmptyTable
  /\ call = Store!EmptyTable
  /\ wire = {}

-----------------------------------------------------------------------------
(* The client's call(): one outstanding attempt of an immutable payload.   *)
Attempt(c, n, payload) == [caller |-> c, attempt |-> n, payload |-> payload]

Call(c, payload) ==
  /\ call' = Store!Upsert(call, c, [attempt |-> 1, payload |-> payload, reply |-> NoReply])
  /\ wire' = wire \cup {Attempt(c, 1, payload)}

Return(c) == call' = Store!Delete(call, c)

\* No definite answer in time, or one of the server's 500s: try again.
Retry(c) ==
  /\ Awaits(c) /\ call[c].attempt < MaxAttempts
  /\ call' = [call EXCEPT ![c].attempt = @ + 1, ![c].reply = NoReply]
  /\ wire' = wire \cup {Attempt(c, call[c].attempt + 1, call[c].payload)}
  /\ UNCHANGED <<store, proxy, request>>

\* The process exits: its requests and its calls go with it, its messages do not.
Exit(s) ==
  /\ proxy' = [proxy EXCEPT ![s] = "dead"]
  /\ request' = [id \in DOMAIN request |->
       IF request[id].session = s /\ request[id].step \notin Finished
       THEN [request[id] EXCEPT !.step = "lost"] ELSE request[id]]
  /\ call' = [c \in {c \in DOMAIN call : SessionOf(c) # s} |-> call[c]]
  /\ UNCHANGED <<store, wire>>

\* Mutant: only the startup barrier has a time limit.
GiveUpStartOnly(c) ==
  c \in Sessions /\ Awaits(c) /\ call[c].attempt = MaxAttempts /\ Exit(SessionOf(c))

\* failFatal: the mutation is still indeterminate when its time is up.
GiveUp(c) == Awaits(c) /\ call[c].attempt = MaxAttempts /\ Exit(SessionOf(c))

\* failFatal and fatalProtocol: a definite answer no operation expects.
FatalReply(c) ==
  /\ Awaits(c)
  /\ Reply(c) \in {"stale_session", "conflict", "invalid_amount", "invalid_charge"}
  /\ Exit(SessionOf(c))

-----------------------------------------------------------------------------
(* The proxy process *)

\* systemd restarts the one proxy unit; a boot has a fresh session and serves
\* nothing before startSession has a definite answer.
Boot(s) ==
  /\ proxy[s] = "unborn" /\ \A t \in Sessions : ~Live(t)
  /\ proxy' = [proxy EXCEPT ![s] = "starting"]
  /\ Call(s, [op |-> "start_session", session |-> s])
  /\ UNCHANGED <<store, request>>

Serve(s) ==
  /\ Awaits(s) /\ Reply(s) \in {"started", "current"}
  /\ proxy' = [proxy EXCEPT ![s] = "serving"]
  /\ Return(s)
  /\ UNCHANGED <<store, request, wire>>

Crash(s) == Live(s) /\ Exit(s)

\* getBalance of a session the ledger no longer knows as current.
StaleRead(s) ==
  /\ proxy[s] = "serving"
  /\ \E hash \in Hashes : Store!getSessionBalance(s, hash).stale
  /\ Exit(s)

\* handleMetered up to the balance gate, which only reads.
Admit(s, id, hash) ==
  /\ proxy[s] = "serving" /\ id \notin DOMAIN request
  /\ LET read == Store!getSessionBalance(s, hash) IN ~read.stale /\ read.balance > 0
  /\ request' = Store!Upsert(request, id,
       [step |-> "admitted", session |-> s, hash |-> hash, micros |-> 0, charge |-> 0])
  /\ UNCHANGED <<store, proxy, call, wire>>

\* The estimate is in and the hold is asked for; the balance may have moved since.
OpenHold(id, micros) ==
  /\ At(id, "admitted")
  /\ request' = [request EXCEPT ![id].step = "opening", ![id].micros = micros]
  /\ Call(id, [op |-> "open_hold", session |-> request[id].session,
               hash |-> request[id].hash, micros |-> micros])
  /\ UNCHANGED <<store, proxy>>

Step(id, step) == request' = [request EXCEPT ![id].step = step]

\* Mutant: the call is not taken off the outstanding ones.
HoldOpenedTwice(id) ==
  /\ Awaits(id) /\ Reply(id) \in {"opened", "already_open"}
  /\ Step(id, "held")
  /\ UNCHANGED <<store, proxy, call, wire>>

HoldOpened(id) ==
  /\ Awaits(id) /\ Reply(id) \in {"opened", "already_open"}
  /\ Step(id, "held") /\ Return(id)
  /\ UNCHANGED <<store, proxy, wire>>

HoldDenied(id) ==
  /\ Awaits(id) /\ Reply(id) \in {"unknown_token", "insufficient_balance"}
  /\ Step(id, "denied") /\ Return(id)
  /\ UNCHANGED <<store, proxy, wire>>

\* Mutant: no floor at zero.
SettleHoldUnclamped(id, actual) ==
  /\ At(id, "held")
  /\ request' = [request EXCEPT ![id].step = "settling", ![id].charge = actual]
  /\ Call(id, [op |-> "settle_hold", session |-> request[id].session, charge |-> actual])
  /\ UNCHANGED <<store, proxy>>

\* billActual: the charge is clamped to [0, hold] and never changes afterwards.
SettleHold(id, actual) ==
  /\ At(id, "held")
  /\ LET charge == IF actual < 0 THEN 0
                   ELSE IF actual > request[id].micros THEN request[id].micros ELSE actual
     IN  /\ request' = [request EXCEPT ![id].step = "settling", ![id].charge = charge]
         /\ Call(id, [op |-> "settle_hold", session |-> request[id].session,
                      charge |-> charge])
  /\ UNCHANGED <<store, proxy>>

\* Mutant: any definite answer completes the request.
HoldSettledAnyway(id) ==
  /\ Awaits(id) /\ At(id, "settling") /\ Reply(id) # NoReply
  /\ Step(id, "settled") /\ Return(id)
  /\ UNCHANGED <<store, proxy, wire>>

\* true completes the request, false (unknown_hold) fails it.
HoldSettled(id) ==
  /\ Awaits(id) /\ Reply(id) \in {"settled", "already_settled", "unknown_hold"}
  /\ Step(id, IF Reply(id) = "unknown_hold" THEN "failed" ELSE "settled")
  /\ Return(id)
  /\ UNCHANGED <<store, proxy, wire>>

-----------------------------------------------------------------------------
(* The ledger takes one attempt off the wire; its answer reaches the caller *)
(* only if that attempt is still the one being waited for.                  *)
Answer(m, outcome) ==
  /\ wire' = wire \ {m}
  /\ call' = IF Awaits(m.caller) /\ call[m.caller].attempt = m.attempt
                                 /\ call[m.caller].payload = m.payload
             THEN [call EXCEPT ![m.caller].reply = outcome] ELSE call
  /\ UNCHANGED <<proxy, request>>

TakeStartSession(m) ==
  /\ m.payload.op = "start_session"
  /\ Store!BeginSession(m.payload.session)
  /\ Answer(m, Store!BeginOutcome(m.payload.session))

TakeOpenHold(m) ==
  /\ m.payload.op = "open_hold"
  /\ LET p == m.payload
     IN  /\ Store!OpenSessionHold(p.session, p.hash, p.micros, m.caller)
         /\ Answer(m, Store!OpenOutcome(p.session, p.hash, p.micros, m.caller))

TakeSettleHold(m) ==
  /\ m.payload.op = "settle_hold"
  /\ LET p == m.payload
     IN  /\ Store!SettleSessionHold(p.session, m.caller, p.charge)
         /\ Answer(m, Store!SettleOutcome(p.session, m.caller, p.charge))

\* A payment arrives over the other socket.
Pay(hash, micros, key) ==
  Store!ApplyCredit(hash, micros, key) /\ UNCHANGED <<proxy, request, call, wire>>

-----------------------------------------------------------------------------
Client(c) == Retry(c) \/ GiveUp(c) \/ FatalReply(c)
ProxyStep(s) == Boot(s) \/ Serve(s) \/ StaleRead(s)
Answered(id) == HoldOpened(id) \/ HoldDenied(id) \/ HoldSettled(id)
Take(m) == TakeStartSession(m) \/ TakeOpenHold(m) \/ TakeSettleHold(m)

Next ==
  \/ \E c \in Callers : Client(c)
  \/ \E s \in Sessions : ProxyStep(s) \/ Crash(s)
  \/ \E s \in Sessions, id \in HoldIds, hash \in Hashes : Admit(s, id, hash)
  \/ \E id \in HoldIds, micros \in Micros \cap Nat : OpenHold(id, micros)
  \/ \E id \in HoldIds : Answered(id)
  \/ \E id \in HoldIds, actual \in Micros : SettleHold(id, actual)
  \/ \E m \in wire : Take(m)
  \/ \E hash \in Hashes, micros \in Payments, key \in CreditKeys :
       Pay(hash, micros, key)

Spec == Init /\ [][Next]_vars

(* Fairness.  systemd restarts the proxy (Restart=always) and a boot starts *)
(* by itself; a client's call goes on by its own timers and a held request *)
(* is settled by the end of its response or by the settle deadline.        *)
(* Nothing is assumed of the ledger's speed, of the wire or of clients.    *)
Fairness ==
  /\ WF_vars(\E s \in Sessions : Boot(s))
  /\ \A s \in Sessions : WF_vars(Serve(s))
  /\ \A c \in Callers : WF_vars(Client(c))
  /\ \A id \in HoldIds :
       WF_vars(Answered(id)) /\ WF_vars(\E actual \in Micros : SettleHold(id, actual))

FairSpec == Spec /\ Fairness

-----------------------------------------------------------------------------
Request ==
  [step : {"admitted", "opening", "held", "settling"} \cup Finished,
   session : Sessions, hash : Hashes, micros : Nat, charge : Nat]
Replies ==
  {NoReply, "started", "current", "stale_session", "opened", "already_open",
   "unknown_token", "insufficient_balance", "settled", "already_settled",
   "unknown_hold", "conflict", "invalid_amount", "invalid_charge"}

(* Every table is well formed: a live call belongs to a request or a boot  *)
(* that waits for it, and nothing dead waits for anything.                 *)
TypeOK ==
  /\ Store!TypeOK
  /\ proxy \in [Sessions -> {"unborn", "starting", "serving", "dead"}]
  /\ Store!IsTable(request, HoldIds, Request)
  /\ DOMAIN call = {s \in Sessions : proxy[s] = "starting"} \cup
                   {id \in DOMAIN request : request[id].step \in {"opening", "settling"}}
  /\ \A c \in DOMAIN call :
       /\ call[c].attempt \in 1 .. MaxAttempts
       /\ Reply(c) \in Replies
       /\ call[c].payload.session = SessionOf(c)
  /\ \A m \in wire : m.caller \in Callers /\ m.attempt \in 1 .. MaxAttempts

(* What the proxy was told and what the ledger has recorded agree, through *)
(* retries, reordering, delayed attempts and restarts.  A definite answer  *)
(* is one the operation expects: client.ts would exit on conflict or       *)
(* invalid, and billActual would fail the request on unknown_hold.  While  *)
(* its boot is current, a request that was told its hold is open has the   *)
(* very row it asked for until its settlement commits, and one that was    *)
(* told it is settled has the tombstone of its charge.  And a token is     *)
(* charged what its settled requests were told, and no more than that plus *)
(* the charges still unanswered or lost with their proxy.                  *)
NoProtocolFailure ==
  \A c \in DOMAIN call :
    Reply(c) \notin {"conflict", "unknown_hold", "invalid_amount", "invalid_charge"}
Journalled(id) ==
  LET r == request[id] IN
    /\ id \in DOMAIN holds
    /\ holds[id] = [hash |-> r.hash, micros |-> r.micros, session_id |-> r.session]
Tombstoned(id) ==
  /\ id \in DOMAIN settled_holds
  /\ settled_holds[id] =
       [session_id |-> request[id].session, charged_micros |-> request[id].charge]
HeldIsJournalled ==
  \A id \in DOMAIN request :
    request[id].session = Store!currentSession =>
      CASE request[id].step = "held" -> Journalled(id)
        [] request[id].step = "settling" -> Journalled(id) \/ Tombstoned(id)
        [] request[id].step = "settled" -> Tombstoned(id)
        [] OTHER -> TRUE
ChargesOf(hash, steps) ==
  SumFunctionOnSet([id \in DOMAIN request |-> request[id].charge],
                   {id \in DOMAIN request :
                      request[id].hash = hash /\ request[id].step \in steps})
BilledAsDecided ==
  \A hash \in Hashes :
    /\ ChargesOf(hash, {"settled"}) <= charged[hash]
    /\ charged[hash] <= ChargesOf(hash, {"settled", "settling", "lost"})
RequestsMatchJournal == NoProtocolFailure /\ HeldIsJournalled /\ BilledAsDecided

(* Metering keeps the promise of PrepaidAccounts to the token's owner: with *)
(* retries, delayed attempts, crashes and session starts, a request id     *)
(* still reserves once, from money that is there, and closes once.         *)
Accounts == INSTANCE PrepaidAccounts WITH
  Tokens <- Hashes, Requests <- HoldIds, MaxMicros <- MaxSafeInteger,
  account <- tokens,
  lien <- [id \in DOMAIN holds |-> [token |-> holds[id].hash, micros |-> holds[id].micros]],
  closed <- {id \in HoldIds \ DOMAIN holds : \E s \in Sessions : debits[s][id] > 0},
  spent <- charged
ImplementsAccounts == Accounts!Spec

(* A hold that outlives its proxy is closed by a later boot's startSession *)
(* (unless every boot of the bound is used up).                            *)
Orphan(id) == id \in DOMAIN holds /\ proxy[holds[id].session_id] = "dead"
OrphansRecovered ==
  \A id \in HoldIds :
    Orphan(id) ~> (id \notin DOMAIN holds \/ \A s \in Sessions : proxy[s] = "dead")

(* A request that asked for its hold ends: denied, settled, or lost with   *)
(* its process; it never waits on the ledger for ever.                     *)
RequestsEnd ==
  \A id \in HoldIds :
    At(id, "opening") ~> (id \in DOMAIN request /\ request[id].step \in Finished)

(* db.ts: the fence is there because "a delayed startSession retry from an *)
(* old proxy could reclaim leadership and refund the real current proxy's  *)
(* live holds".  A live proxy that serves keeps the holds it has open.     *)
LiveHoldsKept ==
  [][\A id \in DOMAIN holds :
       proxy[holds[id].session_id] = "serving" /\ Store!currentSession = holds[id].session_id
         => id \in DOMAIN holds' \/ id \in DOMAIN settled_holds']_vars
=============================================================================
