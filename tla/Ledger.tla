------------------------------- MODULE Ledger -------------------------------
(***************************************************************************)
(* The balance store of the ledger process (core/src/ledger/db.ts): the    *)
(* tables of balances.db and the transactions the two sockets reach.  The  *)
(* process is the database's only writer and every operation is one SQLite *)
(* transaction, so each is one atomic step.  A table is a function from    *)
(* its primary key to its row; a table with a key only is a set.           *)
(*                                                                         *)
(* Nothing is assumed of the callers: any session, hold, amount and credit *)
(* key may be named at any time, which is what delayed and repeated        *)
(* requests look like to the store.  Metering and CreditCrossing put the   *)
(* real callers in front of it.                                            *)
(***************************************************************************)
EXTENDS Integers, FiniteSets, Functions

CONSTANTS
  Hashes,          \* token hashes
  Sessions,        \* proxy boot sessions (one UUID per proxy process)
  HoldIds,         \* hold ids (one UUID per metered request)
  CreditKeys,      \* idempotency keys of credits
  Micros,          \* the amounts callers may name
  MaxSafeInteger,  \* Number.MAX_SAFE_INTEGER
  NoSession        \* the empty ledger_session table

ASSUME LedgerAssumption ==
  /\ IsFiniteSet(HoldIds)
  /\ Micros \subseteq Int
  /\ MaxSafeInteger \in Nat
  /\ NoSession \notin Sessions

VARIABLES
  tokens,          \* hash -> balance
  applied_orders,  \* keys of the credits already applied
  holds,           \* hold_id -> [hash, micros, session_id]
  ledger_session,  \* the current session and what its start recovered
  retired,         \* retired_ledger_sessions
  settled_holds,   \* hold_id -> [session_id, charged_micros]
  credited,        \* history: micros ever credited to a hash
  charged,         \* history: micros ever charged to a hash
  debits,          \* history: how often a session took money for a hold id
  tenures          \* history: how often a session became current

tables == <<tokens, applied_orders, holds, ledger_session, retired, settled_holds>>
vars == <<tables, credited, charged, debits, tenures>>

-----------------------------------------------------------------------------
(* Tables *)

IsTable(table, Key, Row) == DOMAIN table \subseteq Key /\ table \in [DOMAIN table -> Row]
EmptyTable == [key \in {} |-> 0]
Upsert(table, key, row) ==
  [k \in DOMAIN table \cup {key} |-> IF k = key THEN row ELSE table[k]]
Delete(table, key) == [k \in DOMAIN table \ {key} |-> table[k]]

HoldRow == [hash : Hashes, micros : Nat, session_id : Sessions]
SettledRow == [session_id : Sessions, charged_micros : Nat]
SessionRow ==
  [session_id : Sessions \cup {NoSession}, recovered_holds : Nat, recovered_micros : Nat]

SafeMicros == 0 .. MaxSafeInteger
currentSession == ledger_session.session_id
getBalance(hash) == IF hash \in DOMAIN tokens THEN tokens[hash] ELSE 0
getSessionBalance(s, hash) ==
  IF currentSession # s THEN [stale |-> TRUE]
  ELSE [stale |-> FALSE, balance |-> getBalance(hash)]
Credit(hash, micros) == Upsert(tokens, hash, getBalance(hash) + micros)

HeldMicros == [id \in DOMAIN holds |-> holds[id].micros]
HoldsOf(hash) == {id \in DOMAIN holds : holds[id].hash = hash}
\* What the open holds of a token reserve, and what all of them do.
Reserved(hash) == SumFunctionOnSet(HeldMicros, HoldsOf(hash))
ReservedInAll == SumFunctionOnSet(HeldMicros, DOMAIN holds)

-----------------------------------------------------------------------------
Init ==
  /\ tokens = EmptyTable
  /\ applied_orders = {}
  /\ holds = EmptyTable
  /\ ledger_session =
       [session_id |-> NoSession, recovered_holds |-> 0, recovered_micros |-> 0]
  /\ retired = {}
  /\ settled_holds = EmptyTable
  /\ credited = [hash \in Hashes |-> 0]
  /\ charged = [hash \in Hashes |-> 0]
  /\ debits = [s \in Sessions |-> [id \in HoldIds |-> 0]]
  /\ tenures = [s \in Sessions |-> 0]

\* Mutant: a replayed startSession starts over.
BeginOutcomeReplayed(s) == IF s \in retired THEN "stale_session" ELSE "started"
\* Mutant: no durable fence.
BeginOutcomeUnfenced(s) == IF s = currentSession THEN "current" ELSE "started"

(* beginSession: the startup barrier of a proxy boot.  A session that is   *)
(* already current replays its recorded result, a retired one stays out,   *)
(* and any other fences the current one, refunding every hold left open.   *)
BeginOutcome(s) ==
  IF s = currentSession THEN "current"
  ELSE IF s \in retired THEN "stale_session"
  ELSE "started"

\* Mutant: one joined UPDATE, which adds a single row per hash.
RefundedOncePerHash ==
  [hash \in DOMAIN tokens |->
     IF HoldsOf(hash) = {} THEN tokens[hash]
     ELSE tokens[hash] + holds[CHOOSE id \in HoldsOf(hash) : TRUE].micros]

\* tokens once every row of holds is credited back to its hash.
Refunded ==
  [hash \in DOMAIN tokens \cup {holds[id].hash : id \in DOMAIN holds} |->
     getBalance(hash) + Reserved(hash)]

\* Mutant: the tombstones of the previous session stay.
StartSessionKeepsTombstones(s) ==
  /\ BeginOutcome(s) = "started"
  /\ tokens' = Refunded
  /\ holds' = EmptyTable
  /\ retired' = retired \cup ({currentSession} \ {NoSession})
  /\ ledger_session' =
       [session_id |-> s,
        recovered_holds |-> Cardinality(DOMAIN holds),
        recovered_micros |-> ReservedInAll]
  /\ tenures' = [tenures EXCEPT ![s] = @ + 1]
  /\ UNCHANGED <<settled_holds, applied_orders, credited, charged, debits>>
\* Mutant: the new session leaves the holds of the old one open.
StartSessionWithoutRecovery(s) ==
  /\ BeginOutcome(s) = "started"
  /\ settled_holds' = EmptyTable
  /\ retired' = retired \cup ({currentSession} \ {NoSession})
  /\ ledger_session' = [session_id |-> s, recovered_holds |-> 0, recovered_micros |-> 0]
  /\ tenures' = [tenures EXCEPT ![s] = @ + 1]
  /\ UNCHANGED <<tokens, holds, applied_orders, credited, charged, debits>>

StartSession(s) ==
  /\ BeginOutcome(s) = "started"
  /\ tokens' = Refunded
  /\ holds' = EmptyTable
  /\ settled_holds' = EmptyTable
  /\ retired' = retired \cup ({currentSession} \ {NoSession})
  /\ ledger_session' =
       [session_id |-> s,
        recovered_holds |-> Cardinality(DOMAIN holds),
        recovered_micros |-> ReservedInAll]
  /\ tenures' = [tenures EXCEPT ![s] = @ + 1]
  /\ UNCHANGED <<applied_orders, credited, charged, debits>>

BeginSession(s) ==
  \/ StartSession(s)
  \/ BeginOutcome(s) # "started" /\ UNCHANGED vars

\* Mutant: the tombstone is not looked up.
OpenOutcomeAfterSettlement(s, hash, micros, id) ==
  IF currentSession # s THEN "stale_session"
  ELSE IF micros \notin SafeMicros THEN "invalid_amount"
  ELSE IF id \in DOMAIN holds
       THEN IF holds[id] = [hash |-> hash, micros |-> micros, session_id |-> s]
            THEN "already_open" ELSE "conflict"
  ELSE IF hash \notin DOMAIN tokens THEN "unknown_token"
  ELSE IF tokens[hash] < micros THEN "insufficient_balance"
  ELSE "opened"
\* Mutant: the conditional debit loses its balance condition.
OpenOutcomeUngated(s, hash, micros, id) ==
  IF currentSession # s THEN "stale_session"
  ELSE IF micros \notin SafeMicros THEN "invalid_amount"
  ELSE IF id \in DOMAIN holds \cup DOMAIN settled_holds THEN "conflict"
  ELSE IF hash \notin DOMAIN tokens THEN "unknown_token"
  ELSE "opened"

(* openSessionHold: debit the reservation and journal it, once.  The       *)
(* outcomes are in the order of the code's early returns.                  *)
OpenOutcome(s, hash, micros, id) ==
  IF currentSession # s THEN "stale_session"
  ELSE IF micros \notin SafeMicros THEN "invalid_amount"
  ELSE IF id \in DOMAIN holds
       THEN IF holds[id] = [hash |-> hash, micros |-> micros, session_id |-> s]
            THEN "already_open" ELSE "conflict"
  ELSE IF id \in DOMAIN settled_holds THEN "conflict"
  ELSE IF hash \notin DOMAIN tokens THEN "unknown_token"
  ELSE IF tokens[hash] < micros THEN "insufficient_balance"
  ELSE "opened"

TakeHold(s, hash, micros, id) ==
  /\ OpenOutcome(s, hash, micros, id) = "opened"
  /\ tokens' = [tokens EXCEPT ![hash] = @ - micros]
  /\ holds' = Upsert(holds, id, [hash |-> hash, micros |-> micros, session_id |-> s])
  /\ debits' = [debits EXCEPT ![s][id] = @ + 1]
  /\ UNCHANGED <<applied_orders, ledger_session, retired, settled_holds,
                 credited, charged, tenures>>

OpenSessionHold(s, hash, micros, id) ==
  \/ TakeHold(s, hash, micros, id)
  \/ OpenOutcome(s, hash, micros, id) # "opened" /\ UNCHANGED vars

(* settleSessionHold: close a hold once, refund what was not charged and   *)
(* leave a tombstone that answers the retries.                             *)
SettleOutcome(s, id, charge) ==
  IF currentSession # s THEN "stale_session"
  ELSE IF id \in DOMAIN settled_holds
       THEN IF settled_holds[id] = [session_id |-> s, charged_micros |-> charge]
            THEN "already_settled" ELSE "conflict"
  ELSE IF id \notin DOMAIN holds THEN "unknown_hold"
  ELSE IF holds[id].session_id # s THEN "conflict"
  ELSE IF charge \notin SafeMicros \/ charge > holds[id].micros THEN "invalid_charge"
  ELSE "settled"

CloseHold(s, id, charge) ==
  /\ SettleOutcome(s, id, charge) = "settled"
  /\ tokens' = Credit(holds[id].hash, holds[id].micros - charge)
  /\ holds' = Delete(holds, id)
  /\ settled_holds' =
       Upsert(settled_holds, id, [session_id |-> s, charged_micros |-> charge])
  /\ charged' = [charged EXCEPT ![holds[id].hash] = @ + charge]
  /\ UNCHANGED <<applied_orders, ledger_session, retired, credited, debits, tenures>>

SettleSessionHold(s, id, charge) ==
  \/ CloseHold(s, id, charge)
  \/ SettleOutcome(s, id, charge) # "settled" /\ UNCHANGED vars

\* Mutant: the marker is not looked up.
CreditOutcomeUnmarked(key) == IF key \in CreditKeys THEN "applied" ELSE "already_applied"

(* creditOnce: apply a payment's credit unless its key was applied before. *)
CreditOutcome(key) == IF key \in applied_orders THEN "already_applied" ELSE "applied"

ApplyCredit(hash, micros, key) ==
  /\ CreditOutcome(key) = "applied"
  /\ tokens' = Credit(hash, micros)
  /\ applied_orders' = applied_orders \cup {key}
  /\ credited' = [credited EXCEPT ![hash] = @ + micros]
  /\ UNCHANGED <<holds, ledger_session, retired, settled_holds, charged, debits, tenures>>

CreditOnce(hash, micros, key) ==
  /\ micros \in SafeMicros  \* what credit-wire.ts lets through
  /\ \/ ApplyCredit(hash, micros, key)
     \/ CreditOutcome(key) # "applied" /\ UNCHANGED vars

-----------------------------------------------------------------------------
Next ==
  \/ \E s \in Sessions : BeginSession(s)
  \/ \E s \in Sessions, hash \in Hashes, micros \in Micros, id \in HoldIds :
       OpenSessionHold(s, hash, micros, id)
  \/ \E s \in Sessions, id \in HoldIds, charge \in Micros :
       SettleSessionHold(s, id, charge)
  \/ \E hash \in Hashes, micros \in Micros, key \in CreditKeys :
       CreditOnce(hash, micros, key)

Spec == Init /\ [][Next]_vars

-----------------------------------------------------------------------------
(* Every row is well formed; in particular no balance is ever negative,    *)
(* whatever order holds, settlements and session starts arrive in.         *)
TypeOK ==
  /\ IsTable(tokens, Hashes, Nat)
  /\ applied_orders \subseteq CreditKeys
  /\ IsTable(holds, HoldIds, HoldRow)
  /\ ledger_session \in SessionRow
  /\ retired \subseteq Sessions
  /\ IsTable(settled_holds, HoldIds, SettledRow)
  /\ credited \in [Hashes -> Nat]
  /\ charged \in [Hashes -> Nat]
  /\ debits \in [Sessions -> [HoldIds -> Nat]]
  /\ tenures \in [Sessions -> Nat]

(* Money is conserved for every token: what payments credited is its       *)
(* balance, plus what open holds reserve, plus what settlements charged.   *)
(* openSessionHold, settleSessionHold and beginSession's recovery each     *)
(* move one of the terms against another, in any order and repetition.     *)
Conservation ==
  \A hash \in Hashes :
    getBalance(hash) + Reserved(hash) + charged[hash] = credited[hash]

(* Sessions fence each other off.  "A superseded proxy session must never  *)
(* become current again" (db.ts:92): no session is current twice.  And the *)
(* rows of holds and settled_holds are the current session's, never both   *)
(* for one id: a replayed settlement finds the tombstone and a late open   *)
(* finds it too, while a new session starts with neither.                  *)
OneTenure == \A s \in Sessions : tenures[s] <= 1
RowsOfCurrentSession ==
  /\ \A id \in DOMAIN holds : holds[id].session_id = currentSession
  /\ \A id \in DOMAIN settled_holds : settled_holds[id].session_id = currentSession
  /\ DOMAIN holds \cap DOMAIN settled_holds = {}
SessionsFenced == OneTenure /\ RowsOfCurrentSession

(* A session debits a hold id at most once, however often its open request *)
(* is repeated, reordered with the settlement or delayed past it.          *)
DebitedAtMostOnce == \A s \in Sessions, id \in HoldIds : debits[s][id] <= 1


(* While a session stays current, a hold row leaves the table only by a    *)
(* settlement, and a settlement, once recorded, is final: a repeated       *)
(* startSession cannot refund live work and a second settlement cannot     *)
(* change the charge.                                                      *)
ClosedOnlyBySettlement ==
  [][currentSession' = currentSession =>
       /\ DOMAIN holds \ DOMAIN holds' \subseteq DOMAIN settled_holds'
       /\ \A id \in DOMAIN settled_holds :
            id \in DOMAIN settled_holds' /\ settled_holds'[id] = settled_holds[id]]_vars
=============================================================================
