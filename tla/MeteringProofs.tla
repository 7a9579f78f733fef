--------------------------- MODULE MeteringProofs ---------------------------
(***************************************************************************)
(* Proofs about metered requests against the ledger process, for any       *)
(* number of boots, requests, tokens, amounts and attempts: with attempts  *)
(* that commit late or never, proxies that die at any point and sessions   *)
(* that fence each other off.                                              *)
(*                                                                         *)
(* The store is Ledger, of which LedgerProofs says what holds for any      *)
(* caller; its facts are used here for the callers Metering has.           *)
(***************************************************************************)
EXTENDS Metering, SumLemmas

\* A charge is clamped to zero and to the hold, whether or not a caller names
\* such an amount, so the store is used with any integer.
L == INSTANCE LedgerProofs WITH Micros <- Int

-----------------------------------------------------------------------------
(* The inductive invariant *)

\* The sessions the ledger has seen start.
Known(s) == s = Store!currentSession \/ s \in retired

StartPayload(s) == [op |-> "start_session", session |-> s]
OpenPayload(id) ==
  [op |-> "open_hold", session |-> request[id].session, hash |-> request[id].hash,
   micros |-> request[id].micros]
SettlePayload(id) ==
  [op |-> "settle_hold", session |-> request[id].session, charge |-> request[id].charge]

\* The steps at which a settlement may have committed.
Closing == {"settling", "settled", "lost"}

\* A request is admitted under a session that has started, and goes on only as
\* long as its process serves; what it may be charged is never above its hold.
RequestOK(id) ==
  /\ Known(request[id].session)
  /\ request[id].step # "failed"
  /\ request[id].step \notin Finished => proxy[request[id].session] = "serving"
  /\ request[id].step = "admitted" => request[id].charge = 0
  /\ request[id].charge <= request[id].micros
  /\ request[id].micros <= MaxSafeInteger
Processes ==
  /\ \A s \in Sessions : Known(s) => proxy[s] # "unborn"
  /\ \A id \in DOMAIN request : RequestOK(id)

\* Whatever is on the wire, however old, says what its request says now.
MessageOK(m) ==
  /\ m.caller \in Sessions => m.payload = StartPayload(m.caller) /\ proxy[m.caller] # "unborn"
  /\ m.caller \in HoldIds =>
       /\ m.caller \in DOMAIN request /\ request[m.caller].step # "admitted"
       /\ \/ m.payload = OpenPayload(m.caller)
          \/ m.payload = SettlePayload(m.caller) /\ request[m.caller].step \in Closing
Messages == \A m \in wire : MessageOK(m)

\* So does a call, and the answer to it is one its operation expects.
CallOK(c) ==
  /\ DOMAIN call[c] = {"attempt", "payload", "reply"}
  /\ c \in Sessions =>
       /\ call[c].payload = StartPayload(c)
       /\ Reply(c) \in {NoReply, "started", "current", "stale_session"}
  /\ At(c, "opening") =>
       /\ call[c].payload = OpenPayload(c)
       /\ Reply(c) \in {NoReply, "opened", "already_open", "unknown_token",
                        "insufficient_balance", "stale_session"}
  /\ At(c, "settling") =>
       /\ call[c].payload = SettlePayload(c)
       /\ Reply(c) \in {NoReply, "settled", "already_settled", "stale_session"}
Calls == \A c \in DOMAIN call : CallOK(c)

\* A row of the ledger is that of its request, and a tombstone is no earlier than
\* its settlement.
Rows ==
  /\ \A id \in DOMAIN holds :
       id \in DOMAIN request /\ request[id].step # "admitted" /\ Journalled(id)
  /\ \A id \in DOMAIN settled_holds :
       id \in DOMAIN request /\ request[id].step \in Closing /\ Tombstoned(id)

\* What a request of the current session was told has happened.
ToldOpen(id) ==
  \/ request[id].step = "opening" /\ Reply(id) \in {"opened", "already_open"}
  \/ request[id].step = "held"
ToldSettled(id) ==
  \/ request[id].step = "settling" /\ Reply(id) \in {"settled", "already_settled"}
  \/ request[id].step = "settled"
Promised(id) ==
  request[id].session = Store!currentSession =>
    /\ ToldOpen(id) => id \in DOMAIN holds
    /\ request[id].step = "settling" => id \in DOMAIN holds \cup DOMAIN settled_holds
    /\ ToldSettled(id) => id \in DOMAIN settled_holds
Promises == \A id \in DOMAIN request : Promised(id)

\* The requests whose settlement committed, in this session or an earlier one:
\* what they add up to is what was charged.
ChargesOfAll(table, hash, ids) ==
  SumFunctionOnSet([id \in DOMAIN table |-> table[id].charge],
                   {id \in DOMAIN table : table[id].hash = hash /\ id \in ids})
BilledTo(ids) ==
  /\ \A id \in ids :
       /\ request[id].step \in Closing
       /\ request[id].session = Store!currentSession => id \in DOMAIN settled_holds
  /\ \A id \in DOMAIN request : ToldSettled(id) => id \in ids
  /\ DOMAIN settled_holds \subseteq ids
  /\ \A hash \in Hashes : charged[hash] = ChargesOfAll(request, hash, ids)
Billed == \E ids \in SUBSET DOMAIN request : BilledTo(ids)

\* Money was taken for a request by its own session only, and for every row.
Debited ==
  /\ \A s \in Sessions, id \in HoldIds :
       debits[s][id] > 0 => id \in DOMAIN request /\ s = request[id].session
  /\ \A id \in DOMAIN holds \cup DOMAIN settled_holds : debits[Store!currentSession][id] > 0

IInv ==
  /\ TypeOK /\ L!IInv /\ Processes /\ Messages /\ Calls /\ Rows /\ Promises /\ Billed /\ Debited

-----------------------------------------------------------------------------
(* The store *)

\* What LedgerProofs assumes of the constants.
LEMMA LedgerConstants ==
  /\ L!IsFiniteSet(HoldIds) /\ Int \subseteq Int /\ MaxSafeInteger \in Nat
  /\ NoSession \notin Sessions
BY MeteringAssumption DEF L!IsFiniteSet, IsFiniteSet

(* The two names of the store are one.                                     *)
LEMMA SameStore ==
  /\ Store!TypeOK <=> L!TypeOK
  /\ Store!currentSession = L!currentSession
BY DEF Store!TypeOK, L!TypeOK, Store!IsTable, L!IsTable, Store!HoldRow, L!HoldRow,
       Store!SettledRow, L!SettledRow, Store!SessionRow, L!SessionRow,
       Store!currentSession, L!currentSession

LEMMA StoreSame == ASSUME L!IInv, UNCHANGED store PROVE L!IInv'
<1>1. UNCHANGED L!vars
  BY DEF L!vars, L!tables, store
<1> QED BY <1>1, L!NextIInv, LedgerConstants

\* What the store's own invariant says of the current session's rows.
LEMMA StoreFacts ==
  ASSUME L!IInv
  PROVE  /\ Store!TypeOK
         /\ Store!currentSession \notin retired
         /\ retired \subseteq Sessions
         /\ DOMAIN holds \subseteq HoldIds /\ DOMAIN settled_holds \subseteq HoldIds
         /\ DOMAIN holds \cap DOMAIN settled_holds = {}
         /\ \A id \in DOMAIN holds : holds[id].session_id = Store!currentSession
         /\ \A id \in DOMAIN settled_holds : settled_holds[id].session_id = Store!currentSession
         /\ \A s \in Sessions, id \in HoldIds : debits[s][id] \in Nat
         /\ \A id \in HoldIds \ (DOMAIN holds \cup DOMAIN settled_holds) :
              Store!currentSession \in Sessions => debits[Store!currentSession][id] = 0
<1>1. L!TypeOK /\ Store!TypeOK /\ Store!currentSession = L!currentSession
  BY SameStore DEF L!IInv
<1>2. /\ retired \subseteq Sessions
      /\ DOMAIN holds \subseteq HoldIds /\ DOMAIN settled_holds \subseteq HoldIds
      /\ debits \in [Sessions -> [HoldIds -> Nat]]
  BY <1>1 DEF L!TypeOK, L!IsTable
<1>3. /\ DOMAIN holds \cap DOMAIN settled_holds = {}
      /\ \A id \in DOMAIN holds : holds[id].session_id = Store!currentSession
      /\ \A id \in DOMAIN settled_holds : settled_holds[id].session_id = Store!currentSession
  BY <1>1 DEF L!IInv, L!RowsOfCurrentSession
<1>4. Store!currentSession \notin retired
  BY <1>1 DEF L!IInv, L!Fencing
<1>5. \A id \in HoldIds \ (DOMAIN holds \cup DOMAIN settled_holds) :
        Store!currentSession \in Sessions => debits[Store!currentSession][id] = 0
  <2> SUFFICES ASSUME NEW id \in HoldIds \ (DOMAIN holds \cup DOMAIN settled_holds),
                      Store!currentSession \in Sessions
               PROVE  debits[Store!currentSession][id] = 0
    OBVIOUS
  <2>1. debits[L!currentSession][id] <= 0
    BY <1>1, <1>4 DEF L!IInv, L!Debits
  <2>2. debits[Store!currentSession][id] \in Nat
    BY <1>2
  <2> QED BY <1>1, <2>1, <2>2
<1> QED BY <1>1, <1>2, <1>3, <1>4, <1>5

-----------------------------------------------------------------------------
(* Sums of charges *)

(* A sum of charges depends on the charges in question only.               *)
LEMMA ChargesSame ==
  ASSUME NEW t, NEW u, NEW hash, NEW ids \in SUBSET HoldIds,
         ids \subseteq DOMAIN t, ids \subseteq DOMAIN u,
         \A id \in ids : t[id].hash = u[id].hash /\ t[id].charge = u[id].charge
  PROVE  ChargesOfAll(t, hash, ids) = ChargesOfAll(u, hash, ids)
<1> DEFINE f == [id \in DOMAIN t |-> t[id].charge]
           g == [id \in DOMAIN u |-> u[id].charge]
           S == {id \in DOMAIN t : t[id].hash = hash /\ id \in ids}
<1>1. S = {id \in DOMAIN u : u[id].hash = hash /\ id \in ids}
  OBVIOUS
<1>2. IsFiniteSet(S) /\ \A id \in S : f[id] = g[id]
  <2>1. S \in SUBSET HoldIds /\ \A id \in S : f[id] = g[id]
    OBVIOUS
  <2> HIDE DEF S, f, g
  <2> QED BY <2>1, MeteringAssumption, FS_Subset
<1>3. SumFunctionOnSet(f, S) = SumFunctionOnSet(g, S)
  <2> HIDE DEF f, g, S
  <2> QED BY <1>2, SumAgree
<1> QED BY <1>1, <1>3 DEF ChargesOfAll

(* One more request adds its charge to its own token.                      *)
LEMMA ChargesMore ==
  ASSUME NEW table, NEW hash, NEW ids \in SUBSET HoldIds, NEW id \in HoldIds,
         id \in DOMAIN table, id \notin ids,
         \A x \in DOMAIN table : table[x].charge \in Nat
  PROVE  /\ ChargesOfAll(table, hash, ids) \in Nat
         /\ ChargesOfAll(table, hash, ids \cup {id}) =
              ChargesOfAll(table, hash, ids)
                + IF table[id].hash = hash THEN table[id].charge ELSE 0
<1> DEFINE f == [x \in DOMAIN table |-> table[x].charge]
           S == {x \in DOMAIN table : table[x].hash = hash /\ x \in ids}
           R == {x \in DOMAIN table : table[x].hash = hash /\ x \in ids \cup {id}}
<1>1. IsFiniteSet(S) /\ IsFiniteSet(R) /\ \A x \in R : f[x] \in Nat
  <2>1. S \in SUBSET HoldIds /\ R \in SUBSET HoldIds /\ \A x \in R : f[x] \in Nat
    OBVIOUS
  <2> HIDE DEF S, R, f
  <2> QED BY <2>1, MeteringAssumption, FS_Subset
<1>2. SumFunctionOnSet(f, S) \in Nat
  <2>1. \A x \in S : f[x] \in Nat
    OBVIOUS
  <2> HIDE DEF S, R, f
  <2> QED BY <1>1, <2>1, SumType
<1>3. CASE table[id].hash = hash
  <2>1. id \in R /\ R \ {id} = S /\ f[id] = table[id].charge
    BY <1>3
  <2>2. SumFunctionOnSet(f, R) = f[id] + SumFunctionOnSet(f, R \ {id})
    <3> HIDE DEF S, R, f
    <3> QED BY <1>1, <2>1, SumRemove
  <2>3. table[id].charge \in Nat
    OBVIOUS
  <2>4. SumFunctionOnSet(f, R) = SumFunctionOnSet(f, S) + table[id].charge
    <3> HIDE DEF S, R, f
    <3>1. SumFunctionOnSet(f, R) = table[id].charge + SumFunctionOnSet(f, S)
      BY <2>1, <2>2
    <3> QED BY <1>2, <2>3, <3>1
  <2> QED BY <1>2, <1>3, <2>4 DEF ChargesOfAll
<1>4. CASE table[id].hash # hash
  <2>1. R = S
    BY <1>4
  <2>2. SumFunctionOnSet(f, R) = SumFunctionOnSet(f, S) + 0
    <3> HIDE DEF S, R, f
    <3> QED BY <1>2, <2>1
  <2> QED BY <1>2, <1>4, <2>2 DEF ChargesOfAll
<1> QED BY <1>3, <1>4

-----------------------------------------------------------------------------
(* The proxies' own steps leave the store alone.  What they may do to a     *)
(* request leaves the rows, the messages and the bills true.               *)
Moves ==
  /\ UNCHANGED store
  /\ \A s \in Sessions : proxy[s] # "unborn" => proxy'[s] # "unborn"
  /\ DOMAIN request \subseteq DOMAIN request'
  /\ \A id \in DOMAIN request :
       /\ request'[id].session = request[id].session /\ request'[id].hash = request[id].hash
       /\ request[id].step # "admitted" =>
            request'[id].step # "admitted" /\ request'[id].micros = request[id].micros
       /\ request[id].step \in Closing =>
            request'[id].step \in Closing /\ request'[id].charge = request[id].charge
  /\ \A id \in DOMAIN request' : ToldSettled(id)' => id \in DOMAIN request /\ ToldSettled(id)

LEMMA MovesKeep ==
  ASSUME IInv, Moves
  PROVE  /\ L!IInv' /\ Rows' /\ Billed' /\ Debited'
         /\ \A m \in wire : MessageOK(m)'
         /\ Store!currentSession' = Store!currentSession /\ retired' = retired
<1>1. /\ L!IInv' /\ Store!currentSession' = Store!currentSession
      /\ UNCHANGED <<holds, settled_holds, charged, debits, retired>>
  BY StoreSame DEF IInv, Moves, store, Store!currentSession
<1>2. DOMAIN holds \subseteq HoldIds /\ DOMAIN settled_holds \subseteq HoldIds
      /\ DOMAIN request \subseteq HoldIds
  BY StoreFacts DEF IInv, TypeOK, Store!IsTable
<1>3. Rows'
  <2>1. \A id \in DOMAIN holds :
          id \in DOMAIN request' /\ request'[id].step # "admitted" /\ Journalled(id)'
    BY <1>1 DEF IInv, Rows, Moves, Journalled
  <2>2. \A id \in DOMAIN settled_holds :
          id \in DOMAIN request' /\ request'[id].step \in Closing /\ Tombstoned(id)'
    BY <1>1 DEF IInv, Rows, Moves, Tombstoned
  <2> QED BY <1>1, <2>1, <2>2 DEF Rows
<1>4. Billed'
  <2>1. PICK ids \in SUBSET DOMAIN request : BilledTo(ids)
    BY DEF IInv, Billed
  <2>2. \A id \in ids :
          /\ id \in DOMAIN request' /\ request'[id].step \in Closing
          /\ request'[id].hash = request[id].hash /\ request'[id].charge = request[id].charge
          /\ request'[id].session = Store!currentSession => id \in DOMAIN settled_holds
    BY <2>1 DEF BilledTo, Moves
  <2>3. \A id \in DOMAIN request' : ToldSettled(id)' => id \in ids
    BY <2>1 DEF BilledTo, Moves
  <2>4. \A hash \in Hashes : charged[hash] = ChargesOfAll(request', hash, ids)
    <3>1. \A hash \in Hashes :
            ChargesOfAll(request, hash, ids) = ChargesOfAll(request', hash, ids)
      BY <1>2, <2>1, <2>2, ChargesSame
    <3> QED BY <2>1, <3>1 DEF BilledTo
  <2>5. BilledTo(ids)'
    BY <1>1, <2>1, <2>2, <2>3, <2>4 DEF BilledTo
  <2>6. ids \in SUBSET DOMAIN request'
    BY <2>2
  <2> QED BY <2>5, <2>6 DEF Billed
<1>5. Debited'
  BY <1>1 DEF IInv, Debited, Moves
<1>6. \A m \in wire : MessageOK(m)'
  <2> SUFFICES ASSUME NEW m \in wire PROVE MessageOK(m)'
    OBVIOUS
  <2>1. MessageOK(m)
    BY DEF IInv, Messages
  <2>2. m.caller \in Sessions => (m.payload = StartPayload(m.caller) /\ proxy[m.caller] # "unborn")'
    BY <2>1 DEF MessageOK, Moves, StartPayload
  <2>3. ASSUME m.caller \in HoldIds
        PROVE  /\ m.caller \in DOMAIN request' /\ request'[m.caller].step # "admitted"
               /\ \/ m.payload = OpenPayload(m.caller)'
                  \/ m.payload = SettlePayload(m.caller)' /\ request'[m.caller].step \in Closing
    <3>1. m.caller \in DOMAIN request /\ request[m.caller].step # "admitted"
      BY <2>1, <2>3 DEF MessageOK
    <3>2. /\ m.caller \in DOMAIN request' /\ request'[m.caller].step # "admitted"
          /\ OpenPayload(m.caller)' = OpenPayload(m.caller)
          /\ request[m.caller].step \in Closing =>
               /\ request'[m.caller].step \in Closing
               /\ SettlePayload(m.caller)' = SettlePayload(m.caller)
      BY <3>1 DEF Moves, OpenPayload, SettlePayload
    <3> QED BY <2>1, <2>3, <3>2 DEF MessageOK
  <2> QED BY <2>2, <2>3 DEF MessageOK
<1> QED BY <1>1, <1>3, <1>4, <1>5, <1>6

-----------------------------------------------------------------------------
(* What is left to show of a proxy's own step: its tables, its calls and   *)
(* the promises made to its requests.                                      *)
CallType(c) ==
  /\ call[c].attempt \in 1 .. MaxAttempts
  /\ Reply(c) \in Replies
  /\ call[c].payload.session = SessionOf(c)
Tables ==
  /\ proxy \in [Sessions -> {"unborn", "starting", "serving", "dead"}]
  /\ Store!IsTable(request, HoldIds, Request)
  /\ DOMAIN call = {s \in Sessions : proxy[s] = "starting"} \cup
                   {id \in DOMAIN request : request[id].step \in {"opening", "settling"}}
  /\ \A c \in DOMAIN call : CallType(c)
  /\ \A m \in wire : m.caller \in Callers /\ m.attempt \in 1 .. MaxAttempts

LEMMA TablesType == TypeOK <=> Store!TypeOK /\ Tables
BY DEF TypeOK, Tables, CallType

LEMMA StoreType == L!IInv => Store!TypeOK
BY StoreFacts

LEMMA MovesIInv ==
  ASSUME IInv, Moves, Tables', Processes', Calls', Promises',
         \A m \in wire' \ wire : MessageOK(m)'
  PROVE  IInv'
<1>1. /\ L!IInv' /\ Rows' /\ Billed' /\ Debited' /\ \A m \in wire : MessageOK(m)'
  BY MovesKeep
<1>2. L!IInv' => Store!TypeOK'
  BY StoreType, PTL
<1>3. TypeOK'
  <2>1. TypeOK' <=> Store!TypeOK' /\ Tables'
    BY TablesType, PTL
  <2> QED BY <1>1, <1>2, <2>1
<1>4. Messages'
  BY <1>1 DEF Messages
<1> QED BY <1>1, <1>3, <1>4 DEF IInv

(* Facts every step below starts from.                                     *)
LEMMA Start ==
  ASSUME IInv
  PROVE  /\ Tables /\ Processes /\ Calls /\ Promises /\ Messages
         /\ Sessions \cap HoldIds = {}
         /\ DOMAIN request \subseteq HoldIds
         /\ \A id \in DOMAIN request : request[id] \in Request
         /\ \A s \in Sessions : s \notin DOMAIN request
BY TablesType, MeteringAssumption DEF IInv, Tables, Store!IsTable

LEMMA MeteringInit == Init => IInv
<1> SUFFICES ASSUME Init PROVE IInv
  OBVIOUS
<1>1. L!IInv
  <2>1. L!Init
    BY DEF Init, Store!Init, L!Init, Store!EmptyTable, L!EmptyTable
  <2> QED BY <2>1, L!InitIInv, LedgerConstants
<1>2. /\ holds = Store!EmptyTable /\ settled_holds = Store!EmptyTable
      /\ DOMAIN request = {} /\ DOMAIN call = {} /\ DOMAIN holds = {} /\ wire = {}
      /\ DOMAIN settled_holds = {} /\ retired = {}
      /\ Store!currentSession = NoSession
      /\ proxy = [s \in Sessions |-> "unborn"]
      /\ charged = [hash \in Hashes |-> 0]
      /\ debits = [s \in Sessions |-> [id \in HoldIds |-> 0]]
  BY DEF Init, Store!Init, Store!EmptyTable, Store!currentSession
<1>3. TypeOK
  <2>1. Store!TypeOK
    BY <1>1, StoreFacts
  <2>2. Tables
    BY <1>2 DEF Init, Tables, Store!IsTable, Store!EmptyTable
  <2> QED BY <2>1, <2>2, TablesType
<1>4. Processes /\ Messages /\ Calls /\ Rows /\ Promises
  BY <1>2, MeteringAssumption DEF Processes, Messages, Calls, Rows, Promises, Known
<1>5. Billed
  <2>1. \A hash \in Hashes : ChargesOfAll(request, hash, {}) = 0
    <3> SUFFICES ASSUME NEW hash \in Hashes PROVE ChargesOfAll(request, hash, {}) = 0
      OBVIOUS
    <3>1. {id \in DOMAIN request : request[id].hash = hash /\ id \in {}} = {}
      OBVIOUS
    <3> QED BY <3>1, SumEmpty DEF ChargesOfAll
  <2>2. BilledTo({})
    BY <1>2, <2>1 DEF BilledTo
  <2> QED BY <2>2 DEF Billed
<1>6. Debited
  BY <1>2 DEF Debited
<1> QED BY <1>1, <1>3, <1>4, <1>5, <1>6 DEF IInv

-----------------------------------------------------------------------------
(* The client's steps *)

LEMMA RetryIInv ==
  ASSUME IInv, NEW c \in Callers, Retry(c)
  PROVE  IInv'
<1>1. /\ Tables /\ Processes /\ Calls /\ Promises
      /\ \A id \in DOMAIN request : request[id] \in Request
      /\ c \in DOMAIN call /\ UNCHANGED <<store, proxy, request>>
      /\ Sessions \cap HoldIds = {}
      /\ \A s \in Sessions : s \notin DOMAIN request
  BY Start DEF Retry, Awaits
<1>2. /\ DOMAIN call' = DOMAIN call
      /\ \A x \in DOMAIN call \ {c} : call'[x] = call[x]
      /\ DOMAIN call'[c] = {"attempt", "payload", "reply"}
      /\ call'[c].payload = call[c].payload /\ call'[c].reply = NoReply
      /\ call'[c].attempt = call[c].attempt + 1
  BY <1>1 DEF Retry, Calls, CallOK
<1>3. call[c].attempt \in 1 .. MaxAttempts /\ call[c].attempt < MaxAttempts
  BY <1>1 DEF Retry, Tables, CallType
<1>4. Moves
  BY <1>1, <1>2, MeteringAssumption DEF Moves, ToldSettled, Reply, Tables
<1>5. Tables'
  <2>1. call'[c].attempt \in 1 .. MaxAttempts
    BY <1>2, <1>3, MeteringAssumption
  <2>2. \A x \in DOMAIN call : CallType(x)'
    BY <1>1, <1>2, <2>1 DEF Tables, CallType, SessionOf, Reply, Replies
  <2>3. \A m \in wire' : m.caller \in Callers /\ m.attempt \in 1 .. MaxAttempts
    BY <1>1, <1>2, <2>1 DEF Retry, Tables, Attempt
  <2> QED BY <1>1, <1>2, <2>2, <2>3 DEF Tables, Store!IsTable
<1>6. Calls'
  <2> SUFFICES ASSUME NEW x \in DOMAIN call PROVE CallOK(x)'
    BY <1>2 DEF Calls
  <2>1. CallOK(x)
    BY <1>1 DEF Calls
  <2> QED BY <1>1, <1>2, <2>1 DEF CallOK, At, Reply, StartPayload, OpenPayload, SettlePayload
<1>7. Processes'
  BY <1>1, StoreSame DEF Processes, RequestOK, Known, store, Store!currentSession
<1>8. Promises'
  BY <1>1, <1>2, MeteringAssumption
     DEF Promises, Promised, ToldOpen, ToldSettled, Reply, Store!currentSession, store, Tables
<1>9. \A m \in wire' \ wire : MessageOK(m)'
  <2> SUFFICES ASSUME NEW m \in wire' \ wire PROVE MessageOK(m)'
    OBVIOUS
  <2>1. m.caller = c /\ m.payload = call[c].payload
    BY DEF Retry, Attempt
  <2>2. CallOK(c) /\ (c \in Sessions => proxy[c] # "unborn")
        /\ (c \in HoldIds => At(c, "opening") \/ At(c, "settling"))
    BY <1>1 DEF Calls, Tables, At
  <2> QED BY <1>1, <2>1, <2>2
          DEF MessageOK, CallOK, At, Closing, StartPayload, OpenPayload, SettlePayload
<1> QED BY <1>4, <1>5, <1>6, <1>7, <1>8, <1>9, MovesIInv

LEMMA ExitIInv ==
  ASSUME IInv, NEW s \in Sessions, Exit(s)
  PROVE  IInv'
<1>1. /\ Tables /\ Processes /\ Calls /\ Promises
      /\ \A id \in DOMAIN request : request[id] \in Request
      /\ UNCHANGED <<store, wire>> /\ DOMAIN request \subseteq HoldIds
      /\ Sessions \cap HoldIds = {}
      /\ \A t \in Sessions : t \notin DOMAIN request
  BY Start DEF Exit
<1>2. /\ DOMAIN request' = DOMAIN request
      /\ \A id \in DOMAIN request :
           /\ request'[id] \in Request
           /\ request'[id].session = request[id].session /\ request'[id].hash = request[id].hash
           /\ request'[id].micros = request[id].micros
           /\ request'[id].charge = request[id].charge
           /\ request[id].session # s \/ request[id].step \in Finished =>
                request'[id].step = request[id].step
           /\ request[id].session = s /\ request[id].step \notin Finished =>
                request'[id].step = "lost"
  BY <1>1 DEF Exit, Request, Finished
<1>3. /\ DOMAIN call' = {c \in DOMAIN call : SessionOf(c) # s}
      /\ \A c \in DOMAIN call' : call'[c] = call[c] /\ SessionOf(c)' = SessionOf(c)
      /\ \A c \in DOMAIN call' \ Sessions :
           c \in DOMAIN request /\ request'[c].step = request[c].step
      /\ proxy' \in [Sessions -> {"unborn", "starting", "serving", "dead"}]
      /\ \A t \in Sessions \ {s} : proxy'[t] = proxy[t]
      /\ proxy'[s] = "dead"
  BY <1>1, <1>2 DEF Exit, SessionOf, Tables
<1>4. Moves
  <2>1. \A id \in DOMAIN request : ToldSettled(id)' => ToldSettled(id)
    <3> SUFFICES ASSUME NEW id \in DOMAIN request, ToldSettled(id)' PROVE ToldSettled(id)
      OBVIOUS
    <3>1. request'[id].step = request[id].step
      BY <1>2 DEF ToldSettled
    <3>2. CASE request[id].step = "settled"
      BY <3>2 DEF ToldSettled
    <3>3. CASE request[id].step = "settling"
      <4>1. request[id].session # s /\ id \in DOMAIN call
        BY <1>1, <1>2, <3>1, <3>3 DEF Finished, Tables
      <4>2. id \in DOMAIN call'
        BY <1>1, <1>3, <4>1 DEF SessionOf
      <4> QED BY <1>3, <3>1, <4>2 DEF ToldSettled, Reply
    <3> QED BY <3>1, <3>2, <3>3 DEF ToldSettled
  <2>2. \A t \in Sessions : proxy[t] # "unborn" => proxy'[t] # "unborn"
    BY <1>3
  <2> QED BY <1>1, <1>2, <2>1, <2>2 DEF Moves, Closing, Finished
<1>5. Tables'
  <2>1. DOMAIN call' = {t \in Sessions : proxy'[t] = "starting"} \cup
                       {id \in DOMAIN request' : request'[id].step \in {"opening", "settling"}}
    BY <1>1, <1>2, <1>3 DEF Tables, SessionOf, Finished
  <2>2. \A c \in DOMAIN call' : CallType(c)'
    BY <1>1, <1>3 DEF Tables, CallType, Reply, Replies
  <2>3. Store!IsTable(request', HoldIds, Request)
    BY <1>1, <1>2 DEF Exit, Store!IsTable
  <2> QED BY <1>1, <1>3, <2>1, <2>2, <2>3 DEF Tables
<1>6. Calls'
  <2> SUFFICES ASSUME NEW c \in DOMAIN call' PROVE CallOK(c)'
    BY DEF Calls
  <2>1. CallOK(c) /\ call'[c] = call[c] /\ (c \notin Sessions => request'[c].step = request[c].step)
    BY <1>1, <1>3 DEF Calls
  <2> QED BY <1>1, <1>2, <1>3, <2>1
          DEF CallOK, At, Reply, StartPayload, OpenPayload, SettlePayload
<1>7. Processes'
  <2>1. Store!currentSession' = Store!currentSession /\ retired' = retired
    BY <1>1 DEF store, Store!currentSession
  <2>2. \A t \in Sessions : Known(t)' => proxy'[t] # "unborn"
    BY <1>1, <1>3, <2>1 DEF Processes, RequestOK, Known
  <2>3. ASSUME NEW id \in DOMAIN request
        PROVE  /\ Known(request[id].session)' /\ request'[id].step # "failed"
               /\ request'[id].step \notin Finished => proxy'[request'[id].session] = "serving"
               /\ request'[id].step = "admitted" => request'[id].charge = 0
               /\ request'[id].charge <= request'[id].micros
               /\ request'[id].micros <= MaxSafeInteger
    <3>1. Known(request[id].session) /\ request[id].session \in Sessions
      BY <1>1 DEF Processes, RequestOK, Request
    <3>2. Known(request[id].session)'
      BY <1>2, <2>1, <3>1 DEF Known
    <3>3. CASE request[id].session = s /\ request[id].step \notin Finished
      BY <1>1, <1>2, <3>2, <3>3 DEF Processes, RequestOK, Finished
    <3>4. CASE request[id].session # s \/ request[id].step \in Finished
      BY <1>1, <1>2, <1>3, <3>1, <3>2, <3>4 DEF Processes, RequestOK
    <3> QED BY <3>3, <3>4
  <2> QED BY <1>2, <2>2, <2>3 DEF Processes, RequestOK
<1>8. Promises'
  <2> SUFFICES ASSUME NEW id \in DOMAIN request PROVE Promised(id)'
    BY <1>2 DEF Promises
  <2>1. /\ holds' = holds /\ settled_holds' = settled_holds
        /\ Store!currentSession' = Store!currentSession
    BY <1>1 DEF store, Store!currentSession
  <2>2. CASE request'[id].step = request[id].step
    <3>1. request[id].step \in {"opening", "settling"} => call'[id] = call[id]
      BY <1>1, <1>2, <1>3, <2>2 DEF Tables, SessionOf, Finished
    <3> QED BY <1>1, <1>2, <2>1, <2>2, <3>1 DEF Promises, Promised, ToldOpen, ToldSettled, Reply
  <2>3. CASE request'[id].step = "lost"
    BY <2>3 DEF Promised, ToldOpen, ToldSettled
  <2> QED BY <1>2, <2>2, <2>3
<1>9. wire' \ wire = {}
  BY <1>1
<1> QED BY <1>4, <1>5, <1>6, <1>7, <1>8, <1>9, MovesIInv

LEMMA ClientIInv ==
  ASSUME IInv, NEW c \in Callers, Client(c)
  PROVE  IInv'
<1>1. CASE Retry(c)
  BY <1>1, RetryIInv
<1>2. CASE GiveUp(c) \/ FatalReply(c)
  <2>1. SessionOf(c) \in Sessions
    BY <1>2, Start DEF GiveUp, FatalReply, Awaits, SessionOf, Tables, Request
  <2> QED BY <1>2, <2>1, ExitIInv DEF GiveUp, FatalReply
<1> QED BY <1>1, <1>2 DEF Client

-----------------------------------------------------------------------------
(* The steps of a boot *)

LEMMA BootIInv ==
  ASSUME IInv, NEW s \in Sessions, Boot(s)
  PROVE  IInv'
<1>1. /\ Tables /\ Processes /\ Calls /\ Promises
      /\ UNCHANGED <<store, request>> /\ proxy[s] = "unborn"
      /\ \A t \in Sessions : t \notin DOMAIN request
      /\ Store!currentSession' = Store!currentSession
  BY Start DEF Boot, store, Store!currentSession
<1>2. /\ proxy' \in [Sessions -> {"unborn", "starting", "serving", "dead"}]
      /\ \A t \in Sessions \ {s} : proxy'[t] = proxy[t]
      /\ proxy'[s] = "starting"
  BY <1>1 DEF Boot, Tables
<1>3. /\ DOMAIN call' = DOMAIN call \cup {s}
      /\ \A c \in DOMAIN call \ {s} : call'[c] = call[c]
      /\ call'[s] = [attempt |-> 1, payload |-> StartPayload(s), reply |-> NoReply]
      /\ s \notin DOMAIN call
  BY <1>1 DEF Boot, Call, Store!Upsert, StartPayload, Tables
<1>4. Moves
  BY <1>1, <1>2, <1>3 DEF Moves, ToldSettled, Reply, Tables
<1>5. Tables'
  <2>1. \A c \in DOMAIN call' : CallType(c)'
    BY <1>1, <1>3, MeteringAssumption
       DEF Tables, CallType, Reply, Replies, StartPayload, SessionOf
  <2>2. \A m \in wire' : m.caller \in Callers /\ m.attempt \in 1 .. MaxAttempts
    BY <1>1, MeteringAssumption DEF Boot, Call, Attempt, Callers, Tables
  <2>3. DOMAIN call' = {t \in Sessions : proxy'[t] = "starting"} \cup
                       {id \in DOMAIN request' : request'[id].step \in {"opening", "settling"}}
    BY <1>1, <1>2, <1>3 DEF Tables
  <2> QED BY <1>1, <1>2, <2>1, <2>2, <2>3 DEF Tables, Store!IsTable
<1>6. Calls'
  <2> SUFFICES ASSUME NEW c \in DOMAIN call' PROVE CallOK(c)'
    BY DEF Calls
  <2>1. CASE c = s
    BY <1>1, <1>3, <2>1 DEF CallOK, At, Reply, StartPayload
  <2>2. CASE c # s
    <3>1. c \in DOMAIN call /\ CallOK(c) /\ call'[c] = call[c]
      BY <1>1, <1>3, <2>2 DEF Calls
    <3> QED BY <1>1, <3>1 DEF CallOK, At, Reply, StartPayload, OpenPayload, SettlePayload
  <2> QED BY <2>1, <2>2
<1>7. Processes'
  <2>1. \A t : Known(t)' <=> Known(t)
    BY <1>1 DEF Known, store
  <2>2. \A t \in Sessions : Known(t)' => proxy'[t] # "unborn"
    BY <1>1, <1>2, <2>1 DEF Processes, RequestOK
  <2>3. \A id \in DOMAIN request : proxy[request[id].session] = "serving"
                                     => proxy'[request[id].session] = "serving"
    BY <1>1, <1>2 DEF Tables, Store!IsTable, Request
  <2> QED BY <1>1, <2>1, <2>2, <2>3 DEF Processes, RequestOK
<1>8. Promises'
  BY <1>1, <1>3 DEF Promises, Promised, ToldOpen, ToldSettled, Reply, Tables, store
<1>9. \A m \in wire' \ wire : MessageOK(m)'
  BY <1>1, <1>2, MeteringAssumption DEF Boot, Call, Attempt, MessageOK, StartPayload
<1> QED BY <1>4, <1>5, <1>6, <1>7, <1>8, <1>9, MovesIInv

LEMMA ServeIInv ==
  ASSUME IInv, NEW s \in Sessions, Serve(s)
  PROVE  IInv'
<1>1. /\ Tables /\ Processes /\ Calls /\ Promises
      /\ UNCHANGED <<store, request, wire>> /\ proxy[s] = "starting"
      /\ \A t \in Sessions : t \notin DOMAIN request
      /\ Store!currentSession' = Store!currentSession
  BY Start DEF Serve, store, Store!currentSession, Awaits, Tables
<1>2. /\ proxy' \in [Sessions -> {"unborn", "starting", "serving", "dead"}]
      /\ \A t \in Sessions \ {s} : proxy'[t] = proxy[t]
      /\ proxy'[s] = "serving"
  BY <1>1 DEF Serve, Tables
<1>3. /\ DOMAIN call' = DOMAIN call \ {s}
      /\ \A c \in DOMAIN call' : call'[c] = call[c]
  BY DEF Serve, Return, Store!Delete
<1>4. Moves
  BY <1>1, <1>2, <1>3 DEF Moves, ToldSettled, Reply, Tables
<1>5. Tables'
  <2>1. \A c \in DOMAIN call' : CallType(c)'
    BY <1>1, <1>3 DEF Tables, CallType, Reply, Replies, SessionOf
  <2>2. DOMAIN call' = {t \in Sessions : proxy'[t] = "starting"} \cup
                       {id \in DOMAIN request' : request'[id].step \in {"opening", "settling"}}
    BY <1>1, <1>2, <1>3 DEF Tables
  <2> QED BY <1>1, <1>2, <2>1, <2>2 DEF Tables, Store!IsTable
<1>6. Calls'
  <2> SUFFICES ASSUME NEW c \in DOMAIN call' PROVE CallOK(c)'
    BY DEF Calls
  <2>1. CASE c = s
    BY <1>1, <1>3, <2>1 DEF CallOK, At, Reply, StartPayload
  <2>2. CASE c # s
    <3>1. c \in DOMAIN call /\ CallOK(c) /\ call'[c] = call[c]
      BY <1>1, <1>3, <2>2 DEF Calls
    <3> QED BY <1>1, <3>1 DEF CallOK, At, Reply, StartPayload, OpenPayload, SettlePayload
  <2> QED BY <2>1, <2>2
<1>7. Processes'
  <2>1. \A t : Known(t)' <=> Known(t)
    BY <1>1 DEF Known, store
  <2>2. \A t \in Sessions : Known(t)' => proxy'[t] # "unborn"
    BY <1>1, <1>2, <2>1 DEF Processes, RequestOK
  <2>3. \A id \in DOMAIN request : proxy[request[id].session] = "serving"
                                     => proxy'[request[id].session] = "serving"
    BY <1>1, <1>2 DEF Tables, Store!IsTable, Request
  <2> QED BY <1>1, <2>1, <2>2, <2>3 DEF Processes, RequestOK
<1>8. Promises'
  BY <1>1, <1>3 DEF Promises, Promised, ToldOpen, ToldSettled, Reply, Tables, store
<1>9. wire' \ wire = {}
  BY <1>1
<1> QED BY <1>4, <1>5, <1>6, <1>7, <1>8, <1>9, MovesIInv

-----------------------------------------------------------------------------
(* The steps of a request: nobody else's request or call is touched.       *)
Kept(id) ==
  /\ request'[id].session = request[id].session /\ request'[id].hash = request[id].hash
  /\ request[id].step # "admitted" =>
       request'[id].step # "admitted" /\ request'[id].micros = request[id].micros
  /\ request[id].step \in Closing =>
       request'[id].step \in Closing /\ request'[id].charge = request[id].charge

LEMMA RequestStep ==
  ASSUME IInv, NEW id \in HoldIds, UNCHANGED <<store, proxy>>,
         DOMAIN request' = DOMAIN request \cup {id},
         request' \in [DOMAIN request' -> Request],
         \A x \in DOMAIN request \ {id} : request'[x] = request[x],
         id \in DOMAIN request => Kept(id),
         RequestOK(id)', Promised(id)',
         ToldSettled(id)' => id \in DOMAIN request /\ ToldSettled(id),
         DOMAIN call' \ {id} = DOMAIN call \ {id},
         \A c \in DOMAIN call \ {id} : call'[c] = call[c],
         id \in DOMAIN call' <=> request'[id].step \in {"opening", "settling"},
         id \in DOMAIN call' => (CallType(id) /\ CallOK(id))',
         \A m \in wire' \ wire : m.caller = id /\ m.attempt \in 1 .. MaxAttempts /\ MessageOK(m)'
  PROVE  IInv'
<1>1. /\ Tables /\ Processes /\ Calls /\ Promises
      /\ DOMAIN request \subseteq HoldIds /\ Sessions \cap HoldIds = {}
      /\ \A t \in Sessions : t \notin DOMAIN request
      /\ holds' = holds /\ settled_holds' = settled_holds /\ retired' = retired
      /\ Store!currentSession' = Store!currentSession /\ UNCHANGED store /\ proxy' = proxy
  BY Start DEF store, Store!currentSession
<1>2. \A c \in DOMAIN call' \ {id} : c \in DOMAIN call /\ call'[c] = call[c]
  OBVIOUS
<1>3. \A x \in DOMAIN request \ {id} : Reply(x)' = Reply(x) \/ x \notin DOMAIN call
  BY DEF Reply
<1>4. \A x \in DOMAIN request : ToldSettled(x) => request[x].step \in {"settling", "settled"}
  BY DEF ToldSettled
<1>5. Moves
  <2>1. \A x \in DOMAIN request' : ToldSettled(x)' => x \in DOMAIN request /\ ToldSettled(x)
    <3> SUFFICES ASSUME NEW x \in DOMAIN request \ {id}, ToldSettled(x)' PROVE ToldSettled(x)
      OBVIOUS
    <3> QED BY <1>1, <1>3 DEF ToldSettled, Tables
  <2> QED BY <1>1, <2>1 DEF Moves, Kept
<1>6. Tables'
  <2>1. DOMAIN call' = {t \in Sessions : proxy'[t] = "starting"} \cup
                       {x \in DOMAIN request' : request'[x].step \in {"opening", "settling"}}
    <3>1. DOMAIN call' \ {id} =
            ({t \in Sessions : proxy'[t] = "starting"} \cup
             {x \in DOMAIN request' : request'[x].step \in {"opening", "settling"}}) \ {id}
      BY <1>1 DEF Tables
    <3>2. id \in DOMAIN call' <=>
            id \in {t \in Sessions : proxy'[t] = "starting"} \cup
                   {x \in DOMAIN request' : request'[x].step \in {"opening", "settling"}}
      BY <1>1
    <3> QED BY <3>1, <3>2
  <2>2. ASSUME NEW c \in DOMAIN call' PROVE CallType(c)'
    <3>1. CASE c = id
      BY <3>1
    <3>2. CASE c # id
      <4>1. CallType(c) /\ call'[c] = call[c]
        BY <1>1, <1>2, <3>2 DEF Tables
      <4>2. SessionOf(c)' = SessionOf(c)
        BY <1>1, <1>2, <3>2 DEF SessionOf, Tables
      <4> QED BY <4>1, <4>2 DEF CallType, Reply, Replies
    <3> QED BY <3>1, <3>2
  <2>3. \A m \in wire' : m.caller \in Callers /\ m.attempt \in 1 .. MaxAttempts
    BY <1>1 DEF Tables, Callers
  <2> QED BY <1>1, <2>1, <2>2, <2>3 DEF Tables, Store!IsTable
<1>7. Calls'
  <2> SUFFICES ASSUME NEW c \in DOMAIN call' \ {id} PROVE CallOK(c)'
    BY DEF Calls
  <2>1. CallOK(c) /\ call'[c] = call[c]
    BY <1>1, <1>2 DEF Calls
  <2> QED BY <1>1, <2>1 DEF CallOK, At, Reply, StartPayload, OpenPayload, SettlePayload
<1>8. Processes'
  <2>1. \A x \in DOMAIN request \ {id} : RequestOK(x)'
    BY <1>1 DEF Processes, RequestOK, Known
  <2> QED BY <1>1, <2>1 DEF Processes, Known
<1>9. Promises'
  <2>1. ASSUME NEW x \in DOMAIN request \ {id} PROVE Promised(x)'
    <3>1. Promised(x)
      BY <1>1 DEF Promises
    <3>2. request'[x].step \in {"opening", "settling"} => Reply(x)' = Reply(x)
      BY <1>1, <1>3 DEF Tables
    <3> QED BY <1>1, <3>1, <3>2 DEF Promised, ToldOpen, ToldSettled
  <2> QED BY <2>1 DEF Promises
<1> QED BY <1>5, <1>6, <1>7, <1>8, <1>9, MovesIInv

LEMMA AdmitIInv ==
  ASSUME IInv, NEW s \in Sessions, NEW id \in HoldIds, NEW hash \in Hashes, Admit(s, id, hash)
  PROVE  IInv'
<1> DEFINE row == [step |-> "admitted", session |-> s, hash |-> hash, micros |-> 0, charge |-> 0]
<1>1. /\ UNCHANGED <<store, proxy, call, wire>>
      /\ proxy[s] = "serving" /\ id \notin DOMAIN request /\ s = Store!currentSession
      /\ DOMAIN request' = DOMAIN request \cup {id} /\ request'[id] = row
      /\ \A x \in DOMAIN request \ {id} : request'[x] = request[x]
      /\ request' = [x \in DOMAIN request' |-> request'[x]]
  BY DEF Admit, Store!Upsert, Store!getSessionBalance
<1>2. \A x \in DOMAIN request : request[x] \in Request
  BY Start
<1>3. row \in Request
  BY DEF Request
<1>4. request' \in [DOMAIN request' -> Request]
  BY <1>1, <1>2, <1>3
<1>5. RequestOK(id)'
  BY <1>1, MeteringAssumption DEF RequestOK, Known, store, Store!currentSession
<1>6. Promised(id)' /\ ~ToldSettled(id)'
  BY <1>1 DEF Promised, ToldOpen, ToldSettled
<1>7. id \notin DOMAIN call
  BY <1>1, Start DEF Tables
<1> QED BY <1>1, <1>4, <1>5, <1>6, <1>7, RequestStep

(* A waiting request is opening or settling.                               *)
LEMMA Waiting ==
  ASSUME IInv, NEW id \in HoldIds, id \in DOMAIN call
  PROVE  /\ id \in DOMAIN request /\ id \notin Sessions /\ CallOK(id) /\ CallType(id)
         /\ At(id, "opening") \/ At(id, "settling")
BY Start DEF Tables, Calls, At

(* What changes when a request's step alone does.                          *)
LEMMA StepAlone ==
  ASSUME IInv, NEW id \in DOMAIN request,
         NEW to \in {"held", "denied", "settled"}, Step(id, to), Return(id)
  PROVE  /\ DOMAIN request' = DOMAIN request /\ request' \in [DOMAIN request' -> Request]
         /\ \A x \in DOMAIN request \ {id} : request'[x] = request[x]
         /\ request'[id].step = to
         /\ request'[id].session = request[id].session /\ request'[id].hash = request[id].hash
         /\ request'[id].micros = request[id].micros /\ request'[id].charge = request[id].charge
         /\ DOMAIN call' = DOMAIN call \ {id} /\ \A c \in DOMAIN call' : call'[c] = call[c]
<1>1. request \in [DOMAIN request -> Request]
  BY Start DEF Tables, Store!IsTable
<1>2. /\ request[id] \in Request
      /\ request' = [request EXCEPT ![id] = [request[id] EXCEPT !.step = to]]
  BY <1>1 DEF Step
<1>3. /\ [request[id] EXCEPT !.step = to] \in Request
      /\ [request[id] EXCEPT !.step = to].step = to
      /\ [request[id] EXCEPT !.step = to].session = request[id].session
      /\ [request[id] EXCEPT !.step = to].hash = request[id].hash
      /\ [request[id] EXCEPT !.step = to].micros = request[id].micros
      /\ [request[id] EXCEPT !.step = to].charge = request[id].charge
  BY <1>2 DEF Request, Finished
<1> QED BY <1>1, <1>2, <1>3 DEF Return, Store!Delete

LEMMA AnsweredIInv ==
  ASSUME IInv, NEW id \in HoldIds, Answered(id)
  PROVE  IInv'
<1>1. id \in DOMAIN call /\ UNCHANGED <<store, proxy, wire>> /\ Return(id)
  BY DEF Answered, HoldOpened, HoldDenied, HoldSettled, Awaits
<1>2. /\ id \in DOMAIN request /\ id \notin Sessions /\ CallOK(id) /\ CallType(id)
      /\ At(id, "opening") \/ At(id, "settling")
      /\ RequestOK(id) /\ Promised(id)
  BY <1>1, Waiting, Start DEF Processes, Promises
<1>3. PICK to \in {"held", "denied", "settled"} :
        /\ Step(id, to)
        /\ to = "held" => At(id, "opening") /\ ToldOpen(id)
        /\ to = "denied" => At(id, "opening")
        /\ to = "settled" => At(id, "settling") /\ ToldSettled(id)
  <2>1. CASE HoldOpened(id)
    BY <1>2, <2>1, MeteringAssumption DEF HoldOpened, CallOK, At, ToldOpen
  <2>2. CASE HoldDenied(id)
    BY <1>2, <2>2, MeteringAssumption DEF HoldDenied, CallOK, At
  <2>3. CASE HoldSettled(id)
    BY <1>2, <2>3, MeteringAssumption DEF HoldSettled, CallOK, At, ToldSettled
  <2> QED BY <2>1, <2>2, <2>3 DEF Answered
<1>4. /\ DOMAIN request' = DOMAIN request /\ request' \in [DOMAIN request' -> Request]
      /\ \A x \in DOMAIN request \ {id} : request'[x] = request[x]
      /\ request'[id].step = to
      /\ request'[id].session = request[id].session /\ request'[id].hash = request[id].hash
      /\ request'[id].micros = request[id].micros /\ request'[id].charge = request[id].charge
      /\ DOMAIN call' = DOMAIN call \ {id} /\ \A c \in DOMAIN call' : call'[c] = call[c]
  BY <1>1, <1>2, <1>3, StepAlone
<1>5. Kept(id)
  BY <1>3, <1>4 DEF Kept, At, Closing
<1>6. RequestOK(id)'
  <2>1. proxy[request[id].session] = "serving"
    BY <1>2, <1>3 DEF RequestOK, At, Finished
  <2>2. proxy' = proxy /\ Known(request[id].session)'
    BY <1>1, <1>2, <1>4 DEF RequestOK, Known, store, Store!currentSession
  <2> QED BY <1>2, <1>3, <1>4, <2>1, <2>2 DEF RequestOK, Known
<1>7. ToldSettled(id)' => ToldSettled(id)
  BY <1>3, <1>4 DEF ToldSettled
<1>8. Promised(id)'
  <2>1. /\ holds' = holds /\ settled_holds' = settled_holds
        /\ Store!currentSession' = Store!currentSession
    BY <1>1 DEF store, Store!currentSession
  <2> QED BY <1>2, <1>3, <1>4, <1>7, <2>1 DEF Promised, ToldOpen
<1> QED BY <1>1, <1>2, <1>3, <1>4, <1>5, <1>6, <1>7, <1>8, RequestStep

(* A step that writes a request and calls the ledger.                      *)
LEMMA OpenHoldIInv ==
  ASSUME IInv, NEW id \in HoldIds, NEW micros \in Micros \cap Nat, OpenHold(id, micros)
  PROVE  IInv'
<1>1. /\ At(id, "admitted") /\ UNCHANGED <<store, proxy>>
      /\ request \in [DOMAIN request -> Request]
      /\ id \in DOMAIN request /\ request[id] \in Request /\ RequestOK(id)
      /\ id \notin DOMAIN call /\ id \notin Sessions
  BY Start DEF OpenHold, At, Tables, Store!IsTable, Processes
<1> DEFINE row == [request[id] EXCEPT !.step = "opening", !.micros = micros]
<1>2. row \in Request /\ row.step = "opening" /\ row.micros = micros
      /\ row.session = request[id].session /\ row.hash = request[id].hash
      /\ row.charge = request[id].charge
  BY <1>1 DEF Request
<1>3. request' = [request EXCEPT ![id] = row]
  BY <1>1 DEF OpenHold
<1>4. /\ DOMAIN request' = DOMAIN request /\ request' \in [DOMAIN request' -> Request]
      /\ \A x \in DOMAIN request \ {id} : request'[x] = request[x]
      /\ request'[id] = row
  <2> HIDE DEF row
  <2> QED BY <1>1, <1>2, <1>3
<1>5. OpenPayload(id)' = [op |-> "open_hold", session |-> request[id].session,
                          hash |-> request[id].hash, micros |-> micros]
  BY <1>2, <1>4 DEF OpenPayload
<1>6. /\ DOMAIN call' = DOMAIN call \cup {id}
      /\ \A c \in DOMAIN call \ {id} : call'[c] = call[c]
      /\ call'[id] = [attempt |-> 1, payload |-> OpenPayload(id)', reply |-> NoReply]
      /\ wire' = wire \cup {[caller |-> id, attempt |-> 1, payload |-> OpenPayload(id)']}
  BY <1>5 DEF OpenHold, Call, Store!Upsert, Attempt
<1> HIDE DEF row
<1>7. Kept(id)
  BY <1>1, <1>2, <1>4 DEF Kept, At, Closing
<1>8. RequestOK(id)'
  <2>1. Known(request[id].session)' /\ proxy' = proxy
    BY <1>1, <1>2, <1>4 DEF RequestOK, Known, store, Store!currentSession
  <2>2. proxy[request[id].session] = "serving" /\ request[id].charge = 0
    BY <1>1 DEF RequestOK, At, Finished
  <2>3. micros \in Nat /\ micros <= MaxSafeInteger
    BY MeteringAssumption
  <2> QED BY <1>2, <1>4, <2>1, <2>2, <2>3 DEF RequestOK, Known
<1>9. ~ToldSettled(id)' /\ Promised(id)'
  BY <1>2, <1>4, <1>6, MeteringAssumption DEF Promised, ToldOpen, ToldSettled, Reply
<1>10. (CallType(id) /\ CallOK(id))'
  <2>1. OpenPayload(id)'.session = request'[id].session
    BY DEF OpenPayload
  <2> QED BY <1>1, <1>2, <1>4, <1>6, <2>1, MeteringAssumption
          DEF CallType, CallOK, At, Reply, Replies, SessionOf
<1>11. \A m \in wire' \ wire : m.caller = id /\ m.attempt \in 1 .. MaxAttempts /\ MessageOK(m)'
  BY <1>1, <1>2, <1>4, <1>6, MeteringAssumption DEF MessageOK
<1> QED BY <1>1, <1>2, <1>4, <1>6, <1>7, <1>8, <1>9, <1>10, <1>11, RequestStep

LEMMA SettleHoldIInv ==
  ASSUME IInv, NEW id \in HoldIds, NEW actual \in Micros, SettleHold(id, actual)
  PROVE  IInv'
<1>1. /\ At(id, "held") /\ UNCHANGED <<store, proxy>>
      /\ request \in [DOMAIN request -> Request]
      /\ id \in DOMAIN request /\ request[id] \in Request /\ RequestOK(id) /\ Promised(id)
      /\ id \notin DOMAIN call /\ id \notin Sessions
  BY Start DEF SettleHold, At, Tables, Store!IsTable, Processes, Promises
<1> DEFINE charge == IF actual < 0 THEN 0
                     ELSE IF actual > request[id].micros THEN request[id].micros ELSE actual
           row == [request[id] EXCEPT !.step = "settling", !.charge = charge]
<1>2. charge \in Nat /\ charge <= request[id].micros
  BY <1>1, MeteringAssumption DEF Request
<1>3. request' = [request EXCEPT ![id] = row]
  BY <1>1 DEF SettleHold
<1>4. /\ call' = Store!Upsert(call, id,
           [attempt |-> 1, reply |-> NoReply,
            payload |-> [op |-> "settle_hold", session |-> request[id].session,
                         charge |-> charge]])
      /\ wire' = wire \cup {[caller |-> id, attempt |-> 1,
            payload |-> [op |-> "settle_hold", session |-> request[id].session,
                         charge |-> charge]]}
  BY DEF SettleHold, Call, Attempt
<1> HIDE DEF charge
<1>5. row \in Request /\ row.step = "settling" /\ row.micros = request[id].micros
      /\ row.session = request[id].session /\ row.hash = request[id].hash
      /\ row.charge = charge
  BY <1>1, <1>2 DEF Request
<1>6. /\ DOMAIN request' = DOMAIN request /\ request' \in [DOMAIN request' -> Request]
      /\ \A x \in DOMAIN request \ {id} : request'[x] = request[x]
      /\ request'[id] = row
  <2> HIDE DEF row
  <2> QED BY <1>1, <1>3, <1>5
<1>7. SettlePayload(id)' =
        [op |-> "settle_hold", session |-> request[id].session, charge |-> charge]
  BY <1>5, <1>6 DEF SettlePayload
<1>8. /\ DOMAIN call' = DOMAIN call \cup {id}
      /\ \A c \in DOMAIN call \ {id} : call'[c] = call[c]
      /\ call'[id] = [attempt |-> 1, payload |-> SettlePayload(id)', reply |-> NoReply]
      /\ wire' = wire \cup {[caller |-> id, attempt |-> 1, payload |-> SettlePayload(id)']}
  BY <1>4, <1>7 DEF Store!Upsert
<1> HIDE DEF row
<1>9. Kept(id)
  BY <1>1, <1>5, <1>6 DEF Kept, At, Closing
<1>10. RequestOK(id)'
  <2>1. Known(request[id].session)' /\ proxy' = proxy
    BY <1>1, <1>5, <1>6 DEF RequestOK, Known, store, Store!currentSession
  <2>2. proxy[request[id].session] = "serving" /\ request[id].micros <= MaxSafeInteger
    BY <1>1 DEF RequestOK, At, Finished
  <2> QED BY <1>2, <1>5, <1>6, <2>1, <2>2 DEF RequestOK, Known
<1>11. ~ToldSettled(id)'
  BY <1>5, <1>6, <1>8, MeteringAssumption DEF ToldSettled, Reply
<1>12. Promised(id)'
  <2>1. /\ holds' = holds /\ Store!currentSession' = Store!currentSession
    BY <1>1 DEF store, Store!currentSession
  <2> QED BY <1>1, <1>5, <1>6, <1>11, <2>1 DEF Promised, ToldOpen, At
<1>13. (CallType(id) /\ CallOK(id))'
  <2>1. SettlePayload(id)'.session = request'[id].session
    BY DEF SettlePayload
  <2> QED BY <1>1, <1>5, <1>6, <1>8, <2>1, MeteringAssumption
          DEF CallType, CallOK, At, Reply, Replies, SessionOf
<1>14. \A m \in wire' \ wire : m.caller = id /\ m.attempt \in 1 .. MaxAttempts /\ MessageOK(m)'
  BY <1>1, <1>5, <1>6, <1>8, MeteringAssumption DEF MessageOK, Closing
<1> QED BY <1>1, <1>5, <1>6, <1>8, <1>9, <1>10, <1>11, <1>12, <1>13, <1>14, RequestStep

-----------------------------------------------------------------------------
(* The ledger's steps *)

\* The answers a caller may get to the message it is waiting on.
Expected(m, outcome) ==
  m.caller \in DOMAIN call /\ call[m.caller].payload = m.payload =>
    /\ m.caller \in Sessions => outcome \in {"started", "current", "stale_session"}
    /\ At(m.caller, "opening") =>
         outcome \in {"opened", "already_open", "unknown_token", "insufficient_balance",
                      "stale_session"}
    /\ At(m.caller, "settling") => outcome \in {"settled", "already_settled", "stale_session"}

(* An answer changes the reply of the call it belongs to and nothing else. *)
LEMMA AnswerKeeps ==
  ASSUME IInv, NEW m \in wire, NEW outcome \in Replies, Answer(m, outcome),
         Expected(m, outcome)
  PROVE  /\ Tables' /\ Calls' /\ wire' \subseteq wire /\ UNCHANGED <<proxy, request>>
         /\ DOMAIN call' = DOMAIN call
         /\ \A c \in DOMAIN call \ {m.caller} : Reply(c)' = Reply(c)
         /\ m.caller \in DOMAIN call =>
              Reply(m.caller)' \in {Reply(m.caller), outcome}
<1>1. /\ Tables /\ Calls /\ wire' = wire \ {m} /\ UNCHANGED <<proxy, request>>
  BY Start DEF Answer
<1>2. \A c \in DOMAIN call : CallOK(c) /\ CallType(c)
  BY <1>1 DEF Calls, Tables
<1>3. /\ DOMAIN call' = DOMAIN call
      /\ \A c \in DOMAIN call \ {m.caller} : call'[c] = call[c]
  BY DEF Answer
<1>4. ASSUME m.caller \in DOMAIN call
      PROVE  /\ call'[m.caller].payload = call[m.caller].payload
             /\ call'[m.caller].attempt = call[m.caller].attempt
             /\ DOMAIN call'[m.caller] = DOMAIN call[m.caller]
             /\ \/ call'[m.caller].reply = call[m.caller].reply
                \/ call'[m.caller].reply = outcome /\ call[m.caller].payload = m.payload
  BY <1>2, <1>4 DEF Answer, CallOK
<1>5. Tables'
  <2>1. \A c \in DOMAIN call' : CallType(c)'
    BY <1>1, <1>2, <1>3, <1>4 DEF CallType, Reply, Replies, SessionOf
  <2> QED BY <1>1, <1>3, <2>1 DEF Tables, Store!IsTable
<1>6. Calls'
  <2> SUFFICES ASSUME NEW c \in DOMAIN call PROVE CallOK(c)'
    BY <1>3 DEF Calls
  <2>1. CASE c # m.caller
    BY <1>1, <1>2, <1>3, <2>1
       DEF CallOK, At, Reply, StartPayload, OpenPayload, SettlePayload
  <2>2. CASE c = m.caller
    BY <1>1, <1>2, <1>4, <2>2
       DEF CallOK, At, Reply, StartPayload, OpenPayload, SettlePayload, Expected
  <2> QED BY <2>1, <2>2
<1> QED BY <1>1, <1>3, <1>4, <1>5, <1>6 DEF Reply

(* A step of the ledger within a session, once its effect on the rows and  *)
(* on the bills is known.                                                  *)
LEMMA TakeStep ==
  ASSUME IInv, NEW m \in wire, NEW outcome \in Replies, Answer(m, outcome),
         Expected(m, outcome), L!IInv', Rows', Debited',
         Store!currentSession' = Store!currentSession, retired' = retired,
         outcome \in {"opened", "already_open"} => m.caller \in DOMAIN holds',
         outcome \in {"settled", "already_settled"} => m.caller \in DOMAIN settled_holds',
         \A id \in DOMAIN holds \ DOMAIN holds' :
           id \in DOMAIN settled_holds' /\ request[id].step \in Closing,
         DOMAIN settled_holds \subseteq DOMAIN settled_holds',
         NEW ids \in SUBSET DOMAIN request,
         \A id \in ids :
           /\ request[id].step \in Closing
           /\ request[id].session = Store!currentSession => id \in DOMAIN settled_holds',
         \A id \in DOMAIN request : ToldSettled(id) => id \in ids,
         DOMAIN settled_holds' \subseteq ids,
         \A hash \in Hashes : charged'[hash] = ChargesOfAll(request, hash, ids)
  PROVE  IInv'
<1>1. /\ Tables' /\ Calls' /\ wire' \subseteq wire /\ UNCHANGED <<proxy, request>>
      /\ DOMAIN call' = DOMAIN call
      /\ \A c \in DOMAIN call \ {m.caller} : Reply(c)' = Reply(c)
      /\ m.caller \in DOMAIN call => Reply(m.caller)' \in {Reply(m.caller), outcome}
  BY AnswerKeeps
<1>2. /\ Tables /\ Processes /\ Messages /\ Promises
  BY Start
<1>3. TypeOK'
  <2>1. TypeOK' <=> Store!TypeOK' /\ Tables'
    BY TablesType, PTL
  <2>2. L!IInv' => Store!TypeOK'
    BY StoreType, PTL
  <2> QED BY <1>1, <2>1, <2>2
<1>4. Processes'
  BY <1>1, <1>2 DEF Processes, RequestOK, Known
<1>5. Messages'
  BY <1>1, <1>2 DEF Messages, MessageOK, StartPayload, OpenPayload, SettlePayload
<1>6. \A id \in DOMAIN request : id \in DOMAIN call <=> request[id].step \in {"opening", "settling"}
  BY <1>2, Start DEF Tables
<1>7. ASSUME NEW id \in DOMAIN request
      PROVE  /\ ToldOpen(id)' => ToldOpen(id) \/ id \in DOMAIN holds'
             /\ ToldSettled(id)' => ToldSettled(id) \/ id \in DOMAIN settled_holds'
  BY <1>1, <1>6, <1>7 DEF ToldOpen, ToldSettled
<1>8. Promises'
  <2>1. ASSUME NEW id \in DOMAIN request PROVE Promised(id)'
    <3>1. Promised(id)
      BY <1>2 DEF Promises
    <3>2. ToldOpen(id) => request[id].step \notin Closing
      BY DEF ToldOpen, Closing
    <3> QED BY <1>1, <1>7, <3>1, <3>2 DEF Promised
  <2> QED BY <1>1, <2>1 DEF Promises
<1>9. Billed'
  <2>1. BilledTo(ids)'
    BY <1>1, <1>7 DEF BilledTo
  <2> QED BY <1>1, <2>1 DEF Billed
<1> QED BY <1>1, <1>3, <1>4, <1>5, <1>8, <1>9 DEF IInv

(* An answer without an effect on the store.                               *)
LEMMA TakeNothing ==
  ASSUME IInv, NEW m \in wire, NEW outcome \in Replies, Answer(m, outcome),
         Expected(m, outcome), UNCHANGED store,
         outcome \in {"opened", "already_open"} => m.caller \in DOMAIN holds,
         outcome \in {"settled", "already_settled"} => m.caller \in DOMAIN settled_holds
  PROVE  IInv'
<1>1. /\ UNCHANGED <<holds, settled_holds, charged, debits, retired, request>>
      /\ Store!currentSession' = Store!currentSession
  BY DEF store, Store!currentSession, Answer
<1>2. L!IInv'
  BY StoreSame DEF IInv
<1>3. Rows' /\ Debited'
  BY <1>1 DEF IInv, Rows, Debited, Journalled, Tombstoned
<1>4. PICK ids \in SUBSET DOMAIN request : BilledTo(ids)
  BY DEF IInv, Billed
<1> QED BY <1>1, <1>2, <1>3, <1>4, TakeStep DEF BilledTo

(* The library's sum is the same operator under every name.                *)
LEMMA SameLibrary ==
  /\ \A f, S : Store!SumFunctionOnSet(f, S) = L!SumFunctionOnSet(f, S)
  /\ \A f, S : Store!SumFunctionOnSet(f, S) = Accounts!SumFunctionOnSet(f, S)
  /\ \A S : Store!Cardinality(S) = L!Cardinality(S)
<1>1. \A f, S : Store!SumFunctionOnSet(f, S) = L!SumFunctionOnSet(f, S)
  BY DEF Store!SumFunctionOnSet, L!SumFunctionOnSet, Store!FoldFunctionOnSet,
         L!FoldFunctionOnSet, Store!MapThenFoldSet, L!MapThenFoldSet
<1>2. \A f, S : Store!SumFunctionOnSet(f, S) = Accounts!SumFunctionOnSet(f, S)
  BY DEF Store!SumFunctionOnSet, Accounts!SumFunctionOnSet, Store!FoldFunctionOnSet,
         Accounts!FoldFunctionOnSet, Store!MapThenFoldSet, Accounts!MapThenFoldSet
<1>3. \A S : Store!Cardinality(S) = L!Cardinality(S)
  BY DEF Store!Cardinality, L!Cardinality, Store!IsFiniteSet, L!IsFiniteSet
<1> QED BY <1>1, <1>2, <1>3

(* The store's operations are those LedgerProofs speaks of.                *)
LEMMA SameOperations ==
  /\ \A s \in Sessions : Store!StartSession(s) => L!StartSession(s)
  /\ \A s \in Sessions, hash \in Hashes, micros \in Int, id \in HoldIds :
       Store!TakeHold(s, hash, micros, id) => L!TakeHold(s, hash, micros, id)
  /\ \A s \in Sessions, id \in HoldIds, charge \in Int :
       Store!CloseHold(s, id, charge) => L!CloseHold(s, id, charge)
  /\ \A hash \in Hashes, micros \in Nat, key \in CreditKeys :
       Store!ApplyCredit(hash, micros, key) => L!ApplyCredit(hash, micros, key)
<1>1. \A s \in Sessions : Store!StartSession(s) => L!StartSession(s)
  BY SameLibrary
     DEF Store!StartSession, L!StartSession, Store!BeginOutcome, L!BeginOutcome,
         Store!currentSession, L!currentSession, Store!Refunded, L!Refunded,
         Store!getBalance, L!getBalance, Store!Reserved, L!Reserved,
         Store!HeldMicros, L!HeldMicros, Store!HoldsOf, L!HoldsOf,
         Store!ReservedInAll, L!ReservedInAll, Store!EmptyTable, L!EmptyTable
<1>2. \A s \in Sessions, hash \in Hashes, micros \in Int, id \in HoldIds :
        Store!TakeHold(s, hash, micros, id) => L!TakeHold(s, hash, micros, id)
  BY DEF Store!TakeHold, L!TakeHold, Store!OpenOutcome, L!OpenOutcome,
         Store!currentSession, L!currentSession, Store!SafeMicros, L!SafeMicros,
         Store!Upsert, L!Upsert
<1>3. \A s \in Sessions, id \in HoldIds, charge \in Int :
        Store!CloseHold(s, id, charge) => L!CloseHold(s, id, charge)
  BY DEF Store!CloseHold, L!CloseHold, Store!SettleOutcome, L!SettleOutcome,
         Store!currentSession, L!currentSession, Store!SafeMicros, L!SafeMicros,
         Store!Upsert, L!Upsert, Store!Delete, L!Delete, Store!Credit, L!Credit,
         Store!getBalance, L!getBalance
<1>4. \A hash \in Hashes, micros \in Nat, key \in CreditKeys :
        Store!ApplyCredit(hash, micros, key) => L!ApplyCredit(hash, micros, key)
  BY DEF Store!ApplyCredit, L!ApplyCredit, Store!CreditOutcome, L!CreditOutcome,
         Store!Credit, L!Credit, Store!getBalance, L!getBalance, Store!Upsert, L!Upsert
<1> QED BY <1>1, <1>2, <1>3, <1>4

LEMMA TakeStartSessionIInv ==
  ASSUME IInv, NEW m \in wire, TakeStartSession(m)
  PROVE  IInv'
<1> DEFINE s == m.payload.session
           outcome == Store!BeginOutcome(s)
<1>1. /\ Tables /\ Processes /\ Messages /\ Promises /\ Calls
      /\ m.caller \in Callers /\ MessageOK(m)
      /\ Sessions \cap HoldIds = {} /\ DOMAIN request \subseteq HoldIds
      /\ \A id \in DOMAIN request : request[id] \in Request
  BY Start DEF Messages, Tables
<1>2. /\ m.caller \in Sessions /\ m.payload = StartPayload(m.caller) /\ s = m.caller
      /\ proxy[s] # "unborn"
  BY <1>1 DEF TakeStartSession, MessageOK, Callers, OpenPayload, SettlePayload, StartPayload
<1>3. outcome \in {"started", "current", "stale_session"} /\ Answer(m, outcome)
  BY DEF TakeStartSession, Store!BeginOutcome
<1>4. outcome \in Replies /\ Expected(m, outcome)
  BY <1>1, <1>2, <1>3 DEF Replies, Expected, At
<1>5. CASE outcome # "started"
  <2>1. UNCHANGED store
    BY <1>5 DEF TakeStartSession, Store!BeginSession, Store!StartSession, Store!vars,
                Store!tables, store
  <2> HIDE DEF outcome
  <2> QED BY <1>3, <1>4, <2>1, TakeNothing
<1>6. CASE Store!StartSession(s)
  <2>1. L!IInv'
    BY <1>2, <1>6, SameOperations, L!StartSessionIInv, LedgerConstants DEF IInv
  <2>2. /\ Tables' /\ Calls' /\ wire' \subseteq wire /\ UNCHANGED <<proxy, request>>
        /\ DOMAIN call' = DOMAIN call
        /\ \A c \in DOMAIN call \ {m.caller} : Reply(c)' = Reply(c)
    <3> HIDE DEF outcome
    <3> QED BY <1>3, <1>4, AnswerKeeps
  <2>3. TypeOK'
    <3>1. TypeOK' <=> Store!TypeOK' /\ Tables'
      BY TablesType, PTL
    <3>2. L!IInv' => Store!TypeOK'
      BY StoreType, PTL
    <3> QED BY <2>1, <2>2, <3>1, <3>2
  <2>4. /\ s # Store!currentSession /\ s \notin retired
        /\ Store!currentSession' = s /\ DOMAIN holds' = {} /\ DOMAIN settled_holds' = {}
        /\ retired' = retired \cup ({Store!currentSession} \ {NoSession})
        /\ charged' = charged /\ debits' = debits
    BY <1>6 DEF Store!StartSession, Store!BeginOutcome, Store!EmptyTable, Store!currentSession
  <2>5. \A t \in Sessions : Known(t)' <=> Known(t) \/ t = s
    BY <2>4, MeteringAssumption DEF Known
  <2>6. \A id \in DOMAIN request : request[id].session \in Sessions \ {s}
    BY <1>1, <2>4 DEF Processes, RequestOK, Known, Request
  <2>7. Processes'
    <3>1. \A id \in DOMAIN request : RequestOK(id)'
      BY <1>1, <2>2, <2>5, <2>6 DEF Processes, RequestOK, Known
    <3> QED BY <1>1, <1>2, <2>2, <2>5, <3>1 DEF Processes
  <2>8. Messages'
    BY <1>1, <2>2 DEF Messages, MessageOK, StartPayload, OpenPayload, SettlePayload
  <2>9. Rows' /\ Promises'
    BY <2>2, <2>4, <2>6 DEF Rows, Promises, Promised
  <2>10. Billed'
    <3>1. PICK ids \in SUBSET DOMAIN request : BilledTo(ids)
      BY DEF IInv, Billed
    <3>2. \A id \in DOMAIN request : ToldSettled(id)' => ToldSettled(id)
      BY <1>1, <1>2, <2>2 DEF ToldSettled, Tables
    <3>3. BilledTo(ids)'
      BY <2>2, <2>4, <2>6, <3>1, <3>2 DEF BilledTo
    <3> QED BY <2>2, <3>1, <3>3 DEF Billed
  <2>11. Debited'
    BY <2>2, <2>4 DEF IInv, Debited
  <2> QED BY <2>1, <2>2, <2>3, <2>7, <2>8, <2>9, <2>10, <2>11 DEF IInv
<1> QED BY <1>5, <1>6 DEF TakeStartSession, Store!BeginSession

LEMMA OpenIsNotSettle == \A x, y \in HoldIds : OpenPayload(x) # SettlePayload(y)
BY DEF OpenPayload, SettlePayload

LEMMA TakeOpenHoldIInv ==
  ASSUME IInv, NEW m \in wire, TakeOpenHold(m)
  PROVE  IInv'
<1> DEFINE id == m.caller
           r == request[id]
           outcome == Store!OpenOutcome(r.session, r.hash, r.micros, id)
<1>1. /\ Tables /\ Processes /\ Messages /\ Calls
      /\ id \in Callers /\ MessageOK(m)
      /\ Sessions \cap HoldIds = {} /\ DOMAIN request \subseteq HoldIds
      /\ \A x \in DOMAIN request : request[x] \in Request
  BY Start DEF Messages, Tables
<1>2. /\ id \in HoldIds /\ id \in DOMAIN request /\ r.step # "admitted"
      /\ m.payload = OpenPayload(id)
  BY <1>1 DEF TakeOpenHold, MessageOK, Callers, OpenPayload, SettlePayload, StartPayload
<1>3. /\ r.session \in Sessions /\ r.hash \in Hashes /\ r.micros \in Nat
      /\ r.micros <= MaxSafeInteger
  BY <1>1, <1>2 DEF Request, Processes, RequestOK
<1>4. /\ m.payload.session = r.session /\ m.payload.hash = r.hash /\ m.payload.micros = r.micros
  BY <1>2 DEF OpenPayload
<1>5. /\ Store!OpenSessionHold(r.session, r.hash, r.micros, id) /\ Answer(m, outcome)
  BY <1>4 DEF TakeOpenHold
<1>6. /\ id \in DOMAIN holds =>
           holds[id] = [hash |-> r.hash, micros |-> r.micros, session_id |-> r.session]
      /\ id \in DOMAIN settled_holds => r.step \in Closing
  BY DEF IInv, Rows, Journalled
<1>7. /\ outcome \in {"opened", "already_open", "unknown_token", "insufficient_balance",
                      "stale_session", "conflict"}
      /\ outcome = "already_open" => id \in DOMAIN holds
      /\ outcome = "conflict" => r.step \in Closing
  BY <1>3, <1>6, MeteringAssumption DEF Store!OpenOutcome, Store!SafeMicros
<1> HIDE DEF outcome
<1>8. outcome \in Replies
  BY <1>7 DEF Replies
<1>9. Expected(m, outcome)
  <2>1. At(id, "settling") /\ id \in DOMAIN call => call[id].payload # m.payload
    BY <1>1, <1>2, OpenIsNotSettle DEF Calls, CallOK
  <2> QED BY <1>1, <1>2, <1>7, <2>1 DEF Expected, At, Closing
<1>10. CASE outcome # "opened"
  <2>1. UNCHANGED store
    BY <1>5, <1>10 DEF Store!OpenSessionHold, Store!TakeHold, Store!vars, Store!tables,
                       store, outcome
  <2> QED BY <1>5, <1>7, <1>8, <1>9, <1>10, <2>1, TakeNothing
<1>11. CASE outcome = "opened"
  <2>1. Store!TakeHold(r.session, r.hash, r.micros, id)
    BY <1>5, <1>11 DEF Store!OpenSessionHold, outcome
  <2>2. L!IInv'
    <3>1. L!TakeHold(r.session, r.hash, r.micros, id)
      BY <1>2, <1>3, <2>1, SameOperations
    <3> QED BY <1>2, <1>3, <3>1, L!TakeHoldIInv, LedgerConstants DEF IInv
  <2>3. /\ r.session = Store!currentSession /\ id \notin DOMAIN holds
        /\ id \notin DOMAIN settled_holds
    BY <1>3, <1>11, MeteringAssumption DEF Store!OpenOutcome, Store!SafeMicros, outcome
  <2>4. /\ DOMAIN holds' = DOMAIN holds \cup {id}
        /\ holds'[id] = [hash |-> r.hash, micros |-> r.micros, session_id |-> r.session]
        /\ \A x \in DOMAIN holds : holds'[x] = holds[x]
        /\ settled_holds' = settled_holds /\ charged' = charged /\ retired' = retired
        /\ Store!currentSession' = Store!currentSession /\ request' = request
        /\ debits' = [debits EXCEPT ![r.session][id] = @ + 1]
    BY <1>5, <2>1, <2>3 DEF Store!TakeHold, Store!Upsert, Store!currentSession, Answer
  <2>5. Rows'
    <3>1. \A x \in DOMAIN holds' :
            x \in DOMAIN request /\ request[x].step # "admitted" /\ Journalled(x)'
      BY <1>2, <2>4 DEF IInv, Rows, Journalled
    <3>2. \A x \in DOMAIN settled_holds :
            x \in DOMAIN request /\ request[x].step \in Closing /\ Tombstoned(x)'
      BY <2>4 DEF IInv, Rows, Tombstoned
    <3> QED BY <2>4, <3>1, <3>2 DEF Rows
  <2>6. Debited'
    <3>1. debits \in [Sessions -> [HoldIds -> Nat]]
      BY DEF IInv, TypeOK, Store!TypeOK
    <3>2. /\ debits'[r.session][id] > 0
          /\ \A s \in Sessions, x \in HoldIds :
               s # r.session \/ x # id => debits'[s][x] = debits[s][x]
      BY <1>2, <1>3, <2>4, <3>1
    <3>3. \A x \in DOMAIN holds \cup DOMAIN settled_holds : x \in HoldIds
      BY StoreFacts DEF IInv
    <3> QED BY <1>2, <1>3, <2>3, <2>4, <3>2, <3>3 DEF IInv, Debited
  <2>7. PICK ids \in SUBSET DOMAIN request : BilledTo(ids)
    BY DEF IInv, Billed
  <2> QED BY <1>5, <1>8, <1>9, <1>11, <2>2, <2>4, <2>5, <2>6, <2>7, TakeStep DEF BilledTo
<1> QED BY <1>10, <1>11

LEMMA TakeSettleHoldIInv ==
  ASSUME IInv, NEW m \in wire, TakeSettleHold(m)
  PROVE  IInv'
<1> DEFINE id == m.caller
           r == request[id]
           outcome == Store!SettleOutcome(r.session, id, r.charge)
<1>1. /\ Tables /\ Processes /\ Messages /\ Calls /\ Promises
      /\ id \in Callers /\ MessageOK(m)
      /\ Sessions \cap HoldIds = {} /\ DOMAIN request \subseteq HoldIds
      /\ \A x \in DOMAIN request : request[x] \in Request
  BY Start DEF Messages, Tables
<1>2. /\ id \in HoldIds /\ id \in DOMAIN request /\ r.step \in Closing
      /\ m.payload = SettlePayload(id)
  BY <1>1 DEF TakeSettleHold, MessageOK, Callers, OpenPayload, SettlePayload, StartPayload
<1>3. /\ r.session \in Sessions /\ r.hash \in Hashes /\ r.charge \in Nat /\ r.micros \in Nat
      /\ r.micros <= MaxSafeInteger /\ r.charge <= r.micros
  BY <1>1, <1>2 DEF Request, Processes, RequestOK
<1>4. m.payload.session = r.session /\ m.payload.charge = r.charge
  BY <1>2 DEF SettlePayload
<1>5. Store!SettleSessionHold(r.session, id, r.charge) /\ Answer(m, outcome)
  BY <1>4 DEF TakeSettleHold
<1>6. /\ id \in DOMAIN holds =>
           holds[id] = [hash |-> r.hash, micros |-> r.micros, session_id |-> r.session]
      /\ id \in DOMAIN settled_holds =>
           settled_holds[id] = [session_id |-> r.session, charged_micros |-> r.charge]
  BY DEF IInv, Rows, Journalled, Tombstoned
<1>7. /\ outcome \in {"settled", "already_settled", "stale_session", "unknown_hold"}
      /\ outcome = "already_settled" => id \in DOMAIN settled_holds
      /\ outcome = "unknown_hold" =>
           /\ r.session = Store!currentSession
           /\ id \notin DOMAIN holds /\ id \notin DOMAIN settled_holds
      /\ outcome = "settled" =>
           /\ r.session = Store!currentSession
           /\ id \in DOMAIN holds /\ id \notin DOMAIN settled_holds
  BY <1>3, <1>6, MeteringAssumption DEF Store!SettleOutcome, Store!SafeMicros
<1> HIDE DEF outcome
<1>8. outcome \in Replies
  BY <1>7 DEF Replies
<1>9. Expected(m, outcome)
  <2>1. At(id, "settling") => outcome # "unknown_hold"
    BY <1>1, <1>2, <1>7 DEF Promises, Promised, At
  <2> QED BY <1>1, <1>2, <1>7, <2>1 DEF Expected, At, Closing
<1>10. CASE outcome # "settled"
  <2>1. UNCHANGED store
    BY <1>5, <1>10 DEF Store!SettleSessionHold, Store!CloseHold, Store!vars, Store!tables,
                       store, outcome
  <2> QED BY <1>5, <1>7, <1>8, <1>9, <1>10, <2>1, TakeNothing
<1>11. CASE outcome = "settled"
  <2>1. Store!CloseHold(r.session, id, r.charge)
    BY <1>5, <1>11 DEF Store!SettleSessionHold, outcome
  <2>2. L!IInv'
    <3>1. L!CloseHold(r.session, id, r.charge)
      BY <1>2, <1>3, <2>1, SameOperations
    <3> QED BY <1>2, <1>3, <3>1, L!CloseHoldIInv, LedgerConstants DEF IInv
  <2>3. /\ r.session = Store!currentSession /\ id \in DOMAIN holds
        /\ id \notin DOMAIN settled_holds /\ holds[id].hash = r.hash
    BY <1>6, <1>7, <1>11
  <2>4. /\ DOMAIN holds' = DOMAIN holds \ {id}
        /\ \A x \in DOMAIN holds' : holds'[x] = holds[x]
        /\ DOMAIN settled_holds' = DOMAIN settled_holds \cup {id}
        /\ settled_holds'[id] = [session_id |-> r.session, charged_micros |-> r.charge]
        /\ \A x \in DOMAIN settled_holds : settled_holds'[x] = settled_holds[x]
        /\ retired' = retired /\ debits' = debits
        /\ Store!currentSession' = Store!currentSession /\ request' = request
        /\ charged' = [charged EXCEPT ![r.hash] = @ + r.charge]
    BY <1>5, <2>1, <2>3 DEF Store!CloseHold, Store!Upsert, Store!Delete,
                            Store!currentSession, Answer
  <2>5. Rows'
    <3>1. \A x \in DOMAIN holds' :
            x \in DOMAIN request /\ request[x].step # "admitted" /\ Journalled(x)'
      BY <2>4 DEF IInv, Rows, Journalled
    <3>2. \A x \in DOMAIN settled_holds' :
            x \in DOMAIN request /\ request[x].step \in Closing /\ Tombstoned(x)'
      BY <1>2, <2>4 DEF IInv, Rows, Tombstoned
    <3> QED BY <2>4, <3>1, <3>2 DEF Rows
  <2>6. Debited'
    BY <2>3, <2>4 DEF IInv, Debited
  <2>7. PICK ids \in SUBSET DOMAIN request : BilledTo(ids)
    BY DEF IInv, Billed
  <2>8. id \notin ids
    BY <2>3, <2>7 DEF BilledTo
  <2>9. \A hash \in Hashes : charged'[hash] = ChargesOfAll(request, hash, ids \cup {id})
    <3> SUFFICES ASSUME NEW hash \in Hashes
                 PROVE  charged'[hash] = ChargesOfAll(request, hash, ids \cup {id})
      OBVIOUS
    <3>1. /\ ChargesOfAll(request, hash, ids) \in Nat
          /\ ChargesOfAll(request, hash, ids \cup {id}) =
               ChargesOfAll(request, hash, ids)
                 + IF request[id].hash = hash THEN request[id].charge ELSE 0
      <4>1. \A x \in DOMAIN request : request[x].charge \in Nat
        BY <1>1 DEF Request
      <4> QED BY <1>1, <1>2, <2>8, <4>1, ChargesMore
    <3>2. charged[hash] = ChargesOfAll(request, hash, ids)
      BY <2>7 DEF BilledTo
    <3>3. charged \in [Hashes -> Nat]
      BY DEF IInv, TypeOK, Store!TypeOK
    <3> QED BY <1>3, <2>4, <3>1, <3>2, <3>3
  <2>10. /\ ids \cup {id} \in SUBSET DOMAIN request
         /\ \A x \in ids \cup {id} :
              /\ request[x].step \in Closing
              /\ request[x].session = Store!currentSession => x \in DOMAIN settled_holds'
         /\ \A x \in DOMAIN request : ToldSettled(x) => x \in ids \cup {id}
         /\ DOMAIN settled_holds' \subseteq ids \cup {id}
    BY <1>2, <2>4, <2>7 DEF BilledTo
  <2> QED BY <1>2, <1>5, <1>8, <1>9, <1>11, <2>2, <2>4, <2>5, <2>6, <2>9, <2>10, TakeStep
<1> QED BY <1>10, <1>11

LEMMA PayIInv ==
  ASSUME IInv, NEW hash \in Hashes, NEW micros \in Payments, NEW key \in CreditKeys,
         Pay(hash, micros, key)
  PROVE  IInv'
<1>1. /\ UNCHANGED <<proxy, request, call, wire, holds, retired, settled_holds, charged,
                     debits>>
      /\ Store!currentSession' = Store!currentSession
  BY DEF Pay, Store!ApplyCredit, Store!currentSession
<1>2. L!IInv'
  <2>1. micros \in Nat /\ micros \in Int \cap Nat
    BY MeteringAssumption
  <2>2. L!ApplyCredit(hash, micros, key)
    BY <2>1, SameOperations DEF Pay
  <2> QED BY <2>1, <2>2, L!ApplyCreditIInv, LedgerConstants DEF IInv
<1>3. Tables' /\ Processes' /\ Messages' /\ Calls'
  <2>1. Tables'
    BY <1>1, Start DEF Tables, Store!IsTable, CallType, Reply, Replies, SessionOf
  <2>2. Calls'
    BY <1>1, Start DEF Calls, CallOK, At, Reply, StartPayload, OpenPayload, SettlePayload
  <2>3. Processes' /\ Messages'
    BY <1>1, Start DEF Processes, RequestOK, Known, Messages, MessageOK, StartPayload,
                       OpenPayload, SettlePayload
  <2> QED BY <2>1, <2>2, <2>3
<1>4. Rows' /\ Promises' /\ Debited'
  BY <1>1 DEF IInv, Rows, Journalled, Tombstoned, Promises, Promised, ToldOpen, ToldSettled,
              Reply, Debited
<1>5. Billed'
  BY <1>1 DEF IInv, Billed, BilledTo, ToldSettled, Reply
<1>6. TypeOK'
  <2>1. TypeOK' <=> Store!TypeOK' /\ Tables'
    BY TablesType, PTL
  <2>2. L!IInv' => Store!TypeOK'
    BY StoreType, PTL
  <2> QED BY <1>2, <1>3, <2>1, <2>2
<1> QED BY <1>2, <1>3, <1>4, <1>5, <1>6 DEF IInv

LEMMA MeteringNext == IInv /\ [Next]_vars => IInv'
<1> SUFFICES ASSUME IInv, [Next]_vars PROVE IInv'
  OBVIOUS
<1>1. ASSUME NEW c \in Callers, Client(c) PROVE IInv'
  BY <1>1, ClientIInv
<1>2. ASSUME NEW s \in Sessions, ProxyStep(s) \/ Crash(s) PROVE IInv'
  BY <1>2, BootIInv, ServeIInv, ExitIInv DEF ProxyStep, Crash, StaleRead
<1>3. ASSUME NEW m \in wire, Take(m) PROVE IInv'
  BY <1>3, TakeStartSessionIInv, TakeOpenHoldIInv, TakeSettleHoldIInv DEF Take
<1>4. CASE UNCHANGED vars
  <2>1. UNCHANGED <<store, proxy, request, call, wire>>
    BY <1>4 DEF vars
  <2>2. /\ Store!currentSession' = Store!currentSession
        /\ UNCHANGED <<holds, retired, settled_holds, charged, debits>>
    BY <2>1 DEF store, Store!currentSession
  <2>3. Tables' /\ Calls'
    BY <2>1, Start DEF Tables, Store!IsTable, CallType, Calls, CallOK, At, Reply, Replies,
                       SessionOf, StartPayload, OpenPayload, SettlePayload
  <2>4. Processes' /\ Promises'
    BY <2>1, <2>2, Start DEF Processes, RequestOK, Known, Promises, Promised, ToldOpen,
                             ToldSettled, Reply
  <2>5. Moves
    BY <2>1 DEF Moves, ToldSettled, Reply
  <2> QED BY <2>1, <2>3, <2>4, <2>5, MovesIInv
<1> QED BY <1>1, <1>2, <1>3, <1>4, AdmitIInv, OpenHoldIInv, AnsweredIInv, SettleHoldIInv,
           PayIInv DEF Next

-----------------------------------------------------------------------------
(* Theorems *)

(* Requests, calls, messages and the ledger's rows say the same, at every  *)
(* point of every retry, crash and boot (client.ts:67-135, proxy.ts:24-60, *)
(* server.ts): the inductive invariant the theorems below follow from.     *)
THEOREM MeteringInvariant == Spec => []IInv
BY MeteringInit, MeteringNext, PTL DEF Spec

(* Whatever is retried, delayed, lost or killed: a boot or a request waits *)
(* for the ledger exactly when it has a call outstanding, every table is   *)
(* well formed and no balance is negative.                                 *)
THEOREM MeteringTypeOK == Spec => []TypeOK
<1>1. IInv => TypeOK
  BY DEF IInv
<1> QED BY <1>1, MeteringInvariant, PTL

(* Charges of more requests are no smaller a sum.                          *)
LEMMA ChargesGrow ==
  ASSUME NEW table, NEW hash, NEW ids \in SUBSET HoldIds, NEW more \in SUBSET HoldIds,
         ids \subseteq more, \A x \in DOMAIN table : table[x].charge \in Nat
  PROVE  ChargesOfAll(table, hash, ids) <= ChargesOfAll(table, hash, more)
<1> DEFINE f == [x \in DOMAIN table |-> table[x].charge]
           S == {x \in DOMAIN table : table[x].hash = hash /\ x \in ids}
           R == {x \in DOMAIN table : table[x].hash = hash /\ x \in more}
<1>1. /\ IsFiniteSet(R) /\ S \subseteq R /\ \A x \in R : f[x] \in Nat
  <2>1. R \in SUBSET HoldIds /\ S \subseteq R /\ \A x \in R : f[x] \in Nat
    OBVIOUS
  <2> HIDE DEF S, R, f
  <2> QED BY <2>1, MeteringAssumption, FS_Subset
<1>2. SumFunctionOnSet(f, S) <= SumFunctionOnSet(f, R)
  <2> HIDE DEF S, R, f
  <2> QED BY <1>1, SumGrows
<1> QED BY <1>2 DEF ChargesOfAll

LEMMA ChargesOfSteps ==
  ASSUME NEW hash, NEW steps
  PROVE  ChargesOf(hash, steps) =
           ChargesOfAll(request, hash, {id \in DOMAIN request : request[id].step \in steps})
<1>1. {id \in DOMAIN request : request[id].hash = hash /\ request[id].step \in steps} =
        {id \in DOMAIN request : request[id].hash = hash
           /\ id \in {x \in DOMAIN request : request[x].step \in steps}}
  OBVIOUS
<1> QED BY <1>1 DEF ChargesOf, ChargesOfAll

(* A proxy and the ledger never disagree about a request: the answers are  *)
(* those the operation expects, a hold reported open is journalled until   *)
(* it settles, a settlement reported is recorded with that charge, and the *)
(* token is charged what its requests were told, up to the settlements     *)
(* whose answer is outstanding or was lost with a process.                 *)
THEOREM MeteringJournal == Spec => []RequestsMatchJournal
<1>1. IInv => RequestsMatchJournal
  <2> SUFFICES ASSUME IInv PROVE RequestsMatchJournal
    OBVIOUS
  <2>1. NoProtocolFailure
    BY Start, MeteringAssumption DEF Tables, Calls, CallOK, At, NoProtocolFailure
  <2>2. HeldIsJournalled
    BY DEF IInv, Rows, Promises, Promised, ToldOpen, ToldSettled, HeldIsJournalled
  <2>3. BilledAsDecided
    <3>1. PICK ids \in SUBSET DOMAIN request : BilledTo(ids)
      BY DEF IInv, Billed
    <3> DEFINE Told == {id \in DOMAIN request : request[id].step \in {"settled"}}
               Perhaps == {id \in DOMAIN request : request[id].step \in {"settled", "settling", "lost"}}
    <3>2. Told \subseteq ids /\ ids \subseteq Perhaps
      BY <3>1 DEF BilledTo, ToldSettled, Closing
    <3>3. /\ ids \in SUBSET HoldIds /\ Told \in SUBSET HoldIds /\ Perhaps \in SUBSET HoldIds
          /\ \A x \in DOMAIN request : request[x].charge \in Nat
      BY Start DEF Request
    <3>4. ASSUME NEW hash \in Hashes
          PROVE  /\ ChargesOfAll(request, hash, Told) <= charged[hash]
                 /\ charged[hash] <= ChargesOfAll(request, hash, Perhaps)
      <4>1. charged[hash] = ChargesOfAll(request, hash, ids)
        BY <3>1 DEF BilledTo
      <4> HIDE DEF Told, Perhaps
      <4> QED BY <3>2, <3>3, <4>1, ChargesGrow
    <3> QED BY <3>4, ChargesOfSteps DEF BilledAsDecided
  <2> QED BY <2>1, <2>2, <2>3 DEF RequestsMatchJournal
<1> QED BY <1>1, MeteringInvariant, PTL

(* What a step does to the store.                                          *)
LEMMA StoreSteps ==
  ASSUME IInv, [Next]_vars
  PROVE  \/ UNCHANGED store
         \/ \E s \in Sessions : Store!StartSession(s)
         \/ \E id \in DOMAIN request :
              /\ id \in HoldIds /\ request[id] \in Request
              /\ Store!TakeHold(request[id].session, request[id].hash, request[id].micros, id)
         \/ \E id \in DOMAIN request :
              /\ id \in HoldIds /\ request[id] \in Request
              /\ Store!CloseHold(request[id].session, id, request[id].charge)
         \/ \E hash \in Hashes, micros \in 0 .. MaxSafeInteger, key \in CreditKeys :
              Store!ApplyCredit(hash, micros, key)
<1>1. CASE UNCHANGED vars
  BY <1>1 DEF vars
<1>2. ASSUME NEW c \in Callers, Client(c) PROVE UNCHANGED store
  BY <1>2 DEF Client, Retry, GiveUp, FatalReply, Exit
<1>3. ASSUME NEW s \in Sessions, ProxyStep(s) \/ Crash(s) PROVE UNCHANGED store
  BY <1>3 DEF ProxyStep, Boot, Serve, StaleRead, Crash, Exit
<1>4. ASSUME NEW id \in HoldIds, Answered(id) PROVE UNCHANGED store
  BY <1>4 DEF Answered, HoldOpened, HoldDenied, HoldSettled
<1>5. ASSUME NEW m \in wire, Take(m)
      PROVE  \/ UNCHANGED store
             \/ \E s \in Sessions : Store!StartSession(s)
             \/ \E id \in DOMAIN request :
                  /\ id \in HoldIds /\ request[id] \in Request
                  /\ Store!TakeHold(request[id].session, request[id].hash, request[id].micros, id)
             \/ \E id \in DOMAIN request :
                  /\ id \in HoldIds /\ request[id] \in Request
                  /\ Store!CloseHold(request[id].session, id, request[id].charge)
  <2>1. /\ m.caller \in Callers /\ MessageOK(m)
        /\ Sessions \cap HoldIds = {}
        /\ \A x \in DOMAIN request : request[x] \in Request
    BY Start DEF Messages, Tables
  <2>2. CASE TakeStartSession(m)
    <3>1. m.payload.session \in Sessions
      BY <2>1, <2>2 DEF TakeStartSession, MessageOK, Callers, OpenPayload, SettlePayload,
                        StartPayload
    <3> QED BY <2>2, <3>1 DEF TakeStartSession, Store!BeginSession, Store!vars, Store!tables, store
  <2>3. CASE TakeOpenHold(m)
    <3>1. /\ m.caller \in HoldIds /\ m.caller \in DOMAIN request
          /\ m.payload = OpenPayload(m.caller)
      BY <2>1, <2>3 DEF TakeOpenHold, MessageOK, Callers, OpenPayload, SettlePayload,
                        StartPayload
    <3>2. /\ m.payload.session = request[m.caller].session
          /\ m.payload.hash = request[m.caller].hash
          /\ m.payload.micros = request[m.caller].micros
      BY <3>1 DEF OpenPayload
    <3>3. \/ Store!TakeHold(request[m.caller].session, request[m.caller].hash,
                            request[m.caller].micros, m.caller)
          \/ UNCHANGED store
      BY <2>3, <3>2 DEF TakeOpenHold, Store!OpenSessionHold, Store!vars, Store!tables, store
    <3> QED BY <2>1, <3>1, <3>3
  <2>4. CASE TakeSettleHold(m)
    <3>1. /\ m.caller \in HoldIds /\ m.caller \in DOMAIN request
          /\ m.payload = SettlePayload(m.caller)
      BY <2>1, <2>4 DEF TakeSettleHold, MessageOK, Callers, OpenPayload, SettlePayload,
                        StartPayload
    <3>2. /\ m.payload.session = request[m.caller].session
          /\ m.payload.charge = request[m.caller].charge
      BY <3>1 DEF SettlePayload
    <3>3. \/ Store!CloseHold(request[m.caller].session, m.caller, request[m.caller].charge)
          \/ UNCHANGED store
      BY <2>4, <3>2 DEF TakeSettleHold, Store!SettleSessionHold, Store!vars, Store!tables, store
    <3> QED BY <2>1, <3>1, <3>3
  <2> QED BY <1>5, <2>2, <2>3, <2>4 DEF Take
<1>6. ASSUME NEW hash \in Hashes, NEW micros \in Payments, NEW key \in CreditKeys,
             Pay(hash, micros, key)
      PROVE  micros \in 0 .. MaxSafeInteger /\ Store!ApplyCredit(hash, micros, key)
  BY <1>6, MeteringAssumption DEF Pay
<1>7. ASSUME NEW s \in Sessions, NEW id \in HoldIds, NEW hash \in Hashes, Admit(s, id, hash)
      PROVE  UNCHANGED store
  BY <1>7 DEF Admit
<1>8. ASSUME NEW id \in HoldIds, NEW micros \in Micros,
             OpenHold(id, micros) \/ SettleHold(id, micros)
      PROVE  UNCHANGED store
  BY <1>8 DEF OpenHold, SettleHold
<1> QED BY <1>1, <1>2, <1>3, <1>4, <1>5, <1>6, <1>7, <1>8 DEF Next

(* The metering socket's callers use the store as Ledger allows: every     *)
(* behaviour of the proxies is one of Ledger, so what LedgerProofs proves  *)
(* for any caller (money is conserved, sessions are fenced, a hold is      *)
(* debited once) holds of metered requests.                                *)
THEOREM MeteringUsesLedger == Spec => L!Spec
<1>1. Init => L!Init
  BY DEF Init, Store!Init, L!Init, Store!EmptyTable, L!EmptyTable
<1>2. IInv /\ [Next]_vars => [L!Next]_L!vars
  <2> SUFFICES ASSUME IInv, [Next]_vars PROVE L!Next \/ UNCHANGED L!vars
    OBVIOUS
  <2>1. CASE UNCHANGED store
    BY <2>1 DEF store, L!vars, L!tables
  <2>2. ASSUME NEW s \in Sessions, Store!StartSession(s) PROVE L!Next
    BY <2>2, SameOperations DEF L!Next, L!BeginSession
  <2>3. ASSUME NEW id \in HoldIds, request[id] \in Request,
               Store!TakeHold(request[id].session, request[id].hash, request[id].micros, id)
        PROVE  L!Next
    <3>1. /\ request[id].session \in Sessions /\ request[id].hash \in Hashes
          /\ request[id].micros \in Int
      BY <2>3 DEF Request
    <3> QED BY <2>3, <3>1, SameOperations DEF L!Next, L!OpenSessionHold
  <2>4. ASSUME NEW id \in HoldIds, request[id] \in Request,
               Store!CloseHold(request[id].session, id, request[id].charge)
        PROVE  L!Next
    <3>1. request[id].session \in Sessions /\ request[id].charge \in Int
      BY <2>4 DEF Request
    <3> QED BY <2>4, <3>1, SameOperations DEF L!Next, L!SettleSessionHold
  <2>5. ASSUME NEW hash \in Hashes, NEW micros \in 0 .. MaxSafeInteger, NEW key \in CreditKeys,
               Store!ApplyCredit(hash, micros, key)
        PROVE  L!Next
    <3>1. micros \in Nat /\ micros \in Int /\ micros \in L!SafeMicros
      BY MeteringAssumption DEF L!SafeMicros
    <3> QED BY <2>5, <3>1, SameOperations DEF L!Next, L!CreditOnce
  <2> QED BY <2>1, <2>2, <2>3, <2>4, <2>5, StoreSteps
<1> QED BY <1>1, <1>2, MeteringInvariant, PTL DEF Spec, L!Spec

(* No micro is made or lost between the proxies and the ledger, for any    *)
(* token.                                                                  *)
THEOREM MeteringConservation == Spec => []L!Conservation
BY MeteringUsesLedger, L!LedgerConservation, LedgerConstants, PTL

(* However its client retries and its boots die, a session becomes current *)
(* at most once, and hold rows and tombstones belong to the current one.   *)
THEOREM MeteringFencing == Spec => []L!SessionsFenced
BY MeteringUsesLedger, L!LedgerFencing, LedgerConstants, PTL

(* An open_hold that is sent again, taken late or answered twice debits    *)
(* its token once in its session.                                          *)
THEOREM MeteringDebits == Spec => []L!DebitedAtMostOnce
BY MeteringUsesLedger, L!LedgerDebits, LedgerConstants, PTL

(* While a boot's session is current, its holds leave the journal only by  *)
(* their settlement, and what was settled is never rewritten.              *)
THEOREM MeteringClosing == Spec => L!ClosedOnlyBySettlement
BY MeteringUsesLedger, L!LedgerClosing, LedgerConstants, PTL

(* The owner of a token sees the promise of PrepaidAccounts and nothing    *)
(* else: a request reserves at most once, from money that is there, closes *)
(* once, and a boot's recovery returns every open reservation whole.       *)
THEOREM MeteringImplementsAccounts == Spec => ImplementsAccounts
<1> DEFINE Liens == [id \in DOMAIN holds |-> [token |-> holds[id].hash, micros |-> holds[id].micros]]
           Closed == {id \in HoldIds \ DOMAIN holds : \E s \in Sessions : debits[s][id] > 0}
<1>1. Init => Accounts!Init
  BY DEF Init, Store!Init, Store!EmptyTable, Accounts!Init
<1>2. ASSUME IInv
      PROVE  /\ holds \in [DOMAIN holds -> Store!HoldRow] /\ DOMAIN holds \subseteq HoldIds
             /\ tokens \in [DOMAIN tokens -> Nat] /\ DOMAIN tokens \subseteq Hashes
             /\ debits \in [Sessions -> [HoldIds -> Nat]]
             /\ charged \in [Hashes -> Nat]
             /\ \A id \in DOMAIN holds : holds[id].hash \in DOMAIN tokens
             /\ \A id \in DOMAIN holds : Store!currentSession \in Sessions
             /\ \A id \in DOMAIN holds : debits[Store!currentSession][id] > 0
  <2>1. Store!TypeOK /\ \A id \in DOMAIN holds : holds[id].session_id = Store!currentSession
    BY <1>2, StoreFacts DEF IInv
  <2>2. \A id \in DOMAIN holds : holds[id].hash \in DOMAIN tokens
    BY <1>2 DEF IInv, L!IInv, L!HashesKnown
  <2> QED BY <1>2, <2>1, <2>2 DEF Store!TypeOK, Store!IsTable, Store!HoldRow, IInv, Debited
<1>3. ASSUME IInv, NEW s \in Sessions, Store!StartSession(s)
      PROVE  Accounts!Recover
  <2>1. tokens' = [t \in DOMAIN tokens |->
          tokens[t] + Accounts!SumFunctionOnSet([r \in DOMAIN Liens |-> Liens[r].micros],
                                                {r \in DOMAIN Liens : Liens[r].token = t})]
    <3>1. [r \in DOMAIN Liens |-> Liens[r].micros] = Store!HeldMicros
      BY DEF Store!HeldMicros
    <3>2. \A t : {r \in DOMAIN Liens : Liens[r].token = t} = Store!HoldsOf(t)
      BY DEF Store!HoldsOf
    <3>3. DOMAIN tokens \cup {holds[id].hash : id \in DOMAIN holds} = DOMAIN tokens
      BY <1>2, <1>3
    <3> HIDE DEF Liens
    <3> QED BY <1>3, <3>1, <3>2, <3>3, SameLibrary
            DEF Store!StartSession, Store!Refunded, Store!Reserved, Store!getBalance
  <2>2. holds' = [r \in {} |-> 0] /\ charged' = charged /\ debits' = debits
    BY <1>3 DEF Store!StartSession, Store!EmptyTable
  <2>3. Liens' = [r \in {} |-> 0]
    BY <2>2
  <2>4. Closed' = Closed \cup DOMAIN Liens
    BY <1>2, <1>3, <2>2
  <2> QED BY <2>1, <2>2, <2>3, <2>4 DEF Accounts!Recover
<1>4. ASSUME IInv, NEW id \in DOMAIN request, id \in HoldIds, request[id] \in Request,
             Store!TakeHold(request[id].session, request[id].hash, request[id].micros, id)
      PROVE  Accounts!Next
  <2> DEFINE r == request[id]
  <2>1. /\ r.session \in Sessions /\ r.hash \in Hashes /\ r.micros \in Nat
    BY <1>4 DEF Request
  <2>2. /\ r.session = Store!currentSession /\ r.micros \in 0 .. MaxSafeInteger
        /\ id \notin DOMAIN holds /\ id \notin DOMAIN settled_holds
        /\ r.hash \in DOMAIN tokens /\ tokens[r.hash] >= r.micros
    <3>1. Store!OpenOutcome(r.session, r.hash, r.micros, id) = "opened"
      BY <1>4 DEF Store!TakeHold
    <3>2. /\ r.session = Store!currentSession /\ r.micros \in 0 .. MaxSafeInteger
          /\ id \notin DOMAIN holds /\ id \notin DOMAIN settled_holds
          /\ r.hash \in DOMAIN tokens /\ ~(tokens[r.hash] < r.micros)
      BY <3>1 DEF Store!OpenOutcome, Store!SafeMicros
    <3>3. tokens[r.hash] \in Nat
      BY <1>2, <1>4, <3>2
    <3> QED BY <2>1, <3>2, <3>3
  <2>3. id \notin Closed
    <3>1. debits[Store!currentSession][id] = 0
      BY <1>4, <2>1, <2>2, StoreFacts DEF IInv
    <3>2. \A s \in Sessions : debits[s][id] > 0 => s = Store!currentSession
      BY <1>4, <2>2 DEF IInv, Debited
    <3> QED BY <3>1, <3>2
  <2>4. /\ holds' = [k \in DOMAIN holds \cup {id} |->
                IF k = id THEN [hash |-> r.hash, micros |-> r.micros, session_id |-> r.session]
                ELSE holds[k]]
        /\ debits' = [debits EXCEPT ![r.session][id] = @ + 1]
        /\ tokens' = [tokens EXCEPT ![r.hash] = @ - r.micros] /\ charged' = charged
    BY <1>4 DEF Store!TakeHold, Store!Upsert
  <2>5. Liens' = [q \in DOMAIN Liens \cup {id} |->
                    IF q = id THEN [token |-> r.hash, micros |-> r.micros] ELSE Liens[q]]
    BY <2>4
  <2>6. Closed' = Closed
    <3>1. \A x \in HoldIds \ {id}, s \in Sessions : debits'[s][x] = debits[s][x]
      BY <1>2, <1>4, <2>1, <2>4
    <3> QED BY <2>3, <2>4, <3>1
  <2>7. ASSUME NEW hash, NEW micros, hash = r.hash, micros = r.micros
        PROVE  Accounts!Reserve(id, hash, micros)
    BY <2>2, <2>3, <2>4, <2>5, <2>6, <2>7 DEF Accounts!Reserve
  <2>8. PICK hash \in Hashes, micros \in 0 .. MaxSafeInteger : hash = r.hash /\ micros = r.micros
    BY <2>1, <2>2
  <2> QED BY <1>4, <2>7, <2>8 DEF Accounts!Next
<1>5. ASSUME IInv, NEW id \in DOMAIN request, id \in HoldIds, request[id] \in Request,
             Store!CloseHold(request[id].session, id, request[id].charge)
      PROVE  Accounts!Next
  <2> DEFINE charge == request[id].charge
  <2>1. /\ id \in DOMAIN holds /\ charge \in 0 .. MaxSafeInteger /\ charge <= holds[id].micros
        /\ holds[id].session_id = request[id].session
    <3>1. charge \in Nat /\ Store!SettleOutcome(request[id].session, id, charge) = "settled"
      BY <1>5 DEF Store!CloseHold, Request
    <3>2. /\ id \in DOMAIN holds /\ charge \in 0 .. MaxSafeInteger
          /\ ~(charge > holds[id].micros) /\ holds[id].session_id = request[id].session
      BY <3>1 DEF Store!SettleOutcome, Store!SafeMicros
    <3>3. holds[id].micros \in Nat
      BY <1>2, <1>5, <3>2 DEF Store!HoldRow
    <3> QED BY <3>1, <3>2, <3>3
  <2>2. holds[id].hash \in DOMAIN tokens /\ holds[id].hash \in Hashes
        /\ holds[id].micros \in Nat /\ tokens[holds[id].hash] \in Nat
        /\ charged[holds[id].hash] \in Nat
    BY <1>2, <1>5, <2>1 DEF Store!HoldRow
  <2>3. /\ tokens' = [k \in DOMAIN tokens \cup {holds[id].hash} |->
                        IF k = holds[id].hash
                        THEN tokens[holds[id].hash] + (holds[id].micros - charge)
                        ELSE tokens[k]]
        /\ holds' = [k \in DOMAIN holds \ {id} |-> holds[k]]
        /\ charged' = [charged EXCEPT ![holds[id].hash] = @ + charge]
        /\ debits' = debits
    BY <1>5, <2>2 DEF Store!CloseHold, Store!Credit, Store!Upsert, Store!Delete, Store!getBalance
  <2>4. tokens' = [tokens EXCEPT ![Liens[id].token] = @ + Liens[id].micros - charge]
    <3>1. DOMAIN tokens \cup {holds[id].hash} = DOMAIN tokens
      BY <2>2
    <3>2. tokens[holds[id].hash] + (holds[id].micros - charge) =
            tokens[holds[id].hash] + holds[id].micros - charge
      BY <2>1, <2>2
    <3>3. Liens[id].token = holds[id].hash /\ Liens[id].micros = holds[id].micros
      BY <2>1
    <3>4. tokens = [k \in DOMAIN tokens |-> tokens[k]]
      BY <1>2, <1>5
    <3> HIDE DEF Liens, charge
    <3> QED BY <2>3, <3>1, <3>2, <3>3, <3>4
  <2>5. Liens' = [q \in DOMAIN Liens \ {id} |-> Liens[q]]
    BY <2>3
  <2>6. Closed' = Closed \cup {id}
    BY <1>2, <1>5, <2>1, <2>3
  <2>7. ASSUME NEW micros, micros = charge
        PROVE  Accounts!Charge(id, micros)
    BY <2>1, <2>3, <2>4, <2>5, <2>6, <2>7 DEF Accounts!Charge
  <2>8. PICK micros \in 0 .. MaxSafeInteger : micros = charge
    BY <2>1
  <2> QED BY <1>5, <2>7, <2>8 DEF Accounts!Next
<1>6. ASSUME IInv, NEW hash \in Hashes, NEW micros \in 0 .. MaxSafeInteger, NEW key \in CreditKeys,
             Store!ApplyCredit(hash, micros, key)
      PROVE  Accounts!Next
  <2>1. /\ holds' = holds /\ debits' = debits /\ charged' = charged
        /\ tokens' = [k \in DOMAIN tokens \cup {hash} |->
             IF k = hash THEN (IF hash \in DOMAIN tokens THEN tokens[hash] ELSE 0) + micros
             ELSE tokens[k]]
    BY <1>6 DEF Store!ApplyCredit, Store!Credit, Store!Upsert, Store!getBalance
  <2>2. tokens' = [u \in DOMAIN tokens \cup {hash} |->
                     (IF u \in DOMAIN tokens THEN tokens[u] ELSE 0)
                       + (IF u = hash THEN micros ELSE 0)]
    <3>1. \A u \in DOMAIN tokens : tokens[u] \in Nat
      BY <1>2, <1>6
    <3> QED BY <2>1, <3>1
  <2>3. Liens' = Liens /\ Closed' = Closed
    BY <2>1
  <2>4. Accounts!Deposit(hash, micros)
    BY <2>1, <2>2, <2>3 DEF Accounts!Deposit
  <2> QED BY <2>4 DEF Accounts!Next
<1>7. IInv /\ [Next]_vars => [Accounts!Next]_(Accounts!vars)
  <2> SUFFICES ASSUME IInv, [Next]_vars PROVE Accounts!Next \/ UNCHANGED Accounts!vars
    OBVIOUS
  <2>1. CASE UNCHANGED store
    BY <2>1 DEF store, Accounts!vars
  <2>2. ASSUME NEW s \in Sessions, Store!StartSession(s) PROVE Accounts!Next
    BY <1>3, <2>2 DEF Accounts!Next
  <2> QED BY <1>4, <1>5, <1>6, <2>1, <2>2, StoreSteps
<1> QED BY <1>1, <1>7, MeteringInvariant, PTL DEF Spec, ImplementsAccounts, Accounts!Spec

=============================================================================
