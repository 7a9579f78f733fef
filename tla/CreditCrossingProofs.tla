------------------------ MODULE CreditCrossingProofs ------------------------
(***************************************************************************)
(* Proofs about the crossing of credits into the ledger, for any tokens,   *)
(* keys and shares: through crashes at any point, answers that are lost,   *)
(* late or repeated, and a backup that is put back at any time.            *)
(***************************************************************************)
EXTENDS CreditCrossing, SumLemmas

-----------------------------------------------------------------------------
(* The inductive invariant *)

OutboxRow ==
  [hash : Hashes \cup {NoHash}, micros : Nat, created_at : Nat, acked : BOOLEAN]
IsScrubbed(row) == row.acked /\ row.hash = NoHash

\* An outbox beside the markers of a ledger: a row says what is owed until its
\* marker is there, and is scrubbed only then.  (A restore may leave a marker
\* without its row, and what is enqueued again under it need not say the same.)
Faithful(outbox, applied) ==
  /\ Store!IsTable(outbox, CreditKeys, OutboxRow)
  /\ \A key \in DOMAIN outbox :
       /\ key \in DOMAIN owed
       /\ outbox[key].hash = NoHash => outbox[key].acked /\ key \in applied
       /\ outbox[key].hash # NoHash => outbox[key].micros \in Shares
       /\ key \notin applied =>
            outbox[key].hash = owed[key].hash /\ outbox[key].micros = owed[key].micros

\* Rows are scrubbed in the order of their age.
Ordered(outbox) ==
  \A i, j \in DOMAIN outbox :
    IsScrubbed(outbox[j]) /\ ~IsScrubbed(outbox[i]) =>
      outbox[j].created_at <= outbox[i].created_at

\* The tables on both sides, and the requests under way.
Tables ==
  /\ DOMAIN owed \subseteq CreditKeys
  /\ credited \in [Hashes -> Nat]
  /\ applied_orders \subseteq DOMAIN owed
  /\ DOMAIN owed \subseteq DOMAIN credit_outbox \cup applied_orders
  /\ Faithful(credit_outbox, applied_orders) /\ Ordered(credit_outbox)
  /\ \A m \in posted : /\ m.key \in DOMAIN owed
                       /\ m.key \notin applied_orders => m.payload = owed[m.key]

\* What the drain works on is what is not acknowledged, and it waits for the
\* oldest; an answer it has not seen yet is that of an applied credit.
Delivery ==
  /\ process = "down" => tick = "idle"
  /\ process = "up" => \A key \in DOMAIN credit_outbox :
                         credit_outbox[key].acked => IsScrubbed(credit_outbox[key])
  /\ IF tick = "draining" THEN work = listUnackedCredits ELSE work = {}
  /\ sending.key = NoKey => sending = NotSending
  /\ sending.key # NoKey => \A other \in work : ~Older(other, sending.key)
  /\ sending.answer # NoAnswer => sending.key \in applied_orders

\* Half a backup is an outbox that the ledger keeps matching; a whole one is a
\* pair of databases as good as the live ones.
Backup ==
  /\ artifact.stage \in {"none", "half", "complete"}
  /\ artifact.stage = "half" =>
       /\ DOMAIN artifact = {"stage", "outbox"}
       /\ Faithful(artifact.outbox, applied_orders) /\ Ordered(artifact.outbox)
  /\ artifact.stage = "complete" =>
       /\ Faithful(artifact.outbox, artifact.applied) /\ Ordered(artifact.outbox)
       /\ artifact.applied \subseteq DOMAIN owed
       /\ Store!IsTable(artifact.tokens, Hashes, Nat)
       /\ artifact.credited \in [Hashes -> Nat]
       /\ \A hash \in Hashes : artifact.credited[hash] = Owed(hash, artifact.applied)

IInv == TypeOK /\ CreditedAsOwed /\ Tables /\ Delivery /\ Backup

-----------------------------------------------------------------------------
(* What is owed to a token, of a table of credits *)

OwedOf(table, hash, keys) ==
  SumFunctionOnSet([key \in DOMAIN table |-> table[key].micros],
                   {key \in keys \cap DOMAIN table : table[key].hash = hash})

(* It is a natural number,                                                 *)
LEMMA OwedType ==
  ASSUME NEW table, NEW hash, NEW keys, IsFiniteSet(keys),
         \A key \in DOMAIN table : table[key].micros \in Nat
  PROVE  OwedOf(table, hash, keys) \in Nat
<1> DEFINE f == [key \in DOMAIN table |-> table[key].micros]
           S == {key \in keys \cap DOMAIN table : table[key].hash = hash}
<1>1. IsFiniteSet(S) /\ \A key \in S : f[key] \in Nat
  BY FS_Subset
<1>2. SumFunctionOnSet(f, S) \in Nat
  <2> HIDE DEF f, S
  <2> QED BY <1>1, SumType
<1> QED BY <1>2 DEF OwedOf

(* it depends on the credits in question only,                             *)
LEMMA OwedSame ==
  ASSUME NEW t, NEW u, NEW hash, NEW keys, IsFiniteSet(keys),
         keys \subseteq DOMAIN t, keys \subseteq DOMAIN u, \A key \in keys : t[key] = u[key]
  PROVE  OwedOf(t, hash, keys) = OwedOf(u, hash, keys)
<1> DEFINE f == [key \in DOMAIN t |-> t[key].micros]
           g == [key \in DOMAIN u |-> u[key].micros]
           S == {key \in keys \cap DOMAIN t : t[key].hash = hash}
<1>1. S = {key \in keys \cap DOMAIN u : u[key].hash = hash}
  OBVIOUS
<1>2. IsFiniteSet(S) /\ \A key \in S : f[key] = g[key]
  BY FS_Subset
<1>3. SumFunctionOnSet(f, S) = SumFunctionOnSet(g, S)
  <2> HIDE DEF f, g, S
  <2> QED BY <1>2, SumAgree
<1> QED BY <1>1, <1>3 DEF OwedOf

(* and one more key adds its own amount to its own token.                  *)
LEMMA OwedMore ==
  ASSUME NEW table, NEW hash, NEW keys, IsFiniteSet(keys),
         \A k \in DOMAIN table : table[k].micros \in Nat,
         NEW key \in DOMAIN table, key \notin keys
  PROVE  OwedOf(table, hash, keys \cup {key}) =
           OwedOf(table, hash, keys) + IF table[key].hash = hash THEN table[key].micros ELSE 0
<1> DEFINE f == [k \in DOMAIN table |-> table[k].micros]
           S == {k \in keys \cap DOMAIN table : table[k].hash = hash}
           R == {k \in (keys \cup {key}) \cap DOMAIN table : table[k].hash = hash}
<1>1. IsFiniteSet(S) /\ IsFiniteSet(R) /\ SumFunctionOnSet(f, S) \in Nat
  <2>1. IsFiniteSet(keys \cup {key})
    BY FS_AddElement
  <2>2. IsFiniteSet(S) /\ IsFiniteSet(R)
    BY <2>1, FS_Subset
  <2>3. \A k \in S : f[k] \in Nat
    OBVIOUS
  <2> HIDE DEF f, S, R
  <2> QED BY <2>2, <2>3, SumType
<1>2. CASE table[key].hash = hash
  <2>1. key \in R /\ R \ {key} = S /\ \A k \in R : f[k] \in Nat
    BY <1>2
  <2>2. f[key] = table[key].micros
    OBVIOUS
  <2>3. SumFunctionOnSet(f, R) = f[key] + SumFunctionOnSet(f, R \ {key})
    <3> HIDE DEF f, S, R
    <3> QED BY <1>1, <2>1, SumRemove
  <2>4. SumFunctionOnSet(f, R) = SumFunctionOnSet(f, S) + table[key].micros
    <3> HIDE DEF f, S, R
    <3> QED BY <1>1, <2>1, <2>2, <2>3
  <2> QED BY <1>2, <2>4 DEF OwedOf
<1>3. CASE table[key].hash # hash
  <2>1. R = S
    BY <1>3
  <2>2. SumFunctionOnSet(f, R) = SumFunctionOnSet(f, S) + 0
    <3> HIDE DEF f, S, R
    <3> QED BY <1>1, <2>1
  <2> QED BY <1>3, <2>2 DEF OwedOf
<1> QED BY <1>2, <1>3

(* In this module's terms, before and after a step.                        *)
LEMMA CreditedIs ==
  /\ CreditedAsOwed <=>
       \A hash \in Hashes : credited[hash] = OwedOf(owed, hash, applied_orders)
  /\ CreditedAsOwed' <=>
       \A hash \in Hashes : credited'[hash] = OwedOf(owed', hash, applied_orders')
BY DEF CreditedAsOwed, Owed, OwedOf

\* Sets of keys are finite, and so are amounts.
LEMMA FiniteKeys ==
  ASSUME IInv
  PROVE  /\ IsFiniteSet(applied_orders) /\ IsFiniteSet(DOMAIN credit_outbox)
         /\ \A key \in DOMAIN owed : owed[key].micros \in Nat /\ owed[key].hash \in Hashes
BY CrossingAssumption, FS_Subset DEF IInv, TypeOK, Store!IsTable, Payload

\* The tables on both sides, or the backup, as one step leaves them.
LEMMA TablesSame ==
  ASSUME Tables, UNCHANGED <<ledger, credit_outbox, posted, owed>> PROVE Tables'
BY DEF Tables, ledger, Faithful, Ordered

LEMMA BackupSame ==
  ASSUME Backup, UNCHANGED <<ledger, artifact, owed>> PROVE Backup'
<1>1. (\A hash \in Hashes : artifact.credited[hash] = Owed(hash, artifact.applied)) =>
      (\A hash \in Hashes : artifact.credited[hash] = Owed(hash, artifact.applied))'
  BY DEF Owed
<1> QED BY <1>1 DEF Backup, ledger, Faithful, Ordered

LEMMA CreditedSame ==
  ASSUME CreditedAsOwed, UNCHANGED <<ledger, owed>> PROVE CreditedAsOwed'
BY CreditedIs DEF ledger

\* A credit names a token and a natural amount, and makes a row.
LEMMA PayloadType ==
  ASSUME NEW payload \in Payload
  PROVE  /\ payload.hash \in Hashes /\ payload.hash # NoHash
         /\ payload.micros \in Nat /\ payload.micros \in Shares
         /\ \A at \in Nat, acked \in BOOLEAN : Row(payload, at, acked) \in OutboxRow
<1>1. payload.hash \in Hashes /\ payload.micros \in Shares
  BY DEF Payload
<1>2. Shares \subseteq Nat /\ NoHash \notin Hashes
  <2>1. MaxSafeInteger \in Nat /\ Shares \subseteq 0 .. MaxSafeInteger
    BY CrossingAssumption
  <2>2. 0 .. MaxSafeInteger \subseteq Nat
    BY <2>1
  <2> QED BY <2>1, <2>2, CrossingAssumption
<1>3. payload.hash # NoHash /\ payload.micros \in Nat
  BY <1>1, <1>2
<1> QED BY <1>1, <1>3 DEF Row, OutboxRow

-----------------------------------------------------------------------------
(* The invariant holds at first *)

LEMMA CrossingInit == Init => IInv
<1> SUFFICES ASSUME Init PROVE IInv
  OBVIOUS
<1>1. PICK old \in SUBSET CreditKeys : \E done \in SUBSET old :
        /\ owed \in [old -> Payload]
        /\ credit_outbox = [key \in old |-> Row(owed[key], 0, TRUE)]
        /\ applied_orders = done
  BY DEF Init
<1>2. /\ DOMAIN owed = old /\ \A key \in old : owed[key] \in Payload
      /\ DOMAIN credit_outbox = old /\ applied_orders \subseteq old
      /\ \A key \in old : credit_outbox[key] = Row(owed[key], 0, TRUE)
  BY <1>1
<1>3. \A payload \in Payload :
        /\ payload.hash \in Hashes /\ payload.hash # NoHash
        /\ payload.micros \in Nat /\ payload.micros \in Shares
        /\ Row(payload, 0, TRUE) \in OutboxRow
  BY PayloadType
<1>4. IsFiniteSet(applied_orders)
  BY <1>2, CrossingAssumption, FS_Subset
<1>5. /\ credited = [hash \in Hashes |-> OwedOf(owed, hash, applied_orders)]
      /\ tokens = [hash \in {owed[key].hash : key \in applied_orders} |-> credited[hash]]
  BY DEF Init, Owed, OwedOf
<1>6. \A hash \in Hashes : credited[hash] \in Nat
  BY <1>2, <1>3, <1>4, <1>5, OwedType
<1>7. Faithful(credit_outbox, applied_orders) /\ Ordered(credit_outbox)
  <2>1. \A key \in old : /\ credit_outbox[key] \in OutboxRow
                         /\ credit_outbox[key].hash = owed[key].hash
                         /\ credit_outbox[key].hash # NoHash
                         /\ credit_outbox[key].micros = owed[key].micros
                         /\ credit_outbox[key].micros \in Shares
    BY <1>2, <1>3 DEF Row
  <2>2. credit_outbox \in [old -> OutboxRow]
    BY <1>1, <1>2, <2>1
  <2>3. Ordered(credit_outbox)
    BY <1>2, <2>1 DEF Ordered, IsScrubbed
  <2> QED BY <1>2, <2>1, <2>2, <2>3 DEF Faithful, Store!IsTable
<1>8. Store!IsTable(tokens, Hashes, Nat)
  BY <1>2, <1>3, <1>5, <1>6 DEF Store!IsTable
<1>9. TypeOK
  BY <1>2, <1>7, <1>8 DEF TypeOK, Init, Faithful, OutboxRow, NotSending, NoArtifact
<1>10. Tables
  BY <1>2, <1>5, <1>6, <1>7 DEF Tables, Init
<1>11. CreditedAsOwed
  BY <1>5, CreditedIs
<1>12. Delivery
  BY DEF Delivery, Init, NotSending
<1>13. Backup
  BY DEF Backup, Init, NoArtifact
<1> QED BY <1>9, <1>10, <1>11, <1>12, <1>13 DEF IInv

\* More is owed, or applied: what was owed for the keys of a backup still is.
LEMMA OwedGrows ==
  ASSUME IInv, artifact' = artifact,
         \A key \in DOMAIN owed : key \in DOMAIN owed' /\ owed'[key] = owed[key],
         applied_orders \subseteq applied_orders'
  PROVE  /\ Backup'
         /\ UNCHANGED <<credited, applied_orders>> => CreditedAsOwed'
<1>1. Backup /\ Tables
  BY DEF IInv
<1>2. \A hash, keys : keys \subseteq DOMAIN owed => OwedOf(owed, hash, keys) = OwedOf(owed', hash, keys)
  <2> SUFFICES ASSUME NEW hash, NEW keys, keys \subseteq DOMAIN owed
               PROVE  OwedOf(owed, hash, keys) = OwedOf(owed', hash, keys)
    OBVIOUS
  <2>1. IsFiniteSet(keys)
    BY <1>1, CrossingAssumption, FS_Subset DEF Tables
  <2> QED BY <2>1, OwedSame
<1>3. ASSUME artifact.stage = "half"
      PROVE  /\ DOMAIN artifact = {"stage", "outbox"}
             /\ Faithful(artifact.outbox, applied_orders)' /\ Ordered(artifact.outbox)'
  <2>1. DOMAIN artifact = {"stage", "outbox"} /\ Ordered(artifact.outbox)
        /\ Faithful(artifact.outbox, applied_orders)
    BY <1>1, <1>3 DEF Backup
  <2> QED BY <2>1 DEF Faithful, Ordered
<1>4. ASSUME artifact.stage = "complete"
      PROVE  /\ Faithful(artifact.outbox, artifact.applied)' /\ Ordered(artifact.outbox)'
             /\ artifact.applied \subseteq DOMAIN owed'
             /\ Store!IsTable(artifact.tokens, Hashes, Nat)
             /\ artifact.credited \in [Hashes -> Nat]
             /\ \A hash \in Hashes :
                  artifact.credited[hash] = OwedOf(owed', hash, artifact.applied)
  <2>1. /\ Ordered(artifact.outbox) /\ artifact.applied \subseteq DOMAIN owed
        /\ Faithful(artifact.outbox, artifact.applied)
        /\ Store!IsTable(artifact.tokens, Hashes, Nat)
        /\ artifact.credited \in [Hashes -> Nat]
        /\ \A hash \in Hashes : artifact.credited[hash] = OwedOf(owed, hash, artifact.applied)
    BY <1>1, <1>4 DEF Backup, Owed, OwedOf
  <2>2. Faithful(artifact.outbox, artifact.applied)' /\ Ordered(artifact.outbox)'
    BY <2>1 DEF Faithful, Ordered
  <2>3. artifact.applied \subseteq DOMAIN owed'
    BY <2>1
  <2> QED BY <1>2, <2>1, <2>2, <2>3
<1>5. Backup'
  BY <1>1, <1>3, <1>4 DEF Backup, Owed, OwedOf
<1>6. UNCHANGED <<credited, applied_orders>> => CreditedAsOwed'
  BY <1>1, <1>2, CreditedIs DEF IInv, Tables
<1> QED BY <1>5, <1>6

-----------------------------------------------------------------------------
(* ... and is kept by the payments process *)

\* A boot takes back every acknowledgement that kept its payload, and scrubs none.
LEMMA StartKeeps == ASSUME IInv, Start PROVE IInv'
<1>1. /\ DOMAIN credit_outbox' = DOMAIN credit_outbox
      /\ \A key \in DOMAIN credit_outbox :
           /\ IsScrubbed(credit_outbox[key]) \/ ~credit_outbox[key].acked =>
                credit_outbox'[key] = credit_outbox[key]
           /\ credit_outbox[key].acked /\ ~IsScrubbed(credit_outbox[key]) =>
                credit_outbox'[key] = [credit_outbox[key] EXCEPT !.acked = FALSE]
  BY DEF Start, Scrubbed, IsScrubbed
<1>2. \A key \in DOMAIN credit_outbox : credit_outbox[key] \in OutboxRow
  BY DEF IInv, Tables, Faithful, Store!IsTable
<1>3. \A key \in DOMAIN credit_outbox :
        /\ credit_outbox'[key] \in OutboxRow
        /\ credit_outbox'[key].hash = credit_outbox[key].hash
        /\ credit_outbox'[key].micros = credit_outbox[key].micros
        /\ credit_outbox'[key].created_at = credit_outbox[key].created_at
        /\ IsScrubbed(credit_outbox'[key]) <=> IsScrubbed(credit_outbox[key])
        /\ credit_outbox'[key].acked => IsScrubbed(credit_outbox'[key])
  BY <1>1, <1>2 DEF OutboxRow, IsScrubbed
<1>4. credit_outbox' \in [DOMAIN credit_outbox' -> OutboxRow]
  <2>1. credit_outbox' = [key \in DOMAIN credit_outbox |-> credit_outbox'[key]]
    BY DEF Start
  <2> QED BY <1>1, <1>3, <2>1
<1>5. Faithful(credit_outbox, applied_orders)' /\ Ordered(credit_outbox)'
  <2>1. Faithful(credit_outbox, applied_orders) /\ Ordered(credit_outbox)
    BY DEF IInv, Tables
  <2>2. applied_orders' = applied_orders /\ owed' = owed
    BY DEF Start, ledger
  <2>3. Ordered(credit_outbox)'
    BY <1>1, <1>3, <2>1 DEF Ordered
  <2>4. Faithful(credit_outbox, applied_orders)'
    BY <1>1, <1>3, <1>4, <2>1, <2>2 DEF Faithful, Store!IsTable, IsScrubbed
  <2> QED BY <2>3, <2>4
<1>6. TypeOK'
  BY <1>1, <1>5 DEF IInv, TypeOK, Start, ledger, backup, Faithful, OutboxRow, Store!IsTable
<1>7. Tables' /\ CreditedAsOwed' /\ Backup'
  <2>1. CreditedAsOwed' /\ Backup'
    BY BackupSame, CreditedSame DEF IInv, Start, backup
  <2>2. Tables'
    BY <1>5 DEF IInv, Tables, Start, ledger
  <2> QED BY <2>1, <2>2
<1>8. Delivery'
  BY <1>1, <1>3 DEF IInv, TypeOK, Delivery, Start, ledger, NotSending
<1> QED BY <1>6, <1>7, <1>8 DEF IInv

\* A crash takes the tick down with the process.
LEMMA CrashKeeps == ASSUME IInv, Crash PROVE IInv'
<1>1. TypeOK'
  BY DEF IInv, TypeOK, Crash, ledger, backup, NotSending
<1>2. Tables' /\ CreditedAsOwed' /\ Backup'
  BY TablesSame, BackupSame, CreditedSame DEF IInv, Crash, backup
<1>3. Delivery'
  BY DEF Delivery, Crash, NotSending
<1> QED BY <1>1, <1>2, <1>3 DEF IInv

LEMMA PollKeeps == ASSUME IInv, Poll PROVE IInv'
<1>1. TypeOK'
  BY DEF IInv, TypeOK, Poll, ledger, backup
<1>2. Tables' /\ CreditedAsOwed' /\ Backup'
  BY TablesSame, BackupSame, CreditedSame DEF IInv, Poll, backup
<1>3. Delivery'
  BY DEF IInv, Delivery, Poll, NotSending, Older, ledger
<1> QED BY <1>1, <1>2, <1>3 DEF IInv

\* The clock of a new row is not behind that of any other.
LEMMA NewestRow ==
  ASSUME IInv, NEW at \in {0, 1}
  PROVE  LET last == {credit_outbox[k].created_at : k \in DOMAIN credit_outbox} \cup {0}
             now == (CHOOSE t \in last : \A u \in last : u <= t) + at
         IN  now \in Nat /\ \A key \in DOMAIN credit_outbox : credit_outbox[key].created_at <= now
<1> DEFINE times == {credit_outbox[k].created_at : k \in DOMAIN credit_outbox}
           last == times \cup {0}
           f == [k \in DOMAIN credit_outbox |-> credit_outbox[k].created_at]
           t0 == CHOOSE t \in last : \A u \in last : u <= t
<1>1. \A key \in DOMAIN credit_outbox : credit_outbox[key].created_at \in Nat
  BY DEF IInv, Tables, Faithful, Store!IsTable, OutboxRow
<1>2. IsFiniteSet(times)
  <2>1. f \in Surjection(DOMAIN credit_outbox, times)
    BY DEF Surjection
  <2> HIDE DEF f, times
  <2> QED BY <2>1, FiniteKeys, FS_Surjection
<1>3. last \in SUBSET Nat /\ last # {} /\ IsFiniteSet(last)
  BY <1>1, <1>2, FS_AddElement
<1>4. t0 \in last /\ \A u \in last : u <= t0
  <2> HIDE DEF last
  <2> QED BY <1>3, GreatestElement
<1>5. t0 \in Nat /\ \A key \in DOMAIN credit_outbox : credit_outbox[key].created_at <= t0
  BY <1>3, <1>4
<1> HIDE DEF t0
<1>6. t0 + at \in Nat /\ \A key \in DOMAIN credit_outbox : credit_outbox[key].created_at <= t0 + at
  BY <1>1, <1>5
<1> QED BY <1>6 DEF t0

\* A new key is owed and listed, after all others; a known one changes nothing.
LEMMA EnqueueKeeps ==
  ASSUME IInv, NEW key \in CreditKeys, NEW payload \in Payload, Enqueue(key, payload)
  PROVE  IInv'
<1> USE DEF Store!Upsert, Store!IsTable
<1>1. /\ tick = "polling" /\ process = "up" /\ work = {} /\ sending = NotSending
      /\ UNCHANGED <<ledger, process, tick, work, sending, posted, crashes, backup>>
  BY DEF Enqueue, IInv, TypeOK, Delivery
<1>2. /\ DOMAIN owed' = DOMAIN owed \cup {key}
      /\ \A k \in DOMAIN owed : owed'[k] = owed[k]
      /\ \A k \in DOMAIN owed' : owed'[k] \in Payload
      /\ key \notin DOMAIN owed => owed'[key] = payload
  BY DEF Enqueue, IInv, TypeOK
<1>3. PICK now \in Nat :
        /\ \A k \in DOMAIN credit_outbox : credit_outbox[k].created_at <= now
        /\ credit_outbox' = IF key \in DOMAIN credit_outbox THEN credit_outbox
                            ELSE Store!Upsert(credit_outbox, key, Row(payload, now, FALSE))
  BY NewestRow DEF Enqueue
<1>4. /\ payload.hash \in Hashes /\ payload.hash # NoHash /\ payload.micros \in Shares
      /\ Row(payload, now, FALSE) \in OutboxRow
  BY PayloadType
<1>5. /\ DOMAIN credit_outbox' = DOMAIN credit_outbox \cup {key}
      /\ \A k \in DOMAIN credit_outbox : credit_outbox'[k] = credit_outbox[k]
      /\ key \notin DOMAIN credit_outbox =>
           /\ credit_outbox'[key].hash = payload.hash
           /\ credit_outbox'[key].micros = payload.micros
           /\ credit_outbox'[key].created_at = now
           /\ credit_outbox'[key].acked = FALSE
  BY <1>3 DEF Row
<1>6. credit_outbox' \in [DOMAIN credit_outbox' -> OutboxRow]
  BY <1>3, <1>4 DEF IInv, Tables, Faithful
<1>7. Faithful(credit_outbox, applied_orders)'
  <2>1. Faithful(credit_outbox, applied_orders) /\ applied_orders' = applied_orders
        /\ applied_orders \subseteq DOMAIN owed /\ DOMAIN credit_outbox \subseteq DOMAIN owed
    BY <1>1 DEF IInv, Tables, Faithful, ledger
  <2>2. \A k \in DOMAIN credit_outbox' :
          /\ k \in DOMAIN owed'
          /\ credit_outbox'[k].hash = NoHash => credit_outbox'[k].acked /\ k \in applied_orders
          /\ credit_outbox'[k].hash # NoHash => credit_outbox'[k].micros \in Shares
          /\ k \notin applied_orders =>
               credit_outbox'[k].hash = owed'[k].hash /\ credit_outbox'[k].micros = owed'[k].micros
    <3>1. CASE key \in DOMAIN credit_outbox
      BY <1>2, <1>5, <2>1, <3>1 DEF Faithful
    <3>2. CASE key \notin DOMAIN credit_outbox
      <4>1. key \notin applied_orders => key \notin DOMAIN owed
        BY <3>2 DEF IInv, Tables
      <4> QED BY <1>2, <1>4, <1>5, <2>1, <3>2, <4>1 DEF Faithful
    <3> QED BY <3>1, <3>2
  <2> QED BY <1>5, <1>6, <2>1, <2>2 DEF Faithful
<1>8. Ordered(credit_outbox)'
  <2>1. Ordered(credit_outbox) /\ (\A k \in DOMAIN credit_outbox : credit_outbox[k].created_at \in Nat)
    BY DEF IInv, Tables, Faithful, OutboxRow
  <2>2. key \notin DOMAIN credit_outbox => ~IsScrubbed(credit_outbox'[key])
    BY <1>5 DEF IsScrubbed
  <2> SUFFICES ASSUME NEW i \in DOMAIN credit_outbox', NEW j \in DOMAIN credit_outbox',
                      IsScrubbed(credit_outbox'[j]), ~IsScrubbed(credit_outbox'[i])
               PROVE  credit_outbox'[j].created_at <= credit_outbox'[i].created_at
    BY DEF Ordered
  <2>3. j \in DOMAIN credit_outbox
    BY <1>5, <2>2
  <2>4. CASE i \in DOMAIN credit_outbox
    BY <1>5, <2>1, <2>3, <2>4 DEF Ordered
  <2>5. CASE i \notin DOMAIN credit_outbox
    BY <1>3, <1>5, <2>3, <2>5
  <2> QED BY <2>4, <2>5
<1>9. Tables'
  <2>1. Tables /\ credited' = credited /\ applied_orders' = applied_orders /\ posted' = posted
    BY <1>1 DEF IInv, ledger
  <2>2. \A m \in posted' : /\ m.key \in DOMAIN owed'
                           /\ m.key \notin applied_orders' => m.payload = owed'[m.key]
    BY <1>2, <2>1 DEF Tables
  <2>3. /\ DOMAIN owed' \subseteq CreditKeys /\ applied_orders' \subseteq DOMAIN owed'
        /\ DOMAIN owed' \subseteq DOMAIN credit_outbox' \cup applied_orders'
    BY <1>2, <1>5, <2>1 DEF Tables
  <2> QED BY <1>7, <1>8, <2>1, <2>2, <2>3 DEF Tables
<1>10. TypeOK'
  BY <1>1, <1>2, <1>6, <1>9
     DEF IInv, TypeOK, Tables, Faithful, OutboxRow, NotSending, ledger, backup
<1>11. CreditedAsOwed' /\ Backup'
  BY <1>1, <1>2, OwedGrows DEF ledger, backup, IInv
<1>12. Delivery'
  BY <1>1, <1>5 DEF IInv, Delivery, NotSending, IsScrubbed
<1> QED BY <1>9, <1>10, <1>11, <1>12 DEF IInv

\* The drain lists what is not acknowledged.
LEMMA DrainKeeps == ASSUME IInv, Drain PROVE IInv'
<1>1. sending = NotSending
  BY DEF IInv, Drain, Delivery, TypeOK
<1>2. TypeOK'
  BY <1>1 DEF IInv, TypeOK, Drain, ledger, backup, NotSending, listUnackedCredits
<1>3. Tables' /\ CreditedAsOwed' /\ Backup'
  BY TablesSame, BackupSame, CreditedSame DEF IInv, Drain, backup
<1>4. Delivery'
  BY <1>1 DEF IInv, Delivery, Drain, NotSending, listUnackedCredits, ledger
<1> QED BY <1>2, <1>3, <1>4 DEF IInv

\* What is sent is what the row says, and the row is the oldest of those listed.
LEMMA SendKeeps == ASSUME IInv, NEW key \in CreditKeys, Send(key) PROVE IInv'
<1>1. /\ tick = "draining" /\ key \in work /\ work = listUnackedCredits
      /\ sending' = [sending EXCEPT !.key = key] /\ sending.answer = NoAnswer
      /\ \A other \in work : ~Older(other, key)
      /\ posted' = posted \cup {[key |-> key, payload |-> PayloadOf(key)]}
      /\ UNCHANGED <<ledger, credit_outbox, process, tick, work, crashes, backup, owed>>
  BY DEF Send, IInv, Delivery, NotSending
<1>2. /\ key \in DOMAIN credit_outbox /\ ~credit_outbox[key].acked
      /\ Faithful(credit_outbox, applied_orders)
  BY <1>1 DEF listUnackedCredits, IInv, Tables
<1>3. PayloadOf(key) \in Payload
  <2>1. credit_outbox[key].hash \in Hashes /\ credit_outbox[key].micros \in Shares
    BY <1>2 DEF Faithful, OutboxRow, Store!IsTable
  <2> QED BY <2>1 DEF PayloadOf, Payload
<1>4. key \in DOMAIN owed /\ (key \notin applied_orders => PayloadOf(key) = owed[key])
  <2>1. key \in DOMAIN owed /\ owed[key] \in Payload
    BY <1>2 DEF Faithful, IInv, TypeOK
  <2>2. key \notin applied_orders => /\ credit_outbox[key].hash = owed[key].hash
                                     /\ credit_outbox[key].micros = owed[key].micros
    BY <1>2 DEF Faithful
  <2> QED BY <2>1, <2>2 DEF PayloadOf, Payload
<1>5. sending' = [key |-> key, answer |-> NoAnswer]
  BY <1>1 DEF IInv, TypeOK
<1>6. TypeOK'
  <2>1. sending' \in [key : {NoKey} \cup work', answer : {NoAnswer, "applied", "already_applied"}]
    BY <1>1, <1>5
  <2>2. posted' \subseteq [key : CreditKeys, payload : Payload]
    BY <1>1, <1>3 DEF IInv, TypeOK
  <2> QED BY <1>1, <2>1, <2>2 DEF IInv, TypeOK, ledger, backup
<1>7. Tables'
  <2>1. \A m \in posted' : /\ m.key \in DOMAIN owed
                           /\ m.key \notin applied_orders => m.payload = owed[m.key]
    <3> SUFFICES ASSUME NEW m \in posted'
                 PROVE  /\ m.key \in DOMAIN owed
                        /\ m.key \notin applied_orders => m.payload = owed[m.key]
      OBVIOUS
    <3>1. CASE m \in posted
      BY <3>1 DEF IInv, Tables
    <3>2. CASE m = [key |-> key, payload |-> PayloadOf(key)]
      BY <1>4, <3>2
    <3> QED BY <1>1, <3>1, <3>2
  <2>2. /\ Faithful(credit_outbox, applied_orders)' /\ Ordered(credit_outbox)'
    BY <1>1, <1>2 DEF IInv, Tables, Faithful, Ordered, ledger
  <2> QED BY <1>1, <2>1, <2>2 DEF IInv, Tables, ledger
<1>8. CreditedAsOwed' /\ Backup'
  BY <1>1, BackupSame, CreditedSame DEF IInv, backup
<1>9. Delivery'
  <2>1. key # NoKey
    BY CrossingAssumption
  <2>2. \A other \in work' : ~Older(other, key)'
    BY <1>1 DEF Older
  <2> QED BY <1>1, <1>5, <2>1, <2>2 DEF IInv, Delivery, listUnackedCredits, Older
<1> QED BY <1>6, <1>7, <1>8, <1>9 DEF IInv

\* The row that gives up its payload is applied, and the oldest of those left.
LEMMA AckKeeps == ASSUME IInv, Ack PROVE IInv'
<1> DEFINE key == sending.key
<1>1. /\ sending.answer # NoAnswer /\ key # NoKey /\ key \in work
      /\ tick = "draining" /\ process = "up" /\ work = listUnackedCredits
      /\ key \in DOMAIN credit_outbox /\ key \in applied_orders
      /\ \A other \in work : ~Older(other, key)
  BY DEF Ack, IInv, TypeOK, Delivery, NotSending, listUnackedCredits
<1>2. /\ work' = work \ {key} /\ sending' = NotSending
      /\ UNCHANGED <<ledger, process, tick, posted, crashes, backup, owed>>
      /\ credit_outbox' = [credit_outbox EXCEPT ![key] =
           [@ EXCEPT !.acked = TRUE, !.hash = NoHash, !.micros = 0]]
  BY DEF Ack
<1> HIDE DEF key
<1>3. Faithful(credit_outbox, applied_orders) /\ Ordered(credit_outbox)
      /\ (\A k \in DOMAIN credit_outbox : credit_outbox[k] \in OutboxRow)
  BY DEF IInv, Tables, Faithful, Store!IsTable
<1>4. /\ DOMAIN credit_outbox' = DOMAIN credit_outbox
      /\ \A k \in DOMAIN credit_outbox : k # key => credit_outbox'[k] = credit_outbox[k]
      /\ credit_outbox'[key] = [hash |-> NoHash, micros |-> 0, acked |-> TRUE,
                                created_at |-> credit_outbox[key].created_at]
  BY <1>1, <1>2, <1>3 DEF OutboxRow
<1>5. credit_outbox' \in [DOMAIN credit_outbox' -> OutboxRow]
  <2>1. \A k \in DOMAIN credit_outbox' : credit_outbox'[k] \in OutboxRow
    <3>1. credit_outbox[key].created_at \in Nat
      BY <1>1, <1>3 DEF OutboxRow
    <3>2. credit_outbox'[key] \in OutboxRow
      BY <1>4, <3>1 DEF OutboxRow
    <3> QED BY <1>3, <1>4, <3>2
  <2>2. credit_outbox' = [k \in DOMAIN credit_outbox |-> credit_outbox'[k]]
    BY <1>2, <1>3 DEF Faithful, Store!IsTable
  <2> QED BY <1>4, <2>1, <2>2
<1>6. Faithful(credit_outbox, applied_orders)'
  <2>1. applied_orders' = applied_orders /\ owed' = owed
    BY <1>2 DEF ledger
  <2>2. \A k \in DOMAIN credit_outbox' :
          /\ k \in DOMAIN owed
          /\ credit_outbox'[k].hash = NoHash => credit_outbox'[k].acked /\ k \in applied_orders
          /\ credit_outbox'[k].hash # NoHash => credit_outbox'[k].micros \in Shares
          /\ k \notin applied_orders =>
               credit_outbox'[k].hash = owed[k].hash /\ credit_outbox'[k].micros = owed[k].micros
    BY <1>1, <1>3, <1>4 DEF Faithful
  <2>3. DOMAIN credit_outbox' \subseteq CreditKeys
    BY <1>3, <1>4 DEF Faithful, Store!IsTable
  <2> QED BY <1>5, <2>1, <2>2, <2>3 DEF Faithful, Store!IsTable
<1>7. Ordered(credit_outbox)'
  <2> SUFFICES ASSUME NEW i \in DOMAIN credit_outbox', NEW j \in DOMAIN credit_outbox',
                      IsScrubbed(credit_outbox'[j]), ~IsScrubbed(credit_outbox'[i])
               PROVE  credit_outbox'[j].created_at <= credit_outbox'[i].created_at
    BY DEF Ordered
  <2>1. i # key /\ i \in DOMAIN credit_outbox /\ credit_outbox'[i] = credit_outbox[i]
    BY <1>4 DEF IsScrubbed
  <2>2. CASE j # key
    BY <1>3, <1>4, <2>1, <2>2 DEF Ordered
  <2>3. CASE j = key
    <3>1. i \in work
      BY <1>1, <2>1 DEF listUnackedCredits, IInv, Delivery
    <3>2. ~(credit_outbox[i].created_at < credit_outbox[key].created_at)
      BY <1>1, <3>1 DEF Older
    <3>3. credit_outbox[i].created_at \in Nat /\ credit_outbox[key].created_at \in Nat
      BY <1>1, <1>3, <2>1 DEF OutboxRow
    <3> QED BY <1>4, <2>1, <2>3, <3>2, <3>3
  <2> QED BY <2>2, <2>3
<1>8. Tables'
  BY <1>2, <1>4, <1>6, <1>7 DEF IInv, Tables, ledger
<1>9. TypeOK'
  BY <1>1, <1>2, <1>4, <1>5
     DEF IInv, TypeOK, OutboxRow, Store!IsTable, ledger, backup, NotSending
<1>10. CreditedAsOwed' /\ Backup'
  BY <1>2, BackupSame, CreditedSame DEF IInv, backup
<1>11. Delivery'
  <2>1. work' = listUnackedCredits'
    BY <1>1, <1>2, <1>4 DEF listUnackedCredits
  <2>2. \A k \in DOMAIN credit_outbox' : credit_outbox'[k].acked => IsScrubbed(credit_outbox'[k])
    BY <1>1, <1>4 DEF IInv, Delivery, IsScrubbed
  <2> QED BY <1>1, <1>2, <2>1, <2>2 DEF Delivery, NotSending
<1> QED BY <1>8, <1>9, <1>10, <1>11 DEF IInv

\* No answer: the rest waits, and nothing is given up.
LEMMA AmbiguousKeeps == ASSUME IInv, Ambiguous PROVE IInv'
<1>1. TypeOK'
  BY DEF IInv, TypeOK, Ambiguous, ledger, backup, NotSending
<1>2. Tables' /\ CreditedAsOwed' /\ Backup'
  BY TablesSame, BackupSame, CreditedSame DEF IInv, Ambiguous, backup
<1>3. Delivery'
  BY DEF IInv, Delivery, Ambiguous, NotSending, ledger
<1> QED BY <1>1, <1>2, <1>3 DEF IInv

LEMMA DrainedKeeps == ASSUME IInv, Drained PROVE IInv'
<1>1. TypeOK'
  BY DEF IInv, TypeOK, Drained, ledger, backup
<1>2. Tables' /\ CreditedAsOwed' /\ Backup'
  BY TablesSame, BackupSame, CreditedSame DEF IInv, Drained, backup
<1>3. Delivery'
  BY DEF IInv, Delivery, Drained, NotSending, ledger, Older
<1> QED BY <1>1, <1>2, <1>3 DEF IInv

-----------------------------------------------------------------------------
(* ... by the ledger process *)

\* A request is applied in the amount that is owed for its key, once.
LEMMA ApplyKeeps ==
  ASSUME IInv, NEW m \in posted, Apply(m), UNCHANGED <<credit_outbox, posted, owed, artifact>>
  PROVE  /\ Tables' /\ CreditedAsOwed' /\ Backup'
         /\ Store!IsTable(tokens, Hashes, Nat)' /\ applied_orders' \subseteq CreditKeys
         /\ applied_orders' = applied_orders \cup {m.key}
<1> DEFINE key == m.key
           hash == m.payload.hash
           micros == m.payload.micros
<1>1. /\ key \in DOMAIN owed /\ key \in CreditKeys /\ hash \in Hashes /\ micros \in Nat
      /\ key \notin applied_orders => hash = owed[key].hash /\ micros = owed[key].micros
  <2>1. m \in [key : CreditKeys, payload : Payload]
    BY DEF IInv, TypeOK
  <2>2. hash \in Hashes /\ micros \in Nat
    BY <2>1, PayloadType
  <2>3. key \in DOMAIN owed /\ (key \notin applied_orders => m.payload = owed[key])
    BY DEF IInv, Tables
  <2> QED BY <2>1, <2>2, <2>3
<1>2. /\ Tables /\ CreditedAsOwed /\ Store!IsTable(tokens, Hashes, Nat)
      /\ applied_orders \subseteq CreditKeys
  BY DEF IInv, TypeOK
<1> HIDE DEF key, hash, micros
<1>3. CASE Store!ApplyCredit(hash, micros, key)
  <2>1. /\ key \notin applied_orders
        /\ applied_orders' = applied_orders \cup {key}
        /\ credited' = [credited EXCEPT ![hash] = @ + micros]
        /\ tokens' = Store!Upsert(tokens, hash, Store!getBalance(hash) + micros)
    BY <1>3 DEF Store!ApplyCredit, Store!CreditOutcome, Store!Credit
  <2>2. Store!IsTable(tokens, Hashes, Nat)'
    <3>1. Store!getBalance(hash) \in Nat
      BY <1>2 DEF Store!getBalance, Store!IsTable
    <3>2. Store!getBalance(hash) + micros \in Nat
      BY <1>1, <3>1
    <3> QED BY <1>1, <1>2, <2>1, <3>2 DEF Store!IsTable, Store!Upsert
  <2>3. CreditedAsOwed'
    <3>1. \A h \in Hashes :
            OwedOf(owed, h, applied_orders \cup {key}) =
              OwedOf(owed, h, applied_orders) + IF owed[key].hash = h THEN owed[key].micros ELSE 0
      BY <1>1, <2>1, FiniteKeys, OwedMore
    <3>2. \A h \in Hashes :
            credited'[h] = credited[h] + IF hash = h THEN micros ELSE 0
      BY <1>1, <1>2, <2>1 DEF Tables
    <3> QED BY <1>1, <1>2, <2>1, <3>1, <3>2, CreditedIs
  <2>4. Tables'
    <3>1. credited' \in [Hashes -> Nat]
      BY <1>1, <1>2, <2>1 DEF Tables
    <3>2. Faithful(credit_outbox, applied_orders)' /\ Ordered(credit_outbox)'
      BY <1>2, <2>1 DEF Tables, Faithful, Ordered
    <3> QED BY <1>1, <1>2, <2>1, <3>1, <3>2 DEF Tables
  <2>5. Backup'
    BY <2>1, OwedGrows
  <2> QED BY <1>1, <1>2, <2>1, <2>2, <2>3, <2>4, <2>5 DEF key
<1>4. CASE Store!CreditOutcome(key) # "applied" /\ UNCHANGED Store!vars
  <2>1. /\ key \in applied_orders
        /\ UNCHANGED ledger
    BY <1>4 DEF Store!CreditOutcome, Store!vars, Store!tables, ledger, rest
  <2>2. Tables' /\ CreditedAsOwed' /\ Backup'
    BY <1>2, <2>1, TablesSame, BackupSame, CreditedSame DEF IInv
  <2> QED BY <1>2, <2>1, <2>2 DEF key, ledger
<1> QED BY <1>3, <1>4 DEF Apply, Store!CreditOnce, key, hash, micros

LEMMA TakeKeeps == ASSUME IInv, NEW m \in posted, Take(m) PROVE IInv'
<1>1. /\ Apply(m)
      /\ UNCHANGED <<credit_outbox, process, tick, work, sending, posted, crashes, backup, owed>>
  BY DEF Take
<1>2. /\ Tables' /\ CreditedAsOwed' /\ Backup'
      /\ Store!IsTable(tokens, Hashes, Nat)' /\ applied_orders' \subseteq CreditKeys
      /\ applied_orders \subseteq applied_orders'
  BY <1>1, ApplyKeeps DEF backup
<1>3. TypeOK'
  BY <1>1, <1>2 DEF IInv, TypeOK, backup, Store!IsTable
<1>4. Delivery'
  BY <1>1, <1>2 DEF IInv, Delivery, listUnackedCredits, Older, NotSending
<1> QED BY <1>2, <1>3, <1>4 DEF IInv

\* The sender hears of its own request only, once that is applied.
LEMMA AnswerKeeps == ASSUME IInv, NEW m \in posted, TakeAndAnswer(m) PROVE IInv'
<1>1. /\ Apply(m) /\ sending = [key |-> m.key, answer |-> NoAnswer]
      /\ sending' = [sending EXCEPT !.answer = Store!CreditOutcome(m.key)]
      /\ UNCHANGED <<credit_outbox, process, tick, work, posted, crashes, backup, owed>>
  BY DEF TakeAndAnswer
<1>2. /\ Tables' /\ CreditedAsOwed' /\ Backup'
      /\ Store!IsTable(tokens, Hashes, Nat)' /\ applied_orders' \subseteq CreditKeys
      /\ applied_orders' = applied_orders \cup {m.key}
  BY <1>1, ApplyKeeps DEF backup
<1>3. m.key \in CreditKeys /\ m.key # NoKey /\ m.key \in work
  <2>1. m \in [key : CreditKeys, payload : Payload]
    BY DEF IInv, TypeOK
  <2>2. m.key \in CreditKeys /\ m.key # NoKey
    BY <2>1, CrossingAssumption
  <2> QED BY <1>1, <2>2 DEF IInv, TypeOK
<1>4. sending' = [key |-> m.key, answer |-> Store!CreditOutcome(m.key)]
      /\ Store!CreditOutcome(m.key) \in {"applied", "already_applied"}
  BY <1>1 DEF Store!CreditOutcome
<1>5. sending' \in [key : {NoKey} \cup work', answer : {NoAnswer, "applied", "already_applied"}]
  BY <1>1, <1>3, <1>4
<1>6. TypeOK'
  BY <1>1, <1>2, <1>5 DEF IInv, TypeOK, backup, Store!IsTable
<1>7. Delivery'
  <2>1. \A other \in work' : ~Older(other, m.key)'
    BY <1>1, <1>3 DEF IInv, Delivery, Older
  <2>2. work' = IF tick' = "draining" THEN listUnackedCredits' ELSE {}
    BY <1>1 DEF IInv, Delivery, listUnackedCredits
  <2>3. sending'.key = m.key
    BY <1>4
  <2> QED BY <1>1, <1>2, <1>3, <2>1, <2>2, <2>3 DEF IInv, Delivery, listUnackedCredits, Older
<1> QED BY <1>2, <1>6, <1>7 DEF IInv

-----------------------------------------------------------------------------
(* ... and by a backup and a restore *)

\* What the live tables are, their copies are.
LEMMA FirstSnapshotKeeps == ASSUME IInv, FirstSnapshot PROVE IInv'
<1>1. /\ DOMAIN artifact' = {"stage", "outbox"} /\ artifact'.stage = "half"
      /\ artifact'.outbox = credit_outbox
  BY DEF FirstSnapshot, Beside, Contents, SnapshotOrder
<1>2. UNCHANGED <<ledger, credit_outbox, process, tick, work, sending, posted, crashes, owed>>
  BY DEF FirstSnapshot
<1>3. TypeOK'
  BY <1>1, <1>2 DEF IInv, TypeOK, ledger
<1>4. Tables' /\ CreditedAsOwed'
  BY <1>2, TablesSame, CreditedSame DEF IInv
<1>5. Backup'
  <2>1. Faithful(credit_outbox, applied_orders)' /\ Ordered(credit_outbox)'
    BY <1>4 DEF Tables
  <2>2. Faithful(artifact.outbox, applied_orders)' /\ Ordered(artifact.outbox)'
    BY <1>1, <1>2, <2>1 DEF Faithful, Ordered
  <2> QED BY <1>1, <2>2 DEF Backup
<1>6. Delivery'
  BY <1>2 DEF IInv, Delivery, listUnackedCredits, Older, ledger, NotSending
<1> QED BY <1>3, <1>4, <1>5, <1>6 DEF IInv

\* The ledger kept matching the outbox of the first snapshot, so the pair is never
\* refused.
LEMMA SecondSnapshotKeeps == ASSUME IInv, SecondSnapshot PROVE IInv'
<1>1. /\ artifact.stage = "half" /\ DOMAIN artifact = {"stage", "outbox"}
      /\ Faithful(artifact.outbox, applied_orders) /\ Ordered(artifact.outbox)
  BY DEF SecondSnapshot, IInv, Backup
<1> DEFINE pair == Beside(Contents("balances.db"), artifact)
<1>2. /\ pair.outbox = artifact.outbox /\ pair.applied = applied_orders
      /\ pair.tokens = tokens /\ pair.credited = credited
      /\ DOMAIN pair = {"applied", "tokens", "credited", "stage", "outbox"}
  BY <1>1 DEF Beside, Contents
<1>3. Matched(pair.outbox, pair.applied)
  BY <1>1, <1>2 DEF Matched, Faithful
<1>4. artifact' = [pair EXCEPT !.stage = "complete"]
  BY <1>3 DEF SecondSnapshot, SnapshotOrder
<1> HIDE DEF pair
<1>5. /\ artifact'.stage = "complete" /\ artifact'.outbox = artifact.outbox
      /\ artifact'.applied = applied_orders /\ artifact'.tokens = tokens
      /\ artifact'.credited = credited
  <2>1. \A part \in DOMAIN pair : part # "stage" => artifact'[part] = pair[part]
    BY <1>4
  <2> QED BY <1>2, <1>4, <2>1
<1>6. UNCHANGED <<ledger, credit_outbox, process, tick, work, sending, posted, crashes, owed>>
  BY DEF SecondSnapshot
<1>7. TypeOK'
  BY <1>5, <1>6 DEF IInv, TypeOK, ledger
<1>8. Tables' /\ CreditedAsOwed'
  BY <1>6, TablesSame, CreditedSame DEF IInv
<1>9. Backup'
  <2>1. /\ Store!IsTable(tokens, Hashes, Nat) /\ credited \in [Hashes -> Nat]
        /\ applied_orders \subseteq DOMAIN owed
        /\ \A hash \in Hashes : credited[hash] = OwedOf(owed, hash, applied_orders)
    BY CreditedIs DEF IInv, TypeOK, Tables
  <2>2. Faithful(artifact.outbox, artifact.applied)' /\ Ordered(artifact.outbox)'
    BY <1>1, <1>5, <1>6 DEF Faithful, Ordered
  <2>3. \A hash \in Hashes : artifact'.credited[hash] = OwedOf(owed', hash, artifact'.applied)
    BY <1>5, <1>6, <2>1
  <2> QED BY <1>5, <1>6, <2>1, <2>2, <2>3 DEF Backup, Owed, OwedOf
<1>10. Delivery'
  BY <1>6 DEF IInv, Delivery, listUnackedCredits, Older, ledger, NotSending
<1> QED BY <1>7, <1>8, <1>9, <1>10 DEF IInv

\* The restored pair is as good as the live one was; the artifact stays for the next.
LEMMA RestoreKeeps == ASSUME IInv, Restore PROVE IInv'
<1> DEFINE outbox == artifact.outbox
           applied == artifact.applied
<1>1. /\ artifact.stage = "complete" /\ artifact' = artifact
      /\ process' = "down" /\ tick' = "idle" /\ work' = {} /\ sending' = NotSending
      /\ posted' = {}
      /\ credit_outbox' = Rearmed(outbox, applied) /\ applied_orders' = applied
      /\ tokens' = artifact.tokens /\ credited' = artifact.credited
      /\ owed' = [key \in DOMAIN outbox \cup applied |-> owed[key]]
  BY DEF Restore
<1>2. /\ Faithful(outbox, applied) /\ Ordered(outbox) /\ applied \subseteq DOMAIN owed
      /\ Store!IsTable(artifact.tokens, Hashes, Nat) /\ artifact.credited \in [Hashes -> Nat]
      /\ \A hash \in Hashes : artifact.credited[hash] = OwedOf(owed, hash, applied)
  BY <1>1 DEF IInv, Backup, Owed, OwedOf
<1>3. /\ DOMAIN owed \subseteq CreditKeys /\ DOMAIN outbox \subseteq DOMAIN owed
      /\ IsFiniteSet(applied) /\ applied \subseteq CreditKeys
      /\ \A key \in DOMAIN owed : owed[key] \in Payload
      /\ \A key \in DOMAIN outbox : outbox[key] \in OutboxRow
  <2>1. DOMAIN owed \subseteq CreditKeys /\ \A key \in DOMAIN owed : owed[key] \in Payload
    BY DEF IInv, Tables, TypeOK
  <2>2. /\ DOMAIN outbox \subseteq DOMAIN owed
        /\ \A key \in DOMAIN outbox : outbox[key] \in OutboxRow
    BY <1>2 DEF Faithful, Store!IsTable
  <2>3. applied \in SUBSET CreditKeys
    BY <1>2, <2>1
  <2> HIDE DEF applied, outbox
  <2> QED BY <2>1, <2>2, <2>3, CrossingAssumption, FS_Subset
<1>4. /\ DOMAIN owed' = DOMAIN outbox \cup applied
      /\ \A key \in DOMAIN owed' : owed'[key] = owed[key] /\ owed'[key] \in Payload
  BY <1>1, <1>2, <1>3
<1> HIDE DEF outbox, applied
<1>5. /\ DOMAIN credit_outbox' = DOMAIN outbox
      /\ \A key \in DOMAIN outbox :
           /\ credit_outbox'[key] \in OutboxRow
           /\ credit_outbox'[key].hash = outbox[key].hash
           /\ credit_outbox'[key].micros = outbox[key].micros
           /\ credit_outbox'[key].created_at = outbox[key].created_at
           /\ IsScrubbed(credit_outbox'[key]) <=> IsScrubbed(outbox[key])
           /\ outbox[key].hash = NoHash => credit_outbox'[key] = outbox[key]
  <2>1. /\ DOMAIN credit_outbox' = DOMAIN outbox
        /\ \A key \in DOMAIN outbox :
             /\ outbox[key].hash = NoHash => credit_outbox'[key] = outbox[key]
             /\ \/ credit_outbox'[key] = outbox[key]
                \/ /\ outbox[key].hash # NoHash
                   /\ credit_outbox'[key] = [outbox[key] EXCEPT !.acked = FALSE]
    BY <1>1 DEF Rearmed
  <2> QED BY <1>3, <2>1 DEF IsScrubbed, OutboxRow
<1>6. credit_outbox' \in [DOMAIN credit_outbox' -> OutboxRow]
  <2>1. credit_outbox' = [key \in DOMAIN outbox |-> credit_outbox'[key]]
    BY <1>1 DEF Rearmed
  <2> QED BY <1>5, <2>1
<1>7. Ordered(credit_outbox)'
  BY <1>2, <1>5 DEF Ordered
<1>8. Faithful(credit_outbox, applied_orders)'
  BY <1>1, <1>2, <1>3, <1>4, <1>5, <1>6 DEF Faithful, Store!IsTable
<1>9. Tables'
  BY <1>1, <1>2, <1>3, <1>4, <1>5, <1>7, <1>8 DEF Tables
<1>10. TypeOK'
  BY <1>1, <1>2, <1>3, <1>4, <1>5, <1>6
     DEF TypeOK, Store!IsTable, OutboxRow, NotSending
<1>11. \A hash \in Hashes : OwedOf(owed', hash, applied) = OwedOf(owed, hash, applied)
  BY <1>2, <1>3, <1>4, OwedSame
<1>12. CreditedAsOwed'
  BY <1>1, <1>2, <1>11, CreditedIs
<1>13. Delivery'
  BY <1>1 DEF Delivery, NotSending
<1>14. Backup'
  <2>1. /\ Faithful(outbox, applied)' /\ Ordered(outbox)'
        /\ outbox' = outbox /\ applied' = applied
    BY <1>1, <1>2, <1>4 DEF Faithful, Ordered, outbox, applied
  <2> QED BY <1>1, <1>2, <1>4, <1>11, <2>1 DEF Backup, Owed, OwedOf, outbox, applied
<1> QED BY <1>9, <1>10, <1>12, <1>13, <1>14 DEF IInv

LEMMA StutterKeeps == ASSUME IInv, UNCHANGED vars PROVE IInv'
<1>1. TypeOK'
  BY DEF IInv, TypeOK, vars, ledger, backup
<1>2. Tables' /\ CreditedAsOwed' /\ Backup'
  BY TablesSame, BackupSame, CreditedSame DEF IInv, vars, backup
<1>3. Delivery'
  BY DEF IInv, Delivery, NotSending, Older, listUnackedCredits, vars, ledger
<1> QED BY <1>1, <1>2, <1>3 DEF IInv

LEMMA CrossingNext == IInv /\ [Next]_vars => IInv'
<1> SUFFICES ASSUME IInv, [Next]_vars PROVE IInv'
  OBVIOUS
<1>1. CASE FirstSnapshot \/ SecondSnapshot \/ Restore
  BY <1>1, FirstSnapshotKeeps, SecondSnapshotKeeps, RestoreKeeps
<1>2. CASE Start \/ Crash \/ Poll \/ Drain \/ Ack \/ Ambiguous \/ Drained
  BY <1>2, StartKeeps, CrashKeeps, PollKeeps, DrainKeeps, AckKeeps, AmbiguousKeeps,
     DrainedKeeps
<1>3. ASSUME NEW key \in CreditKeys, NEW payload \in Payload, Enqueue(key, payload)
      PROVE  IInv'
  BY <1>3, EnqueueKeeps
<1>4. ASSUME NEW key \in CreditKeys, Send(key) PROVE IInv'
  BY <1>4, SendKeeps
<1>5. ASSUME NEW m \in posted, Take(m) \/ TakeAndAnswer(m) PROVE IInv'
  BY <1>5, TakeKeeps, AnswerKeeps
<1>6. CASE UNCHANGED vars
  BY <1>6, StutterKeeps
<1> QED BY <1>1, <1>2, <1>3, <1>4, <1>5, <1>6 DEF Next

-----------------------------------------------------------------------------
(* What follows *)

(* Type correctness: every row, request and answer is well formed and the   *)
(* drain works on rows of the outbox only.                                 *)
THEOREM CrossingTypeOK == Spec => []TypeOK
BY CrossingInit, CrossingNext, PTL DEF Spec, IInv

(* Exactly once, in its own amount: what the ledger credited to a token is  *)
(* the sum of the credits owed to it whose marker it has, however often a   *)
(* request was repeated, delayed or cut short, and after any restore.       *)
THEOREM CrossingExactlyOnce == Spec => []CreditedAsOwed
BY CrossingInit, CrossingNext, PTL DEF Spec, IInv

(* No credit is forgotten: a row says what is owed until the ledger has     *)
(* applied it, and every backup is one that restore accepts.               *)
THEOREM CrossingForgetsNothing == Spec => []NothingForgotten
<1>1. IInv => NothingForgotten
  <2> SUFFICES ASSUME IInv PROVE NothingForgotten
    OBVIOUS
  <2>1. artifact.stage # "refused"
    BY DEF IInv, Backup
  <2>2. ASSUME NEW key \in DOMAIN credit_outbox, key \notin applied_orders
        PROVE  ~Scrubbed(key) /\ PayloadOf(key) = owed[key]
    <3>1. /\ credit_outbox[key].hash = owed[key].hash
          /\ credit_outbox[key].micros = owed[key].micros
          /\ credit_outbox[key].hash # NoHash /\ owed[key] \in Payload
      BY <2>2 DEF IInv, Tables, Faithful, TypeOK
    <3> QED BY <3>1 DEF Scrubbed, PayloadOf, Payload
  <2> QED BY <2>1, <2>2 DEF NothingForgotten
<1> QED BY <1>1, CrossingInit, CrossingNext, PTL DEF Spec

(* Oldest first: no credit is acknowledged over an older one that is still  *)
(* to be delivered, in any tick, process or restored outbox.               *)
THEOREM CrossingInOrder == Spec => []NotOvertaken
<1>1. IInv => NotOvertaken
  <2> SUFFICES ASSUME IInv, NEW i \in DOMAIN credit_outbox, NEW j \in DOMAIN credit_outbox,
                      Scrubbed(j), ~credit_outbox[i].acked
               PROVE  ~Older(i, j)
    BY DEF NotOvertaken
  <2>1. credit_outbox[i].created_at \in Nat /\ credit_outbox[j].created_at \in Nat
    BY DEF IInv, Tables, Faithful, Store!IsTable, OutboxRow
  <2>2. credit_outbox[j].created_at <= credit_outbox[i].created_at
    BY DEF IInv, Tables, Ordered, IsScrubbed, Scrubbed
  <2> QED BY <2>1, <2>2 DEF Older
<1> QED BY <1>1, CrossingInit, CrossingNext, PTL DEF Spec
=============================================================================
