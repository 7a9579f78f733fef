---------------------------- MODULE LedgerProofs ----------------------------
(***************************************************************************)
(* Proofs about the balance store, for every set of hashes, sessions, hold *)
(* ids, credit keys and amounts.                                           *)
(***************************************************************************)
EXTENDS Ledger, SumLemmas

-----------------------------------------------------------------------------
(* The inductive invariant.  RowsOfCurrentSession alone does not survive   *)
(* openSessionHold: debits has to say that an id is in one of the two      *)
(* tables as soon as the current session took money for it, and tenures    *)
(* that only sessions never seen before can still be started.              *)
HashesKnown == \A id \in DOMAIN holds : holds[id].hash \in DOMAIN tokens

Fencing ==
  /\ currentSession \notin retired
  /\ \A s \in Sessions :
       tenures[s] = IF s = currentSession \/ s \in retired THEN 1 ELSE 0

Debits ==
  \A s \in Sessions, id \in HoldIds :
    debits[s][id] <=
      IF s \in retired \/ (s = currentSession /\ id \in DOMAIN holds \cup DOMAIN settled_holds)
      THEN 1 ELSE 0

IInv ==
  /\ TypeOK
  /\ HashesKnown
  /\ Conservation
  /\ RowsOfCurrentSession
  /\ Fencing
  /\ Debits

-----------------------------------------------------------------------------
(* What the open holds of a token reserve is a natural number.             *)
LEMMA ReservedType ==
  ASSUME TypeOK
  PROVE  /\ IsFiniteSet(DOMAIN holds) /\ Cardinality(DOMAIN holds) \in Nat
         /\ \A id \in DOMAIN holds : HeldMicros[id] \in Nat
         /\ \A hash \in Hashes : IsFiniteSet(HoldsOf(hash)) /\ Reserved(hash) \in Nat
         /\ ReservedInAll \in Nat
<1>1. IsFiniteSet(DOMAIN holds)
  BY LedgerAssumption, FS_Subset DEF TypeOK, IsTable
<1>2. Cardinality(DOMAIN holds) \in Nat
  BY <1>1, FS_CardinalityType
<1>3. \A id \in DOMAIN holds : HeldMicros[id] \in Nat
  BY DEF TypeOK, IsTable, HoldRow, HeldMicros
<1>4. ASSUME NEW hash \in Hashes
      PROVE  IsFiniteSet(HoldsOf(hash)) /\ Reserved(hash) \in Nat
  <2>1. HoldsOf(hash) \subseteq DOMAIN holds
    BY DEF HoldsOf
  <2>2. IsFiniteSet(HoldsOf(hash))
    BY <1>1, <2>1, FS_Subset
  <2> QED BY <1>3, <2>1, <2>2, SumType DEF Reserved
<1>5. ReservedInAll \in Nat
  BY <1>1, <1>3, SumType DEF ReservedInAll
<1> QED BY <1>1, <1>2, <1>3, <1>4, <1>5

(* Journalling a hold adds its micros to what its token has reserved and    *)
(* nothing to what any other token has.                                     *)
LEMMA ReservedOnOpen ==
  ASSUME TypeOK, NEW id \in HoldIds, id \notin DOMAIN holds,
         NEW row \in HoldRow, holds' = Upsert(holds, id, row)
  PROVE  \A hash \in Hashes :
           Reserved(hash)' = Reserved(hash) + IF row.hash = hash THEN row.micros ELSE 0
<1> SUFFICES ASSUME NEW hash \in Hashes
             PROVE  Reserved(hash)' = Reserved(hash) + IF row.hash = hash THEN row.micros ELSE 0
  OBVIOUS
<1>1. /\ IsFiniteSet(HoldsOf(hash)) /\ Reserved(hash) \in Nat
      /\ \A x \in DOMAIN holds : HeldMicros[x] \in Nat
  BY ReservedType
<1>2. /\ DOMAIN HeldMicros' = DOMAIN holds \cup {id}
      /\ HeldMicros'[id] = row.micros
      /\ \A x \in DOMAIN holds : HeldMicros'[x] = HeldMicros[x]
  BY DEF HeldMicros, Upsert
<1>3. row.micros \in Nat
  BY DEF HoldRow
<1>4. HoldsOf(hash) \subseteq DOMAIN holds
  BY DEF HoldsOf
<1>5. SumFunctionOnSet(HeldMicros', HoldsOf(hash)) = Reserved(hash)
  BY <1>1, <1>2, <1>4, SumAgree DEF Reserved
<1>6. CASE row.hash = hash
  <2>1. HoldsOf(hash)' = HoldsOf(hash) \cup {id} /\ HoldsOf(hash)' \ {id} = HoldsOf(hash)
    BY <1>6, <1>4 DEF HoldsOf, Upsert
  <2>2. IsFiniteSet(HoldsOf(hash)')
    BY <1>1, <2>1, FS_AddElement
  <2>3. \A x \in HoldsOf(hash)' : HeldMicros'[x] \in Nat
    BY <1>1, <1>2, <1>3, <1>4, <2>1
  <2>4. SumFunctionOnSet(HeldMicros', HoldsOf(hash)')
          = HeldMicros'[id] + SumFunctionOnSet(HeldMicros', HoldsOf(hash)' \ {id})
    BY <2>1, <2>2, <2>3, SumRemove
  <2>5. Reserved(hash)' = row.micros + Reserved(hash)
    BY <1>2, <1>5, <2>1, <2>4 DEF Reserved
  <2> QED BY <1>1, <1>3, <1>6, <2>5
<1>7. CASE row.hash # hash
  <2>1. HoldsOf(hash)' = HoldsOf(hash)
    BY <1>7, <1>4 DEF HoldsOf, Upsert
  <2> QED BY <1>1, <1>5, <1>7, <2>1 DEF Reserved
<1> QED BY <1>6, <1>7

(* Deleting a hold's row takes its micros out of what its token has         *)
(* reserved and leaves the other tokens alone.                              *)
LEMMA ReservedOnClose ==
  ASSUME TypeOK, NEW id \in DOMAIN holds, holds' = Delete(holds, id)
  PROVE  \A hash \in Hashes :
           /\ Reserved(hash)' \in Nat
           /\ Reserved(hash) =
                Reserved(hash)' + IF holds[id].hash = hash THEN holds[id].micros ELSE 0
<1> SUFFICES ASSUME NEW hash \in Hashes
             PROVE  /\ Reserved(hash)' \in Nat
                    /\ Reserved(hash) =
                         Reserved(hash)' + IF holds[id].hash = hash THEN holds[id].micros ELSE 0
  OBVIOUS
<1>1. /\ IsFiniteSet(HoldsOf(hash)) /\ Reserved(hash) \in Nat
      /\ \A x \in DOMAIN holds : HeldMicros[x] \in Nat
  BY ReservedType
<1>2. /\ HeldMicros[id] = holds[id].micros
      /\ \A x \in DOMAIN holds \ {id} : HeldMicros'[x] = HeldMicros[x]
  BY DEF HeldMicros, Delete
<1>3. HoldsOf(hash) \subseteq DOMAIN holds
  BY DEF HoldsOf
<1>4. HoldsOf(hash)' = HoldsOf(hash) \ {id}
  BY DEF HoldsOf, Delete
<1>5. IsFiniteSet(HoldsOf(hash)')
  BY <1>1, <1>4, FS_Subset
<1>6. Reserved(hash)' = SumFunctionOnSet(HeldMicros, HoldsOf(hash) \ {id})
  BY <1>2, <1>3, <1>4, <1>5, SumAgree DEF Reserved
<1>7. CASE holds[id].hash = hash
  <2>1. id \in HoldsOf(hash)
    BY <1>7 DEF HoldsOf
  <2>2. Reserved(hash) = HeldMicros[id] + SumFunctionOnSet(HeldMicros, HoldsOf(hash) \ {id})
    BY <1>1, <1>3, <2>1, SumRemove DEF Reserved
  <2>3. \A x \in HoldsOf(hash) \ {id} : HeldMicros[x] \in Nat
    BY <1>1, <1>3
  <2>4. Reserved(hash)' \in Nat
    BY <1>4, <1>5, <1>6, <2>3, SumType
  <2>5. Reserved(hash) = holds[id].micros + Reserved(hash)'
    BY <1>2, <1>6, <2>2
  <2>6. holds[id].micros \in Nat
    BY DEF TypeOK, IsTable, HoldRow
  <2> QED BY <1>7, <2>4, <2>5, <2>6
<1>8. CASE holds[id].hash # hash
  <2>1. HoldsOf(hash) \ {id} = HoldsOf(hash)
    BY <1>8 DEF HoldsOf
  <2>2. Reserved(hash)' = Reserved(hash)
    BY <1>6, <2>1 DEF Reserved
  <2> QED BY <1>1, <1>8, <2>2
<1> QED BY <1>7, <1>8

-----------------------------------------------------------------------------
(* The empty database satisfies the invariant.                              *)
LEMMA InitIInv == Init => IInv
<1> SUFFICES ASSUME Init PROVE IInv
  OBVIOUS
<1>1. TypeOK
  BY LedgerAssumption
     DEF Init, TypeOK, IsTable, EmptyTable, SessionRow, HoldRow, SettledRow
<1>2. \A hash \in Hashes : Reserved(hash) = 0
  <2>1. \A hash \in Hashes : HoldsOf(hash) = {}
    BY DEF Init, HoldsOf, EmptyTable
  <2> QED BY <2>1, SumEmpty DEF Reserved
<1>3. Conservation
  BY <1>2 DEF Init, Conservation, getBalance, EmptyTable
<1>4. HashesKnown /\ RowsOfCurrentSession
  BY DEF Init, HashesKnown, RowsOfCurrentSession, EmptyTable
<1>5. Fencing /\ Debits
  BY LedgerAssumption DEF Init, Fencing, Debits, currentSession, EmptyTable
<1> QED BY <1>1, <1>3, <1>4, <1>5 DEF IInv

(* Starting a session, which refunds every hold, preserves the invariant.   *)
LEMMA StartSessionIInv ==
  ASSUME IInv, NEW s \in Sessions, StartSession(s)
  PROVE  IInv'
<1> USE LedgerAssumption
<1>1. TypeOK /\ s # currentSession /\ s \notin retired
  BY DEF IInv, StartSession, BeginOutcome
<1>2. /\ \A hash \in Hashes : Reserved(hash) \in Nat
      /\ ReservedInAll \in Nat /\ Cardinality(DOMAIN holds) \in Nat
  BY <1>1, ReservedType
<1>3. \A hash \in Hashes : getBalance(hash) \in Nat
  BY <1>1 DEF TypeOK, IsTable, getBalance
<1>4. DOMAIN tokens' = DOMAIN tokens
  BY DEF IInv, HashesKnown, StartSession, Refunded
<1>5. \A hash \in Hashes : hash \notin DOMAIN tokens => Reserved(hash) = 0
  <2>1. \A hash \in Hashes : hash \notin DOMAIN tokens => HoldsOf(hash) = {}
    BY DEF IInv, HashesKnown, HoldsOf
  <2> QED BY <2>1, SumEmpty DEF Reserved
<1>6. TypeOK'
  <2>1. IsTable(tokens', Hashes, Nat)
    BY <1>1, <1>2, <1>3, <1>4 DEF TypeOK, IsTable, StartSession, Refunded
  <2>2. ledger_session' \in SessionRow
    BY <1>2 DEF StartSession, SessionRow
  <2>3. retired' \subseteq Sessions
    BY <1>1 DEF TypeOK, SessionRow, StartSession, currentSession
  <2>4. IsTable(holds', HoldIds, HoldRow) /\ IsTable(settled_holds', HoldIds, SettledRow)
    BY DEF StartSession, IsTable, EmptyTable
  <2>5. tenures' \in [Sessions -> Nat]
    BY <1>1 DEF TypeOK, StartSession
  <2> QED BY <1>1, <2>1, <2>2, <2>3, <2>4, <2>5 DEF TypeOK, StartSession
<1>7. Conservation'
  <2>1. \A hash \in Hashes : getBalance(hash)' = getBalance(hash) + Reserved(hash)
    BY <1>2, <1>3, <1>4, <1>5 DEF getBalance, StartSession, Refunded
  <2>2. \A hash \in Hashes : Reserved(hash)' = 0
    <3>1. \A hash \in Hashes : HoldsOf(hash)' = {}
      BY DEF StartSession, HoldsOf, EmptyTable
    <3> QED BY <3>1, SumEmpty DEF Reserved
  <2>3. charged' = charged /\ credited' = credited
    BY DEF StartSession
  <2>4. \A hash \in Hashes : charged[hash] \in Nat
    BY <1>1 DEF TypeOK
  <2>5. \A hash \in Hashes : getBalance(hash) + Reserved(hash) + charged[hash] = credited[hash]
    BY DEF IInv, Conservation
  <2> QED BY <1>2, <1>3, <2>1, <2>2, <2>3, <2>4, <2>5 DEF Conservation
<1>8. HashesKnown' /\ RowsOfCurrentSession'
  BY DEF HashesKnown, RowsOfCurrentSession, StartSession, EmptyTable
<1>9. Fencing'
  BY <1>1 DEF IInv, Fencing, TypeOK, SessionRow, StartSession, currentSession
<1>10. Debits'
  BY <1>1 DEF IInv, Debits, TypeOK, StartSession, currentSession, EmptyTable
<1> QED BY <1>6, <1>7, <1>8, <1>9, <1>10 DEF IInv

(* Opening a hold moves its micros from the balance to the reservation.     *)
LEMMA TakeHoldIInv ==
  ASSUME IInv, NEW s \in Sessions, NEW hash \in Hashes, NEW micros \in Micros,
         NEW id \in HoldIds, TakeHold(s, hash, micros, id)
  PROVE  IInv'
<1> DEFINE row == [hash |-> hash, micros |-> micros, session_id |-> s]
<1>1. /\ TypeOK /\ s = currentSession /\ micros \in Nat
      /\ id \notin DOMAIN holds /\ id \notin DOMAIN settled_holds
      /\ hash \in DOMAIN tokens /\ micros <= tokens[hash]
  <2>1. OpenOutcome(s, hash, micros, id) = "opened"
    BY DEF TakeHold
  <2>2. TypeOK /\ s = currentSession /\ micros \in SafeMicros
    BY <2>1 DEF IInv, OpenOutcome
  <2>3. /\ id \notin DOMAIN holds /\ id \notin DOMAIN settled_holds
        /\ hash \in DOMAIN tokens /\ ~(tokens[hash] < micros)
    BY <2>1, <2>2 DEF OpenOutcome
  <2>4. tokens[hash] \in Nat /\ micros \in Nat
    BY <2>2, <2>3, LedgerAssumption DEF TypeOK, IsTable, SafeMicros
  <2> QED BY <2>2, <2>3, <2>4
<1>2. row \in HoldRow /\ holds' = Upsert(holds, id, row)
  BY <1>1 DEF HoldRow, TakeHold
<1>3. \A h \in Hashes : Reserved(h) \in Nat
  BY <1>1, ReservedType
<1>4. \A h \in Hashes : Reserved(h)' = Reserved(h) + IF hash = h THEN micros ELSE 0
  BY <1>1, <1>2, ReservedOnOpen
<1>5. /\ DOMAIN tokens' = DOMAIN tokens
      /\ \A h \in DOMAIN tokens : tokens'[h] = IF h = hash THEN tokens[h] - micros ELSE tokens[h]
  BY <1>1 DEF TakeHold
<1>6. \A h \in DOMAIN tokens : tokens[h] \in Nat
  BY <1>1 DEF TypeOK, IsTable
<1>7. TypeOK'
  <2>1. IsTable(tokens', Hashes, Nat)
    <3>1. \A h \in DOMAIN tokens' : tokens'[h] \in Nat
      BY <1>1, <1>5, <1>6
    <3>2. tokens' \in [DOMAIN tokens' -> Nat] /\ DOMAIN tokens \subseteq Hashes
      BY <1>1, <3>1 DEF TakeHold, TypeOK, IsTable
    <3> QED BY <1>5, <3>2 DEF IsTable
  <2>2. IsTable(holds', HoldIds, HoldRow)
    <3> HIDE DEF row
    <3> QED BY <1>1, <1>2 DEF TypeOK, IsTable, Upsert
  <2>3. debits' \in [Sessions -> [HoldIds -> Nat]]
    BY <1>1 DEF TypeOK, TakeHold
  <2> QED BY <1>1, <2>1, <2>2, <2>3 DEF TypeOK, TakeHold
<1>8. Conservation'
  <2> SUFFICES ASSUME NEW h \in Hashes
               PROVE  getBalance(h)' + Reserved(h)' + charged'[h] = credited'[h]
    BY DEF Conservation
  <2>1. getBalance(h) + Reserved(h) + charged[h] = credited[h]
    BY DEF IInv, Conservation
  <2>2. charged' = charged /\ credited' = credited /\ charged[h] \in Nat
    BY <1>1 DEF TakeHold, TypeOK
  <2>3. getBalance(h) \in Nat /\ getBalance(h)' = getBalance(h) - IF h = hash THEN micros ELSE 0
    BY <1>1, <1>5, <1>6 DEF getBalance
  <2> QED BY <1>1, <1>3, <1>4, <2>1, <2>2, <2>3
<1>9. HashesKnown' /\ RowsOfCurrentSession'
  BY <1>1, <1>5 DEF IInv, HashesKnown, RowsOfCurrentSession, TakeHold, Upsert, currentSession
<1>10. Fencing'
  BY DEF IInv, Fencing, TakeHold, currentSession
<1>11. Debits'
  <2>1. s \notin retired
    BY <1>1 DEF IInv, Fencing
  <2>2. debits[s][id] = 0
    BY <1>1, <2>1 DEF IInv, Debits, TypeOK
  <2>3. DOMAIN holds' = DOMAIN holds \cup {id}
    BY <1>2 DEF Upsert
  <2> QED BY <1>1, <2>1, <2>2, <2>3 DEF IInv, Debits, TypeOK, TakeHold, currentSession
<1> QED BY <1>7, <1>8, <1>9, <1>10, <1>11 DEF IInv

(* Closing a hold splits its micros into a charge and a refund.             *)
LEMMA CloseHoldIInv ==
  ASSUME IInv, NEW s \in Sessions, NEW id \in HoldIds, NEW charge \in Micros,
         CloseHold(s, id, charge)
  PROVE  IInv'
<1> DEFINE hash == holds[id].hash
           micros == holds[id].micros
<1>1. /\ TypeOK /\ s = currentSession /\ charge \in Nat
      /\ id \in DOMAIN holds /\ id \notin DOMAIN settled_holds
      /\ hash \in Hashes /\ micros \in Nat /\ charge <= micros
      /\ hash \in DOMAIN tokens
  <2>1. SettleOutcome(s, id, charge) = "settled"
    BY DEF CloseHold
  <2>2. /\ TypeOK /\ s = currentSession /\ id \in DOMAIN holds
        /\ id \notin DOMAIN settled_holds /\ charge \in SafeMicros /\ ~(charge > micros)
    BY <2>1 DEF IInv, SettleOutcome
  <2>3. holds[id] \in HoldRow /\ charge \in Nat
    BY <2>2, LedgerAssumption DEF TypeOK, IsTable, SafeMicros
  <2>4. hash \in DOMAIN tokens
    BY <2>2 DEF IInv, HashesKnown
  <2> QED BY <2>2, <2>3, <2>4 DEF HoldRow
<1> HIDE DEF hash, micros
<1>2. holds' = Delete(holds, id)
  BY DEF CloseHold
<1>3. \A h \in Hashes :
        Reserved(h)' \in Nat /\ Reserved(h) = Reserved(h)' + IF hash = h THEN micros ELSE 0
  BY <1>1, <1>2, ReservedOnClose DEF hash, micros
<1>4. /\ DOMAIN tokens' = DOMAIN tokens
      /\ \A h \in DOMAIN tokens :
           tokens'[h] = IF h = hash THEN tokens[h] + (micros - charge) ELSE tokens[h]
  BY <1>1 DEF CloseHold, Credit, Upsert, getBalance, hash, micros
<1>5. \A h \in DOMAIN tokens : tokens[h] \in Nat
  BY <1>1 DEF TypeOK, IsTable
<1>6. TypeOK'
  <2>1. IsTable(tokens', Hashes, Nat)
    <3>1. \A h \in DOMAIN tokens' : tokens'[h] \in Nat
      BY <1>1, <1>4, <1>5
    <3>2. tokens' = [k \in DOMAIN tokens' |-> tokens'[k]]
      BY DEF CloseHold, Credit, Upsert
    <3> QED BY <1>1, <1>4, <3>1, <3>2 DEF IsTable, TypeOK
  <2>2. IsTable(holds', HoldIds, HoldRow)
    BY <1>1, <1>2 DEF TypeOK, IsTable, Delete
  <2>3. IsTable(settled_holds', HoldIds, SettledRow)
    <3> DEFINE row == [session_id |-> s, charged_micros |-> charge]
    <3>1. row \in SettledRow /\ settled_holds' = Upsert(settled_holds, id, row)
      BY <1>1 DEF SettledRow, CloseHold
    <3> HIDE DEF row
    <3> QED BY <1>1, <3>1 DEF TypeOK, IsTable, Upsert
  <2>4. charged' \in [Hashes -> Nat]
    BY <1>1 DEF TypeOK, CloseHold, hash
  <2> QED BY <1>1, <2>1, <2>2, <2>3, <2>4 DEF TypeOK, CloseHold
<1>7. Conservation'
  <2> SUFFICES ASSUME NEW h \in Hashes
               PROVE  getBalance(h)' + Reserved(h)' + charged'[h] = credited'[h]
    BY DEF Conservation
  <2>1. getBalance(h) + Reserved(h) + charged[h] = credited[h]
    BY DEF IInv, Conservation
  <2>2. credited' = credited /\ charged[h] \in Nat
    BY <1>1 DEF CloseHold, TypeOK
  <2>3. charged'[h] = charged[h] + IF h = hash THEN charge ELSE 0
    BY <1>1, <2>2 DEF CloseHold, TypeOK, hash
  <2>4. /\ getBalance(h) \in Nat
        /\ getBalance(h)' = getBalance(h) + IF h = hash THEN micros - charge ELSE 0
    BY <1>1, <1>4, <1>5 DEF getBalance
  <2>5. Reserved(h)' \in Nat
    BY <1>3
  <2> QED BY <1>1, <1>3, <2>1, <2>2, <2>3, <2>4, <2>5
<1>8. HashesKnown' /\ RowsOfCurrentSession'
  BY <1>1, <1>4
     DEF IInv, HashesKnown, RowsOfCurrentSession, CloseHold, Upsert, Delete, currentSession
<1>9. Fencing'
  BY DEF IInv, Fencing, CloseHold, currentSession
<1>10. Debits'
  BY <1>1 DEF IInv, Debits, CloseHold, Upsert, Delete, currentSession
<1> QED BY <1>6, <1>7, <1>8, <1>9, <1>10 DEF IInv

(* Applying a credit adds it to the balance and to what was credited.       *)
LEMMA ApplyCreditIInv ==
  ASSUME IInv, NEW hash \in Hashes, NEW micros \in Nat, NEW key \in CreditKeys,
         ApplyCredit(hash, micros, key)
  PROVE  IInv'
<1>1. TypeOK
  BY DEF IInv
<1>2. \A h \in Hashes : getBalance(h) \in Nat /\ Reserved(h) \in Nat
  BY <1>1, ReservedType DEF TypeOK, IsTable, getBalance
<1>3. /\ DOMAIN tokens' = DOMAIN tokens \cup {hash}
      /\ \A h \in DOMAIN tokens' : tokens'[h] = getBalance(h) + IF h = hash THEN micros ELSE 0
  <2>1. DOMAIN tokens' = DOMAIN tokens \cup {hash}
    BY DEF ApplyCredit, Credit, Upsert
  <2>2. \A h \in DOMAIN tokens : h # hash => tokens'[h] = tokens[h] /\ getBalance(h) = tokens[h]
    BY DEF ApplyCredit, Credit, Upsert, getBalance
  <2>3. tokens'[hash] = getBalance(hash) + micros
    BY DEF ApplyCredit, Credit, Upsert
  <2>4. \A h \in DOMAIN tokens : h \in Hashes
    BY <1>1 DEF TypeOK, IsTable
  <2> QED BY <1>2, <2>1, <2>2, <2>3, <2>4
<1>4. TypeOK'
  <2>1. \A h \in DOMAIN tokens' : h \in Hashes /\ tokens'[h] \in Nat
    BY <1>1, <1>2, <1>3 DEF TypeOK, IsTable
  <2>2. tokens' = [k \in DOMAIN tokens' |-> tokens'[k]]
    BY DEF ApplyCredit, Credit, Upsert
  <2>3. IsTable(tokens', Hashes, Nat)
    BY <2>1, <2>2 DEF IsTable
  <2>4. credited' \in [Hashes -> Nat]
    BY <1>1 DEF TypeOK, ApplyCredit
  <2> QED BY <1>1, <2>3, <2>4 DEF TypeOK, ApplyCredit
<1>5. Conservation'
  <2> SUFFICES ASSUME NEW h \in Hashes
               PROVE  getBalance(h)' + Reserved(h)' + charged'[h] = credited'[h]
    BY DEF Conservation
  <2>1. getBalance(h) + Reserved(h) + charged[h] = credited[h]
    BY DEF IInv, Conservation
  <2>2. charged' = charged /\ charged[h] \in Nat /\ Reserved(h)' = Reserved(h)
    BY <1>1 DEF ApplyCredit, TypeOK, Reserved, HeldMicros, HoldsOf
  <2>3. credited'[h] = credited[h] + IF h = hash THEN micros ELSE 0
    BY <1>1 DEF ApplyCredit, TypeOK
  <2>4. getBalance(h)' = getBalance(h) + IF h = hash THEN micros ELSE 0
    BY <1>2, <1>3 DEF getBalance
  <2> QED BY <1>2, <2>1, <2>2, <2>3, <2>4
<1>6. HashesKnown' /\ RowsOfCurrentSession' /\ Fencing' /\ Debits'
  BY <1>3 DEF IInv, HashesKnown, RowsOfCurrentSession, Fencing, Debits, ApplyCredit, currentSession
<1> QED BY <1>4, <1>5, <1>6 DEF IInv

-----------------------------------------------------------------------------
(* No step of the store, by whatever caller, breaks the invariant.          *)
LEMMA NextIInv == IInv /\ [Next]_vars => IInv'
<1> SUFFICES ASSUME IInv, [Next]_vars PROVE IInv'
  OBVIOUS
<1>1. ASSUME NEW s \in Sessions, BeginSession(s)
      PROVE  IInv' \/ UNCHANGED vars
  BY <1>1, StartSessionIInv DEF BeginSession
<1>2. ASSUME NEW s \in Sessions, NEW hash \in Hashes, NEW micros \in Micros,
             NEW id \in HoldIds, OpenSessionHold(s, hash, micros, id)
      PROVE  IInv' \/ UNCHANGED vars
  BY <1>2, TakeHoldIInv DEF OpenSessionHold
<1>3. ASSUME NEW s \in Sessions, NEW id \in HoldIds, NEW charge \in Micros,
             SettleSessionHold(s, id, charge)
      PROVE  IInv' \/ UNCHANGED vars
  BY <1>3, CloseHoldIInv DEF SettleSessionHold
<1>4. ASSUME NEW hash \in Hashes, NEW micros \in Micros, NEW key \in CreditKeys,
             CreditOnce(hash, micros, key)
      PROVE  IInv' \/ UNCHANGED vars
  <2>1. micros \in Nat
    BY <1>4, LedgerAssumption DEF CreditOnce, SafeMicros
  <2> QED BY <1>4, <2>1, ApplyCreditIInv DEF CreditOnce
<1>5. CASE UNCHANGED vars
  BY <1>5 DEF vars, tables, IInv, TypeOK, HashesKnown, Conservation, RowsOfCurrentSession,
              Fencing, Debits, getBalance, Reserved, HeldMicros, HoldsOf, currentSession
<1> QED BY <1>1, <1>2, <1>3, <1>4, <1>5 DEF Next

(* The inductive invariant holds in every reachable state.                  *)
THEOREM LedgerInvariant == Spec => []IInv
BY InitIInv, NextIInv, PTL DEF Spec

(* Every reachable database is well formed and no balance is ever negative. *)
THEOREM LedgerTypeOK == Spec => []TypeOK
<1>1. IInv => TypeOK
  BY DEF IInv
<1> QED BY <1>1, LedgerInvariant, PTL

(* No interleaving of opens, settlements, session starts and credits makes  *)
(* or loses money, for any token.                                           *)
THEOREM LedgerConservation == Spec => []Conservation
<1>1. IInv => Conservation
  BY DEF IInv
<1> QED BY <1>1, LedgerInvariant, PTL

(* Holds and tombstones are always the current session's, never both for    *)
(* one id.                                                                  *)
THEOREM LedgerRows == Spec => []RowsOfCurrentSession
<1>1. IInv => RowsOfCurrentSession
  BY DEF IInv
<1> QED BY <1>1, LedgerInvariant, PTL

(* A session takes money for a hold id at most once, whatever is repeated.  *)
THEOREM LedgerDebits == Spec => []DebitedAtMostOnce
<1>1. IInv => DebitedAtMostOnce
  BY DEF IInv, Debits, TypeOK, DebitedAtMostOnce
<1> QED BY <1>1, LedgerInvariant, PTL

(* A superseded session is never current again.                             *)
THEOREM LedgerTenure == Spec => []OneTenure
<1>1. IInv => OneTenure
  BY DEF IInv, Fencing, OneTenure
<1> QED BY <1>1, LedgerInvariant, PTL

(* So old and new sessions are fenced off from each other, in every         *)
(* reachable state.                                                         *)
THEOREM LedgerFencing == Spec => []SessionsFenced
<1>1. OneTenure /\ RowsOfCurrentSession => SessionsFenced
  BY DEF SessionsFenced
<1> QED BY <1>1, LedgerRows, LedgerTenure, PTL

(* Within a session, holds are closed by settlement only and settlements    *)
(* never change.                                                            *)
THEOREM LedgerClosing == Spec => ClosedOnlyBySettlement
<1> DEFINE Closing ==
      currentSession' = currentSession =>
        /\ DOMAIN holds \ DOMAIN holds' \subseteq DOMAIN settled_holds'
        /\ \A id \in DOMAIN settled_holds :
             id \in DOMAIN settled_holds' /\ settled_holds'[id] = settled_holds[id]
<1>1. IInv /\ [Next]_vars => [Closing]_vars
  <2> SUFFICES ASSUME IInv, Next PROVE Closing \/ UNCHANGED vars
    OBVIOUS
  <2>1. ASSUME NEW s \in Sessions, StartSession(s)
        PROVE  Closing
    BY <2>1 DEF StartSession, BeginOutcome, currentSession
  <2>2. ASSUME NEW s \in Sessions, NEW hash \in Hashes, NEW micros \in Micros,
               NEW id \in HoldIds, TakeHold(s, hash, micros, id)
        PROVE  Closing
    BY <2>2 DEF TakeHold, Upsert
  <2>3. ASSUME NEW s \in Sessions, NEW id \in HoldIds, NEW charge \in Micros,
               CloseHold(s, id, charge)
        PROVE  Closing
    <3>1. id \notin DOMAIN settled_holds
      BY <2>3 DEF CloseHold, SettleOutcome
    <3> QED BY <2>3, <3>1 DEF CloseHold, Upsert, Delete
  <2>4. ASSUME NEW hash \in Hashes, NEW micros \in Micros, NEW key \in CreditKeys,
               ApplyCredit(hash, micros, key)
        PROVE  Closing
    BY <2>4 DEF ApplyCredit
  <2> QED BY <2>1, <2>2, <2>3, <2>4
          DEF Next, BeginSession, OpenSessionHold, SettleSessionHold, CreditOnce
<1> QED BY <1>1, LedgerInvariant, PTL DEF Spec, ClosedOnlyBySettlement
=============================================================================
