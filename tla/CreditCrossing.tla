--------------------------- MODULE CreditCrossing ---------------------------
(***************************************************************************)
(* The crossing of a credit from the payments process to the ledger        *)
(* process: the credit_outbox table of pending.db (core/src/ledger/        *)
(* orders.ts), the drain at the tail of the poll tick (core/src/credit-    *)
(* sender.ts, core/src/payments.ts) and the credit socket in front of      *)
(* creditOnce (core/src/credit-server.ts).  Of the ledger's tables only    *)
(* tokens and applied_orders take part.                                    *)
(*                                                                         *)
(* A request whose answer is lost or late may have been applied, may be    *)
(* applied later, or never: posted only grows, and the ledger may take any *)
(* of it at any time.  Beside them runs the backup of the two databases    *)
(* (core/deploy/backup.sh), one snapshot after the other, and an operator  *)
(* may put its artifact back (core/deploy/restore.sh).                     *)
(***************************************************************************)
EXTENDS Integers, FiniteSets, Functions

CONSTANTS
  Hashes, CreditKeys,
  Shares,          \* the amounts settle() may enqueue
  MaxSafeInteger,
  MaxLegacy,       \* bound: acknowledged rows a release before scrubbing left
  MaxCrashes,      \* bound: crashes of the payments process
  MaxBackups,      \* bound: backups taken
  MaxRestores,     \* bound: restores of the last complete one
  NoHash,          \* the '' of a scrubbed row
  NoKey, NoAnswer, NoSession

ASSUME CrossingAssumption ==
  /\ MaxSafeInteger \in Nat /\ Shares \subseteq 0 .. MaxSafeInteger
  /\ NoHash \notin Hashes /\ IsFiniteSet(CreditKeys) /\ NoKey \notin CreditKeys
  /\ {MaxLegacy, MaxCrashes, MaxBackups, MaxRestores} \subseteq Nat

VARIABLES
  tokens, applied_orders, credited,  \* the ledger's tables that take part (Ledger),
  holds, ledger_session, retired, settled_holds, charged, debits, tenures,  \* and the rest
  credit_outbox,  \* key -> [hash, micros, created_at, acked]
  process,        \* the payments process: up or down
  tick,           \* its poll tick: idle, polling or draining
  work,           \* the keys the drain listed and has not acknowledged yet
  sending,        \* the key send() waits for, and the answer
  posted,         \* credit requests ever written to the socket
  crashes,
  artifact,       \* the backup: what it holds, and how far it has got
  runs,           \* how many backups and restores there were
  owed            \* history: key -> [hash, micros], the credits ever enqueued

rest == <<holds, ledger_session, retired, settled_holds, charged, debits, tenures>>
ledger == <<tokens, applied_orders, credited, rest>>
backup == <<artifact, runs>>
vars == <<ledger, credit_outbox, process, tick, work, sending, posted, crashes, backup, owed>>

Store == INSTANCE Ledger WITH Sessions <- {}, HoldIds <- {}, Micros <- Shares

-----------------------------------------------------------------------------
Payload == [hash : Hashes, micros : Shares]
Row(payload, at, acked) ==
  [hash |-> payload.hash, micros |-> payload.micros, created_at |-> at, acked |-> acked]
PayloadOf(key) == [hash |-> credit_outbox[key].hash, micros |-> credit_outbox[key].micros]
Scrubbed(key) == credit_outbox[key].acked /\ credit_outbox[key].hash = NoHash
listUnackedCredits == {key \in DOMAIN credit_outbox : ~credit_outbox[key].acked}
Older(i, j) == credit_outbox[i].created_at < credit_outbox[j].created_at
NotSending == [key |-> NoKey, answer |-> NoAnswer]
NoArtifact == [stage |-> "none"]

\* Sum of what is owed to a hash for a set of keys.
Owed(hash, keys) ==
  SumFunctionOnSet([key \in DOMAIN owed |-> owed[key].micros],
                   {key \in keys \cap DOMAIN owed : owed[key].hash = hash})

\* A database as an earlier release left it: acknowledged rows with their
\* payload, which a restored balances.db need not have applied.
Init ==
  /\ \E old \in SUBSET CreditKeys : \E done \in SUBSET old :
       /\ Cardinality(old) <= MaxLegacy
       /\ owed \in [old -> Payload]
       /\ credit_outbox = [key \in old |-> Row(owed[key], 0, TRUE)]
       /\ applied_orders = done
  /\ credited = [hash \in Hashes |-> Owed(hash, applied_orders)]
  /\ tokens = [hash \in {owed[key].hash : key \in applied_orders} |-> credited[hash]]
  /\ holds = Store!EmptyTable /\ retired = {} /\ settled_holds = Store!EmptyTable
  /\ ledger_session =
       [session_id |-> NoSession, recovered_holds |-> 0, recovered_micros |-> 0]
  /\ charged = [hash \in Hashes |-> 0]
  /\ debits = Store!EmptyTable /\ tenures = Store!EmptyTable
  /\ process = "down" /\ tick = "idle" /\ work = {} /\ sending = NotSending
  /\ posted = {} /\ crashes = 0
  /\ artifact = NoArtifact /\ runs = [backups |-> 0, restores |-> 0]

-----------------------------------------------------------------------------
(* The payments process *)

\* Mutant: the predicate loses hash <> ''.
StartRearmsTombstones ==
  /\ process = "down" /\ process' = "up"
  /\ credit_outbox' =
       [key \in DOMAIN credit_outbox |-> [credit_outbox[key] EXCEPT !.acked = FALSE]]
  /\ UNCHANGED <<ledger, tick, work, sending, posted, crashes, backup, owed>>
\* Mutant: historical rows are left as they are.
StartWithoutRearm ==
  /\ process = "down" /\ process' = "up"
  /\ UNCHANGED <<ledger, credit_outbox, tick, work, sending, posted, crashes, backup, owed>>

\* rearmLegacyAckedCredits, once per boot and before the first tick.
Start ==
  /\ process = "down" /\ process' = "up"
  /\ credit_outbox' = [key \in DOMAIN credit_outbox |->
       IF credit_outbox[key].acked /\ ~Scrubbed(key)
       THEN [credit_outbox[key] EXCEPT !.acked = FALSE] ELSE credit_outbox[key]]
  /\ UNCHANGED <<ledger, tick, work, sending, posted, crashes, backup, owed>>

Crash ==
  /\ process = "up" /\ crashes < MaxCrashes
  /\ process' = "down" /\ crashes' = crashes + 1
  /\ tick' = "idle" /\ work' = {} /\ sending' = NotSending
  /\ UNCHANGED <<ledger, credit_outbox, posted, backup, owed>>

\* The interval fires; a tick that is still running keeps the next one out.
Poll ==
  /\ process = "up" /\ tick = "idle" /\ tick' = "polling"
  /\ UNCHANGED <<ledger, credit_outbox, process, work, sending, posted, crashes, backup, owed>>

\* commitSettlement's INSERT OR IGNORE, as a rail's settle() reaches it.
Enqueue(key, payload) ==
  /\ tick = "polling"
  /\ \E at \in {0, 1} :
       LET last == {credit_outbox[k].created_at : k \in DOMAIN credit_outbox} \cup {0}
           now == (CHOOSE t \in last : \A u \in last : u <= t) + at
       IN  credit_outbox' = IF key \in DOMAIN credit_outbox THEN credit_outbox
                            ELSE Store!Upsert(credit_outbox, key, Row(payload, now, FALSE))
  /\ owed' = IF key \in DOMAIN owed THEN owed ELSE Store!Upsert(owed, key, payload)
  /\ UNCHANGED <<ledger, process, tick, work, sending, posted, crashes, backup>>

\* Every rail is polled: the rest of the tick delivers.
Drain ==
  /\ tick = "polling" /\ tick' = "draining" /\ work' = listUnackedCredits
  /\ UNCHANGED <<ledger, credit_outbox, process, sending, posted, crashes, backup, owed>>

Send(key) ==
  /\ tick = "draining" /\ sending = NotSending
  /\ key \in work /\ \A other \in work : ~Older(other, key)
  /\ sending' = [sending EXCEPT !.key = key]
  /\ posted' = posted \cup {[key |-> key, payload |-> PayloadOf(key)]}
  /\ UNCHANGED <<ledger, credit_outbox, process, tick, work, crashes, backup, owed>>

\* Mutant: any response acknowledges.
AckAnything ==
  /\ sending # NotSending
  /\ credit_outbox' = [credit_outbox EXCEPT ![sending.key] =
       [@ EXCEPT !.acked = TRUE, !.hash = NoHash, !.micros = 0]]
  /\ work' = work \ {sending.key} /\ sending' = NotSending
  /\ UNCHANGED <<ledger, process, tick, posted, crashes, backup, owed>>

\* ackCredit: only on applied or already_applied.
Ack ==
  /\ sending.answer # NoAnswer
  /\ credit_outbox' = [credit_outbox EXCEPT ![sending.key] =
       [@ EXCEPT !.acked = TRUE, !.hash = NoHash, !.micros = 0]]
  /\ work' = work \ {sending.key} /\ sending' = NotSending
  /\ UNCHANGED <<ledger, process, tick, posted, crashes, backup, owed>>

\* Mutant: the drain goes on with the next row.
AmbiguousSkips ==
  /\ sending # NotSending
  /\ work' = work \ {sending.key} /\ sending' = NotSending
  /\ UNCHANGED <<ledger, credit_outbox, process, tick, posted, crashes, backup, owed>>

\* No recognized answer: the rest waits for the next tick.
Ambiguous ==
  /\ sending # NotSending
  /\ tick' = "idle" /\ work' = {} /\ sending' = NotSending
  /\ UNCHANGED <<ledger, credit_outbox, process, posted, crashes, backup, owed>>

Drained ==
  /\ tick = "draining" /\ work = {} /\ tick' = "idle"
  /\ UNCHANGED <<ledger, credit_outbox, process, work, sending, posted, crashes, backup, owed>>

-----------------------------------------------------------------------------
(* The ledger process takes a request.  It answers the sender when that    *)
(* request is the one being waited for; the answer to an earlier copy is   *)
(* lost.                                                                   *)
Apply(m) == Store!CreditOnce(m.payload.hash, m.payload.micros, m.key)

Take(m) ==
  /\ Apply(m)
  /\ UNCHANGED <<credit_outbox, process, tick, work, sending, posted, crashes, backup, owed>>

TakeAndAnswer(m) ==
  /\ sending = [key |-> m.key, answer |-> NoAnswer]
  /\ Apply(m)
  /\ sending' = [sending EXCEPT !.answer = Store!CreditOutcome(m.key)]
  /\ UNCHANGED <<credit_outbox, process, tick, work, posted, crashes, backup, owed>>

-----------------------------------------------------------------------------
(* Backup and restore *)

\* Every tombstone of the outbox has its marker in the ledger beside it.
Matched(outbox, applied) ==
  \A key \in DOMAIN outbox : outbox[key].acked /\ outbox[key].hash = NoHash => key \in applied

\* Mutant: the ledger's snapshot comes first.
SnapshotOrderReversed == <<"balances.db", "pending.db">>
SnapshotOrder == <<"pending.db", "balances.db">>
Contents(db) ==
  IF db = "pending.db" THEN [outbox |-> credit_outbox]
  ELSE [applied |-> applied_orders, tokens |-> tokens, credited |-> credited]
\* What the artifact holds once a snapshot is beside what it held before.
Beside(new, old) ==
  [part \in DOMAIN new \cup DOMAIN old |-> IF part \in DOMAIN new THEN new[part] ELSE old[part]]

FirstSnapshot ==
  /\ artifact.stage # "half" /\ runs.backups < MaxBackups
  /\ artifact' = Beside(Contents(SnapshotOrder[1]), [stage |-> "half"])
  /\ runs' = [runs EXCEPT !.backups = @ + 1]
  /\ UNCHANGED <<ledger, credit_outbox, process, tick, work, sending, posted, crashes, owed>>

\* Seconds later; the pair is checked before it gets its name.
SecondSnapshot ==
  /\ artifact.stage = "half"
  /\ LET pair == Beside(Contents(SnapshotOrder[2]), artifact)
     IN artifact' = [pair EXCEPT !.stage =
                       IF Matched(pair.outbox, pair.applied) THEN "complete" ELSE "refused"]
  /\ UNCHANGED <<ledger, credit_outbox, process, tick, work, sending, posted, crashes, runs, owed>>

\* Acknowledged payloads the restored ledger has not applied are owed again.
Rearmed(outbox, applied) ==
  [key \in DOMAIN outbox |->
     IF outbox[key].acked /\ outbox[key].hash # NoHash /\ key \notin applied
     THEN [outbox[key] EXCEPT !.acked = FALSE] ELSE outbox[key]]

\* The services are stopped, both databases are swapped in and the outbox is
\* re-armed; then everything starts again.  What came after the snapshots is
\* forgotten on both sides.
Restore ==
  /\ artifact.stage = "complete" /\ runs.restores < MaxRestores
  /\ runs' = [runs EXCEPT !.restores = @ + 1]
  /\ process' = "down" /\ tick' = "idle" /\ work' = {} /\ sending' = NotSending /\ posted' = {}
  /\ credit_outbox' = Rearmed(artifact.outbox, artifact.applied)
  /\ applied_orders' = artifact.applied
  /\ tokens' = artifact.tokens /\ credited' = artifact.credited
  /\ owed' = [key \in DOMAIN artifact.outbox \cup artifact.applied |-> owed[key]]
  /\ UNCHANGED <<rest, crashes, artifact>>

-----------------------------------------------------------------------------
Next ==
  \/ FirstSnapshot \/ SecondSnapshot \/ Restore
  \/ Start \/ Crash \/ Poll \/ Drain \/ Ack \/ Ambiguous \/ Drained
  \/ \E key \in CreditKeys, payload \in Payload : Enqueue(key, payload)
  \/ \E key \in CreditKeys : Send(key)
  \/ \E m \in posted : Take(m) \/ TakeAndAnswer(m)

Spec == Init /\ [][Next]_vars

(* Fairness.  systemd restarts the process, the interval keeps firing, and *)
(* the tick's own steps follow.  Of the socket only this is assumed: a     *)
(* request that is sent for ever is answered, and the answer is received,  *)
(* in the end (both units restart for ever, Restart=always).               *)
Fairness ==
  /\ WF_vars(Start) /\ WF_vars(Poll) /\ WF_vars(Drain) /\ WF_vars(Drained)
  /\ WF_vars(\E key \in CreditKeys : Send(key))
  /\ SF_vars(Ack) /\ SF_vars(\E m \in posted : TakeAndAnswer(m))

FairSpec == Spec /\ Fairness

-----------------------------------------------------------------------------
(* Every row, request and answer is well formed; a scrubbed row is never   *)
(* listed, and what the drain works on is in the outbox.                   *)
TypeOK ==
  /\ Store!IsTable(tokens, Hashes, Nat)
  /\ applied_orders \subseteq CreditKeys
  /\ Store!IsTable(credit_outbox, CreditKeys,
       [hash : Hashes \cup {NoHash}, micros : Nat, created_at : Nat, acked : BOOLEAN])
  /\ process \in {"up", "down"} /\ tick \in {"idle", "polling", "draining"}
  /\ work \subseteq DOMAIN credit_outbox
  /\ sending \in [key : {NoKey} \cup work, answer : {NoAnswer, "applied", "already_applied"}]
  /\ posted \subseteq [key : CreditKeys, payload : Payload]
  /\ DOMAIN credit_outbox \subseteq DOMAIN owed
  /\ \A key \in DOMAIN owed : owed[key] \in Payload
  /\ artifact.stage \in {"none", "half", "complete", "refused"}

(* Exactly once: what the ledger credited to a token is the sum of the     *)
(* credits owed to it whose key is applied, each once and in its own       *)
(* amount, however often a request was repeated or delayed.                *)
CreditedAsOwed == \A hash \in Hashes : credited[hash] = Owed(hash, applied_orders)

(* Nothing is lost.  A row gives up its payload only after the ledger has  *)
(* applied the credit; until then it still says what is owed, through      *)
(* crashes and restores.  And whatever the two services do between the     *)
(* snapshots, the pair a backup ends with is one that restore accepts:     *)
(* every tombstone in it has its marker (backup.sh:86-98).                 *)
NothingForgotten ==
  /\ \A key \in DOMAIN credit_outbox :
       key \in applied_orders \/ (~Scrubbed(key) /\ PayloadOf(key) = owed[key])
  /\ artifact.stage # "refused"

(* Oldest first: a credit is acknowledged only when no older one is still  *)
(* to be delivered (a failing head blocks the queue, it is not overtaken). *)
NotOvertaken ==
  \A i, j \in DOMAIN credit_outbox :
    Scrubbed(j) /\ ~credit_outbox[i].acked => ~Older(i, j)

(* Every credit that is enqueued is applied by the ledger and scrubbed,    *)
(* through crashes of the payments process and ambiguous answers; rows an  *)
(* earlier release acknowledged are verified the same way.  Only a restore *)
(* to a moment before the credit was enqueued takes it back.               *)
EveryCreditLands ==
  \A key \in CreditKeys :
    key \in DOMAIN credit_outbox ~>
      key \notin DOMAIN credit_outbox \/ (key \in applied_orders /\ Scrubbed(key))
=============================================================================
