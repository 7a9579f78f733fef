--------------------------- MODULE PrepaidAccounts ---------------------------
(***************************************************************************)
(* What metering promises the owner of a token, without sessions, retries, *)
(* processes or a wire: every request reserves at most once, from money    *)
(* that is there, and is closed once; closing charges at most what was     *)
(* reserved and returns the rest; recovery returns reservations whole.     *)
(***************************************************************************)
EXTENDS Integers, Functions

CONSTANTS Tokens, Requests, MaxMicros

VARIABLES
  account,  \* token -> micros to spend; tokens without credit have no account
  lien,     \* request -> [token, micros], the reservations that are open
  closed,   \* requests whose reservation was opened and closed again
  spent     \* token -> micros charged

vars == <<account, lien, closed, spent>>

Init ==
  /\ account = [t \in {} |-> 0]
  /\ lien = [r \in {} |-> 0]
  /\ closed = {}
  /\ spent = [t \in Tokens |-> 0]

Deposit(t, micros) ==
  /\ account' = [u \in DOMAIN account \cup {t} |->
                   (IF u \in DOMAIN account THEN account[u] ELSE 0)
                     + (IF u = t THEN micros ELSE 0)]
  /\ UNCHANGED <<lien, closed, spent>>

Reserve(r, t, micros) ==
  /\ r \notin DOMAIN lien \cup closed
  /\ t \in DOMAIN account /\ account[t] >= micros
  /\ account' = [account EXCEPT ![t] = @ - micros]
  /\ lien' = [q \in DOMAIN lien \cup {r} |->
                IF q = r THEN [token |-> t, micros |-> micros] ELSE lien[q]]
  /\ UNCHANGED <<closed, spent>>

Charge(r, micros) ==
  /\ r \in DOMAIN lien /\ micros <= lien[r].micros
  /\ account' = [account EXCEPT ![lien[r].token] = @ + lien[r].micros - micros]
  /\ spent' = [spent EXCEPT ![lien[r].token] = @ + micros]
  /\ lien' = [q \in DOMAIN lien \ {r} |-> lien[q]]
  /\ closed' = closed \cup {r}

\* Every open reservation is returned whole.
Recover ==
  /\ account' = [t \in DOMAIN account |->
       account[t] + SumFunctionOnSet([r \in DOMAIN lien |-> lien[r].micros],
                                     {r \in DOMAIN lien : lien[r].token = t})]
  /\ lien' = [r \in {} |-> 0]
  /\ closed' = closed \cup DOMAIN lien
  /\ UNCHANGED spent

Next ==
  \/ \E t \in Tokens, micros \in 0 .. MaxMicros : Deposit(t, micros)
  \/ \E r \in Requests, t \in Tokens, micros \in 0 .. MaxMicros : Reserve(r, t, micros)
  \/ \E r \in Requests, micros \in 0 .. MaxMicros : Charge(r, micros)
  \/ Recover

Spec == Init /\ [][Next]_vars
=============================================================================
