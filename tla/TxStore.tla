------------------------------ MODULE TxStore -------------------------------
(***************************************************************************)
(* What a handler takes a storage transaction to be, and what a storage     *)
(* with transactions gives it (logical.TransactionalStorage): its writes    *)
(* are its own until Commit, which makes all of them visible in one step,   *)
(* and a transaction that is rolled back never happened.  ShimTx implements *)
(* it over a storage that has no transactions.                              *)
(***************************************************************************)
CONSTANTS
  Tx,        \* requests that run a transaction
  Key,       \* storage paths
  Value,     \* what may be stored
  Absent,    \* no entry is stored
  Untouched  \* the transaction did not write the key

VARIABLES
  store,   \* store[k]: the entry at k
  open,    \* transactions that have begun
  writes,  \* writes[t][k]: what t will leave at k
  got      \* got[t]: the answer to the last Get of t

vars == <<store, open, writes, got>>

NoWrites == [k \in Key |-> Untouched]

Init ==
  /\ store \in [Key -> Value \cup {Absent}]
  /\ open = {}
  /\ writes = [t \in Tx |-> NoWrites]
  /\ got = [t \in Tx |-> Absent]

Begin(t) ==
  /\ t \notin open
  /\ open' = open \cup {t}
  /\ UNCHANGED <<store, writes, got>>

\* Put, or Delete when v is Absent.
Write(t, k, v) ==
  /\ t \in open
  /\ writes' = [writes EXCEPT ![t][k] = v]
  /\ UNCHANGED <<store, open, got>>

\* Get: the transaction sees its own writes over what is stored.
Read(t, k) ==
  /\ t \in open
  /\ got' = [got EXCEPT ![t] = IF writes[t][k] = Untouched THEN store[k] ELSE writes[t][k]]
  /\ UNCHANGED <<store, open, writes>>

End(t) ==
  /\ t \in open
  /\ open' = open \ {t}
  /\ writes' = [writes EXCEPT ![t] = NoWrites]
  /\ UNCHANGED got

Commit(t) ==
  /\ End(t)
  /\ store' = [k \in Key |-> IF writes[t][k] = Untouched THEN store[k] ELSE writes[t][k]]

Rollback(t) == End(t) /\ UNCHANGED store

Next ==
  \E t \in Tx :
    \/ Begin(t)
    \/ \E k \in Key, v \in Value \cup {Absent} : Write(t, k, v)
    \/ \E k \in Key : Read(t, k)
    \/ Commit(t)
    \/ Rollback(t)

Spec == Init /\ [][Next]_vars
=============================================================================
