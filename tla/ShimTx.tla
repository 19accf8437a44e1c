------------------------------- MODULE ShimTx -------------------------------
(***************************************************************************)
(* Transactions for storages that have none (StartTxStorageWithShim over    *)
(* such a storage): a transaction logs its Puts and Deletes, Get looks      *)
(* through the log backward, and Commit writes the log to the storage one   *)
(* entry at a time.                                                         *)
(*                                                                          *)
(* Several requests may run transactions at once, each call to the storage  *)
(* is a step, and where Faults says so a write to the storage may fail and  *)
(* the process may die between two of them.  With one request ShimTx        *)
(* implements TxStore, the faults aside: a transaction takes effect when    *)
(* its Commit begins, since nobody else reads what is written until it ends. *)
(***************************************************************************)
EXTENDS Naturals, Sequences

CONSTANTS
  Tx,         \* requests that run a transaction
  Key,        \* storage paths
  Value,      \* what may be stored
  Absent,     \* no entry; a log entry with this value is a Delete
  Untouched,  \* the log does not write the key
  Faults,     \* whether writes may fail and the process may die
  MaxLog      \* bound: writes of one transaction

ASSUME ShimTxAssumption ==
  /\ Absent \notin Value /\ Untouched \notin Value /\ Untouched # Absent
  /\ Faults \in BOOLEAN
  /\ MaxLog \in Nat

VARIABLES
  store,  \* store[k]: the entry the storage holds at k
  log,    \* log[t]: the actions of inmemTransaction t, oldest first
  pc,     \* "idle", "open", "commit" in Commit, "failed" after it returned an error
  done,   \* done[t]: how many actions Commit has applied
  got     \* got[t]: the answer to the last Get of t

vars == <<store, log, pc, done, got>>

Entry == Value \cup {Absent}
Action == [key : Key, val : Entry]

\* A log grows only in an open transaction, Commit never runs past its end,
\* and a transaction that has ended has none.
TypeOK ==
  /\ store \in [Key -> Entry]
  /\ log \in [Tx -> Seq(Action)]
  /\ pc \in [Tx -> {"idle", "open", "commit", "failed"}]
  /\ done \in [Tx -> Nat]
  /\ got \in [Tx -> Entry]
  /\ \A t \in Tx :
       /\ done[t] <= Len(log[t])
       /\ pc[t] = "idle" => log[t] = <<>>
       /\ pc[t] = "open" => done[t] = 0
       /\ pc[t] = "failed" => Faults

Init ==
  /\ store \in [Key -> Entry]
  /\ log = [t \in Tx |-> <<>>]
  /\ pc = [t \in Tx |-> "idle"]
  /\ done = [t \in Tx |-> 0]
  /\ got = [t \in Tx |-> Absent]

-----------------------------------------------------------------------------
(* What a log says of a key, its first d actions aside.                     *)

WritesTo(l, d, k) == {i \in (d + 1) .. Len(l) : l[i].key = k}

LastOf(I) == CHOOSE i \in I : \A j \in I : j <= i

\* Get takes the oldest write for the latest (a loop that does not run backward).
LastWriteFirst(l, d, k) ==
  LET I == WritesTo(l, d, k)
  IN IF I = {} THEN Untouched ELSE l[CHOOSE i \in I : \A j \in I : i <= j].val

LastWrite(l, d, k) ==
  LET I == WritesTo(l, d, k)
  IN IF I = {} THEN Untouched ELSE l[LastOf(I)].val

\* The storage s under the log.
Overlay(s, l, d) ==
  [k \in Key |-> IF LastWrite(l, d, k) = Untouched THEN s[k] ELSE LastWrite(l, d, k)]

-----------------------------------------------------------------------------

Goto(t, l) == pc' = [pc EXCEPT ![t] = l]

\* StartTxStorageWithShim, NewInmemTransaction.
Begin(t) ==
  /\ pc[t] = "idle"
  /\ Goto(t, "open")
  /\ UNCHANGED <<store, log, done, got>>

\* Put, or Delete when v is Absent.
Write(t, k, v) ==
  /\ pc[t] = "open"
  /\ Len(log[t]) < MaxLog
  /\ log' = [log EXCEPT ![t] = Append(@, [key |-> k, val |-> v])]
  /\ UNCHANGED <<store, pc, done, got>>

Get(t, k) ==
  /\ pc[t] = "open"
  /\ got' = [got EXCEPT ![t] = Overlay(store, log[t], 0)[k]]
  /\ UNCHANGED <<store, log, pc, done>>

\* EndTxStorage calls Commit.
BeginCommit(t) ==
  /\ pc[t] = "open"
  /\ Goto(t, "commit")
  /\ UNCHANGED <<store, log, done, got>>

\* The mutant of Apply skips deletions.
ApplyPutsOnly(t) ==
  /\ pc[t] = "commit" /\ done[t] < Len(log[t])
  /\ LET a == log[t][done[t] + 1]
     IN store' = IF a.val = Absent THEN store ELSE [store EXCEPT ![a.key] = a.val]
  /\ done' = [done EXCEPT ![t] = @ + 1]
  /\ UNCHANGED <<log, pc, got>>

\* The next action of the log is written to the storage.
Apply(t) ==
  /\ pc[t] = "commit" /\ done[t] < Len(log[t])
  /\ LET a == log[t][done[t] + 1]
     IN store' = [store EXCEPT ![a.key] = a.val]
  /\ done' = [done EXCEPT ![t] = @ + 1]
  /\ UNCHANGED <<log, pc, got>>

\* The storage refuses the write: Commit returns the error and stops.
ApplyFails(t) ==
  /\ Faults
  /\ pc[t] = "commit" /\ done[t] < Len(log[t])
  /\ Goto(t, "failed")
  /\ UNCHANGED <<store, log, done, got>>

\* The log is dropped and the transaction ends.
Drop(t) ==
  /\ Goto(t, "idle")
  /\ log' = [log EXCEPT ![t] = <<>>]
  /\ done' = [done EXCEPT ![t] = 0]
  /\ UNCHANGED <<store, got>>

\* The mutant of EndCommit keeps the log.
EndCommitKeeps(t) ==
  /\ pc[t] = "commit" /\ done[t] = Len(log[t])
  /\ Goto(t, "idle")
  /\ UNCHANGED <<store, log, done, got>>

\* Commit returns; the deferred Rollback finds nothing to drop.
EndCommit(t) == pc[t] = "commit" /\ done[t] = Len(log[t]) /\ Drop(t)

\* The deferred Rollback of a handler that returns early or whose Commit failed.
Rollback(t) == pc[t] \in {"open", "failed"} /\ Drop(t)

\* The process dies: what it held in memory is gone.
Crash ==
  /\ Faults
  /\ log' = [t \in Tx |-> <<>>]
  /\ pc' = [t \in Tx |-> "idle"]
  /\ done' = [t \in Tx |-> 0]
  /\ got' = [t \in Tx |-> Absent]
  /\ UNCHANGED store

Next ==
  \/ \E t \in Tx :
       \/ Begin(t)
       \/ \E k \in Key, v \in Entry : Write(t, k, v)
       \/ \E k \in Key : Get(t, k)
       \/ BeginCommit(t)
       \/ Apply(t)
       \/ ApplyFails(t)
       \/ EndCommit(t)
       \/ Rollback(t)
  \/ Crash

Spec == Init /\ [][Next]_vars

-----------------------------------------------------------------------------
(* The abstract transaction.  In the middle of a Commit the storage stands  *)
(* for what it will hold when Commit is done.                               *)

Committing == {t \in Tx : pc[t] = "commit"}

AbsStore ==
  IF Committing = {} THEN store
  ELSE LET t == CHOOSE u \in Committing : TRUE IN Overlay(store, log[t], done[t])

AbsWrites ==
  [t \in Tx |-> [k \in Key |-> IF pc[t] = "open" THEN LastWrite(log[t], 0, k) ELSE Untouched]]

Abs == INSTANCE TxStore WITH
  store <- AbsStore, open <- {t \in Tx : pc[t] = "open"}, writes <- AbsWrites

\* The steps in which a Commit is cut short.
FaultStep == Crash \/ \E t \in Tx : ApplyFails(t)

\* One transaction at a time is atomic: every step but a fault is one of the
\* abstract transaction, or none. A handler that reads, writes and commits
\* through the shim cannot tell it from a storage with transactions, until a
\* Commit is cut short (inmem_transaction.go:228-290).
Atomic == Abs!Init /\ [][FaultStep \/ [Abs!Next]_(Abs!vars)]_vars

\* inmem_transaction.go:292: "Rollback a transaction, preventing any changes
\* from being persisted." A transaction that is rolled back has written nothing.
RollbackPersistsNothing == [][\A t \in Tx : Rollback(t) => done[t] = 0]_vars
=============================================================================
