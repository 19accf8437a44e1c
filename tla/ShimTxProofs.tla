---------------------------- MODULE ShimTxProofs -----------------------------
(***************************************************************************)
(* Proofs about ShimTx: the type invariant for any number of transactions,  *)
(* and that one transaction at a time implements TxStore, for every set of  *)
(* keys and values and every bound on the log.                              *)
(*                                                                          *)
(* The refinement rests on two facts about a log.  What it says of a key    *)
(* after a Write is that write (LastWriteAppended), so Get and the writes   *)
(* of the abstract transaction agree.  And writing its next action to the   *)
(* storage does not change what storage and log say together               *)
(* (OverlayApplied), so that the abstract store stays what it became when   *)
(* the Commit began, until the log is used up (OverlayDone).                *)
(***************************************************************************)
EXTENDS ShimTx, TLAPS, SequenceTheorems, WellFoundedInduction

-----------------------------------------------------------------------------
(* Logs.                                                                    *)

\* A set of positions that is not empty has a last one.
LEMMA LastExists ==
  ASSUME NEW n \in Nat, NEW I \in SUBSET (1 .. n), I # {}
  PROVE  LastOf(I) \in I /\ \A j \in I : j <= LastOf(I)
  <1> DEFINE T == {n - i : i \in I}
  <1>1. T \subseteq Nat /\ T # {}
    <2>1. \A i \in I : i \in 1 .. n /\ n - i \in Nat /\ n - i \in T
      OBVIOUS
    <2>2. PICK i \in I : TRUE
      OBVIOUS
    <2> QED BY <2>1, <2>2
  <1>2. PICK m \in T : \A y \in T : <<y, m>> \notin OpToRel(<, Nat)
    <2> HIDE DEF T
    <2> QED BY <1>1, WFMin, NatLessThanWellFounded
  <1>3. PICK i \in I : m = n - i
    OBVIOUS
  <1>4. \A j \in I : j <= i
    <2> SUFFICES ASSUME NEW j \in I, ~(j <= i) PROVE FALSE
      OBVIOUS
    <2>1. n - j \in T /\ n - j < m
      BY <1>3
    <2>2. <<n - j, m>> \in OpToRel(<, Nat)
      BY <1>1, <2>1 DEF OpToRel
    <2> QED BY <1>2, <2>1, <2>2
  <1> QED BY <1>4 DEF LastOf

\* A log says of a key that it is untouched, or what the last write to it was.
LEMMA LastWriteDef ==
  ASSUME NEW l \in Seq(Action), NEW d \in Nat, NEW k \in Key
  PROVE  /\ WritesTo(l, d, k) = {} => LastWrite(l, d, k) = Untouched
         /\ \A i \in WritesTo(l, d, k) :
              (\A j \in WritesTo(l, d, k) : j <= i) => LastWrite(l, d, k) = l[i].val
         /\ WritesTo(l, d, k) # {} => LastWrite(l, d, k) \in Entry
  <1> DEFINE I == WritesTo(l, d, k)
  <1>1. I \in SUBSET (1 .. Len(l)) /\ Len(l) \in Nat
    BY LenProperties DEF WritesTo
  <1>2. ASSUME I # {} PROVE LastOf(I) \in I /\ \A j \in I : j <= LastOf(I)
    <2> HIDE DEF I
    <2> QED BY <1>1, <1>2, LastExists
  <1>3. ASSUME NEW i \in I, \A j \in I : j <= i PROVE LastWrite(l, d, k) = l[i].val
    <2>1. LastOf(I) \in I /\ LastOf(I) <= i /\ i <= LastOf(I)
      BY <1>2, <1>3
    <2>2. LastOf(I) = i
      <3>1. LastOf(I) \in Int /\ i \in Int
        BY <1>1, <2>1
      <3> HIDE DEF I
      <3> QED BY <2>1, <3>1
    <2> QED BY <2>2 DEF LastWrite
  <1>4. ASSUME I # {} PROVE LastWrite(l, d, k) \in Entry
    <2>1. LastOf(I) \in 1 .. Len(l)
      BY <1>1, <1>2, <1>4
    <2>2. l[LastOf(I)] \in Action
      BY <2>1, ElementOfSeq
    <2> QED BY <2>2, <1>4 DEF LastWrite, Action
  <1>5. I = {} => LastWrite(l, d, k) = Untouched
    BY DEF LastWrite
  <1> QED BY <1>3, <1>4, <1>5

\* After a write a log says of the key what was written, and of others what it
\* said before.
LEMMA LastWriteAppended ==
  ASSUME NEW l \in Seq(Action), NEW a \in Action, NEW k \in Key
  PROVE  LastWrite(Append(l, a), 0, k) = IF a.key = k THEN a.val ELSE LastWrite(l, 0, k)
  <1> DEFINE m == Append(l, a)
             I == WritesTo(l, 0, k)
             J == WritesTo(m, 0, k)
  <1>1. /\ m \in Seq(Action) /\ Len(m) = Len(l) + 1 /\ m[Len(l) + 1] = a
        /\ \A i \in 1 .. Len(l) : m[i] = l[i]
        /\ Len(l) \in Nat
    BY AppendProperties, LenProperties
  <1>2. I = {i \in 1 .. Len(l) : l[i].key = k}
    BY DEF WritesTo
  <1>3. J = {i \in 1 .. Len(l) + 1 : m[i].key = k}
    BY <1>1 DEF WritesTo
  <1>4. CASE a.key = k
    <2>1. Len(l) + 1 \in J /\ \A j \in J : j <= Len(l) + 1
      BY <1>1, <1>3, <1>4
    <2>2. LastWrite(m, 0, k) = m[Len(l) + 1].val
      BY <1>1, <2>1, LastWriteDef
    <2> QED BY <1>1, <1>4, <2>2
  <1>5. CASE a.key # k
    <2>1. J = I
      <3>1. \A i \in J : i \in I
        BY <1>1, <1>2, <1>3, <1>5
      <3>2. \A i \in I : i \in J
        BY <1>1, <1>2, <1>3
      <3> QED BY <3>1, <3>2
    <2>2. CASE I = {}
      <3>1. LastWrite(l, 0, k) = Untouched
        BY <2>2, LastWriteDef
      <3>2. LastWrite(m, 0, k) = Untouched
        BY <1>1, <2>1, <2>2, LastWriteDef
      <3> QED BY <1>5, <3>1, <3>2
    <2>3. CASE I # {}
      <3>1. PICK i \in I : \A j \in I : j <= i
        <4>1. I \in SUBSET (1 .. Len(l))
          BY <1>2
        <4> HIDE DEF I
        <4> QED BY <1>1, <2>3, <4>1, LastExists
      <3>2. LastWrite(l, 0, k) = l[i].val
        BY <3>1, LastWriteDef
      <3>3. LastWrite(m, 0, k) = m[i].val
        <4>1. i \in J /\ \A j \in J : j <= i
          BY <2>1, <3>1
        <4> HIDE DEF m
        <4> QED BY <1>1, <4>1, LastWriteDef
      <3>4. m[i] = l[i]
        BY <1>1, <1>2
      <3> QED BY <1>5, <3>2, <3>3, <3>4
    <2> QED BY <2>2, <2>3
  <1> QED BY <1>4, <1>5

\* The next action of a log says what the log says of its key, unless a later
\* one does.
LEMMA LastWriteNext ==
  ASSUME NEW l \in Seq(Action), NEW d \in Nat, d < Len(l), NEW k \in Key
  PROVE  IF LastWrite(l, d + 1, k) = Untouched /\ l[d + 1].key = k
           THEN LastWrite(l, d, k) = l[d + 1].val
           ELSE LastWrite(l, d, k) = LastWrite(l, d + 1, k)
  <1> DEFINE I == WritesTo(l, d + 1, k)
             J == WritesTo(l, d, k)
  <1>1. Len(l) \in Nat
    BY LenProperties
  <1>2. I = {i \in (d + 2) .. Len(l) : l[i].key = k}
    BY DEF WritesTo
  <1>3. J = {i \in (d + 1) .. Len(l) : l[i].key = k}
    BY DEF WritesTo
  <1>4. CASE I # {}
    <2>1. PICK i \in I : \A j \in I : j <= i
      <3>1. I \in SUBSET (1 .. Len(l))
        BY <1>1, <1>2
      <3> HIDE DEF I
      <3> QED BY <1>1, <1>4, <3>1, LastExists
    <2>2. LastWrite(l, d + 1, k) = l[i].val
      BY <2>1, LastWriteDef
    <2>3. i \in J /\ \A j \in J : j <= i
      BY <1>1, <1>2, <1>3, <2>1
    <2>4. LastWrite(l, d, k) = l[i].val
      BY <2>3, LastWriteDef
    <2>5. LastWrite(l, d + 1, k) # Untouched
      BY <1>4, LastWriteDef, ShimTxAssumption DEF Entry
    <2> QED BY <2>2, <2>4, <2>5
  <1>5. CASE I = {}
    <2>1. LastWrite(l, d + 1, k) = Untouched
      BY <1>5, LastWriteDef
    <2>2. CASE l[d + 1].key = k
      <3>1. d + 1 \in J /\ \A j \in J : j <= d + 1
        BY <1>1, <1>2, <1>3, <1>5, <2>2
      <3>2. LastWrite(l, d, k) = l[d + 1].val
        BY <3>1, LastWriteDef
      <3> QED BY <2>1, <2>2, <3>2
    <2>3. CASE l[d + 1].key # k
      <3>1. J = {}
        BY <1>1, <1>2, <1>3, <1>5, <2>3
      <3>2. LastWrite(l, d, k) = Untouched
        BY <3>1, LastWriteDef
      <3> QED BY <2>1, <2>3, <3>2
    <2> QED BY <2>2, <2>3
  <1> QED BY <1>4, <1>5

\* Writing the next action to the storage takes nothing away from what storage
\* and log say together, and adds nothing.
LEMMA OverlayApplied ==
  ASSUME NEW s \in [Key -> Entry], NEW l \in Seq(Action), NEW d \in Nat, d < Len(l)
  PROVE  Overlay([s EXCEPT ![l[d + 1].key] = l[d + 1].val], l, d + 1) = Overlay(s, l, d)
  <1> DEFINE a == l[d + 1]
             r == [s EXCEPT ![a.key] = a.val]
  <1>1. a \in Action
    BY ElementOfSeq, LenProperties
  <1>2. a.key \in Key /\ a.val \in Entry /\ a.val # Untouched
    BY <1>1, ShimTxAssumption DEF Action, Entry
  <1>3. ASSUME NEW k \in Key
        PROVE  (IF LastWrite(l, d + 1, k) = Untouched THEN r[k] ELSE LastWrite(l, d + 1, k))
               = (IF LastWrite(l, d, k) = Untouched THEN s[k] ELSE LastWrite(l, d, k))
    <2>1. r[k] = IF k = a.key THEN a.val ELSE s[k]
      BY <1>2
    <2> HIDE DEF r
    <2> QED BY <1>2, <2>1, LastWriteNext
  <1> QED BY <1>3 DEF Overlay

\* A log that is used up says nothing.
LEMMA OverlayDone ==
  ASSUME NEW s \in [Key -> Entry], NEW l \in Seq(Action)
  PROVE  Overlay(s, l, Len(l)) = s
  <1>1. Len(l) \in Nat
    BY LenProperties
  <1>2. ASSUME NEW k \in Key PROVE LastWrite(l, Len(l), k) = Untouched
    <2>1. WritesTo(l, Len(l), k) = {}
      BY <1>1 DEF WritesTo
    <2> QED BY <1>1, <2>1, LastWriteDef
  <1> QED BY <1>2 DEF Overlay

-----------------------------------------------------------------------------
(* Types.                                                                   *)

\* No transaction is open at first.
LEMMA InitType == Init => TypeOK
  BY EmptySeq DEF Init, TypeOK, Entry

\* Dropping the log of one transaction.
LEMMA DropType ==
  ASSUME TypeOK, NEW t \in Tx, Drop(t)
  PROVE  TypeOK'
  <1>1. <<>> \in Seq(Action) /\ Len(<<>>) = 0
    BY EmptySeq
  <1>2. log' \in [Tx -> Seq(Action)] /\ done' \in [Tx -> Nat]
    BY <1>1 DEF Drop, TypeOK
  <1>3. pc' \in [Tx -> {"idle", "open", "commit", "failed"}]
    BY DEF Drop, Goto, TypeOK
  <1>4. ASSUME NEW u \in Tx
        PROVE  /\ done'[u] <= Len(log'[u])
               /\ pc'[u] = "idle" => log'[u] = <<>>
               /\ pc'[u] = "open" => done'[u] = 0
               /\ pc'[u] = "failed" => Faults
    <2>1. CASE u = t
      BY <1>1, <2>1 DEF Drop, Goto, TypeOK
    <2>2. CASE u # t
      BY <2>2 DEF Drop, Goto, TypeOK
    <2> QED BY <2>1, <2>2
  <1> QED BY <1>2, <1>3, <1>4 DEF Drop, TypeOK

\* A transaction moves on without its log: t goes to the place l, and what
\* TypeOK asks of that place is true.
LEMMA GotoType ==
  ASSUME TypeOK, NEW t \in Tx, NEW l \in {"open", "commit", "failed"},
         Goto(t, l), UNCHANGED <<store, log, done, got>>,
         l = "open" => done[t] = 0,
         l = "failed" => Faults
  PROVE  TypeOK'
  BY DEF Goto, TypeOK

\* Every call, and every fault, keeps the types.
LEMMA StepType == TypeOK /\ [Next]_vars => TypeOK'
  <1> SUFFICES ASSUME TypeOK, [Next]_vars PROVE TypeOK'
    OBVIOUS
  <1>1. ASSUME NEW t \in Tx, Begin(t) PROVE TypeOK'
    <2>1. done[t] = 0
      <3>1. log[t] = <<>> /\ done[t] \in Nat /\ done[t] <= Len(log[t])
        BY <1>1 DEF Begin, TypeOK
      <3> QED BY <3>1, EmptySeq
    <2> QED BY <1>1, <2>1, GotoType DEF Begin
  <1>2. ASSUME NEW t \in Tx, NEW k \in Key, NEW v \in Entry, Write(t, k, v) PROVE TypeOK'
    <2> DEFINE a == [key |-> k, val |-> v]
    <2>1. a \in Action /\ log[t] \in Seq(Action)
      BY DEF Action, TypeOK
    <2>2. Append(log[t], a) \in Seq(Action) /\ Len(Append(log[t], a)) = Len(log[t]) + 1 /\ Len(log[t]) \in Nat
      BY <2>1, AppendProperties, LenProperties
    <2>3. log' = [log EXCEPT ![t] = Append(log[t], a)]
      BY <1>2 DEF Write
    <2>4. log' \in [Tx -> Seq(Action)]
      BY <2>2, <2>3 DEF TypeOK
    <2>5. pc[t] = "open" /\ UNCHANGED <<store, pc, done, got>>
      BY <1>2 DEF Write
    <2>6. ASSUME NEW u \in Tx
          PROVE  done[u] <= Len(log'[u]) /\ (pc[u] = "idle" => log'[u] = <<>>)
      <3>1. CASE u = t
        <4>1. log'[u] = Append(log[t], a) /\ done[t] \in Nat /\ done[t] <= Len(log[t])
          BY <2>3, <3>1 DEF TypeOK
        <4> QED BY <2>2, <2>5, <3>1, <4>1
      <3>2. CASE u # t
        BY <2>3, <3>2 DEF TypeOK
      <3> QED BY <3>1, <3>2
    <2> QED BY <2>4, <2>5, <2>6 DEF TypeOK
  <1>3. ASSUME NEW t \in Tx, NEW k \in Key, Get(t, k) PROVE TypeOK'
    <2>1. Overlay(store, log[t], 0)[k] \in Entry
      <3>1. log[t] \in Seq(Action) /\ store[k] \in Entry
        BY DEF TypeOK
      <3> QED BY <3>1, LastWriteDef DEF Overlay
    <2>2. got' \in [Tx -> Entry]
      BY <1>3, <2>1 DEF Get, TypeOK
    <2> QED BY <1>3, <2>2 DEF Get, TypeOK
  <1>4. ASSUME NEW t \in Tx, BeginCommit(t) PROVE TypeOK'
    BY <1>4, GotoType DEF BeginCommit
  <1>5. ASSUME NEW t \in Tx, Apply(t) PROVE TypeOK'
    <2>1. /\ log[t] \in Seq(Action) /\ Len(log[t]) \in Nat
          /\ done[t] \in Nat /\ done[t] < Len(log[t])
      BY <1>5, LenProperties DEF Apply, TypeOK
    <2>2. log[t][done[t] + 1] \in Action
      BY <2>1, ElementOfSeq
    <2>3. store' \in [Key -> Entry]
      BY <1>5, <2>2 DEF Apply, Action, TypeOK
    <2>4. done' = [done EXCEPT ![t] = done[t] + 1] /\ pc[t] = "commit" /\ UNCHANGED <<log, pc, got>>
      BY <1>5 DEF Apply
    <2>5. ASSUME NEW u \in Tx
          PROVE  done'[u] <= Len(log[u]) /\ (pc[u] = "open" => done'[u] = 0)
      BY <2>1, <2>4 DEF TypeOK
    <2> QED BY <2>1, <2>3, <2>4, <2>5 DEF TypeOK
  <1>6. ASSUME NEW t \in Tx, ApplyFails(t) PROVE TypeOK'
    BY <1>6, GotoType DEF ApplyFails
  <1>7. ASSUME NEW t \in Tx, EndCommit(t) \/ Rollback(t) PROVE TypeOK'
    BY <1>7, DropType DEF EndCommit, Rollback
  <1>8. ASSUME Crash PROVE TypeOK'
    BY <1>8, EmptySeq DEF Crash, TypeOK, Entry
  <1>9. ASSUME UNCHANGED vars PROVE TypeOK'
    BY <1>9 DEF vars, TypeOK
  <1> QED
    BY <1>1, <1>2, <1>3, <1>4, <1>5, <1>6, <1>7, <1>8, <1>9 DEF Next

\* Every transaction is in a place its log allows: Commit never runs past the
\* end of the log it applies, however many requests are served (Commit, Rollback
\* of inmem_transaction.go).
THEOREM TypeCorrect == Spec => []TypeOK
  BY InitType, StepType, PTL DEF Spec

-----------------------------------------------------------------------------
(* The refinement.                                                          *)

\* With one request the abstract store is what storage and log say together
\* while it commits, and the storage otherwise.
LEMMA AbsStoreDef ==
  ASSUME NEW t, Tx = {t}
  PROVE  /\ AbsStore = IF pc[t] = "commit" THEN Overlay(store, log[t], done[t]) ELSE store
         /\ AbsStore' = IF pc'[t] = "commit" THEN Overlay(store', log'[t], done'[t]) ELSE store'
  <1>1. /\ Committing = IF pc[t] = "commit" THEN {t} ELSE {}
        /\ Committing' = IF pc'[t] = "commit" THEN {t} ELSE {}
    BY DEF Committing
  <1>2. (CHOOSE u \in {t} : TRUE) = t
    OBVIOUS
  <1> QED BY <1>1, <1>2 DEF AbsStore

\* The abstract writes are those of the open transaction.
LEMMA AbsWritesDef ==
  ASSUME NEW t, Tx = {t}
  PROVE  /\ pc[t] = "open" => AbsWrites = [u \in Tx |-> [k \in Key |-> LastWrite(log[t], 0, k)]]
         /\ pc[t] # "open" => AbsWrites = [u \in Tx |-> Abs!NoWrites]
         /\ pc'[t] = "open" => AbsWrites' = [u \in Tx |-> [k \in Key |-> LastWrite(log'[t], 0, k)]]
         /\ pc'[t] # "open" => AbsWrites' = [u \in Tx |-> Abs!NoWrites]
  BY DEF AbsWrites, Abs!NoWrites

\* Before any request the shim stands for an idle abstract storage.
LEMMA InitRefines ==
  ASSUME NEW t, Tx = {t}, Init
  PROVE  Abs!Init
  <1>1. pc[t] = "idle"
    BY DEF Init
  <1>2. AbsStore = store /\ AbsWrites = [u \in Tx |-> Abs!NoWrites]
    BY <1>1, AbsStoreDef, AbsWritesDef
  <1>3. {u \in Tx : pc[u] = "open"} = {}
    BY <1>1
  <1> QED BY <1>2, <1>3 DEF Init, Entry, Abs!Init

\* Each call is a step of the abstract transaction or none, faults aside.
LEMMA StepRefines ==
  ASSUME NEW t, Tx = {t}, TypeOK, [Next]_vars
  PROVE  FaultStep \/ [Abs!Next]_(Abs!vars)
  <1> USE DEF Abs!vars
  <1>0. /\ log[t] \in Seq(Action) /\ done[t] \in Nat /\ store \in [Key -> Entry]
        /\ Len(log[t]) \in Nat
    BY LenProperties DEF TypeOK
  <1>1. ASSUME Begin(t) PROVE Abs!Begin(t)
    <2>1. pc[t] = "idle" /\ pc'[t] = "open" /\ log' = log /\ log[t] = <<>>
      BY <1>1 DEF Begin, Goto, TypeOK
    <2>2. \A k \in Key : LastWrite(log[t], 0, k) = Untouched
      <3>1. \A k \in Key : WritesTo(log[t], 0, k) = {}
        BY <2>1 DEF WritesTo
      <3> QED BY <1>0, <3>1, LastWriteDef
    <2>3. AbsWrites' = AbsWrites
      BY <2>1, <2>2, AbsWritesDef DEF Abs!NoWrites
    <2>4. AbsStore' = AbsStore
      BY <1>1, <2>1, AbsStoreDef DEF Begin
    <2>5. {u \in Tx : pc[u] = "open"}' = {u \in Tx : pc[u] = "open"} \cup {t} /\ t \notin {u \in Tx : pc[u] = "open"}
      BY <2>1
    <2> QED BY <1>1, <2>3, <2>4, <2>5 DEF Begin, Abs!Begin
  <1>2. ASSUME NEW k \in Key, NEW v \in Entry, Write(t, k, v) PROVE Abs!Write(t, k, v)
    <2> DEFINE a == [key |-> k, val |-> v]
    <2>1. pc[t] = "open" /\ pc' = pc /\ log'[t] = Append(log[t], a) /\ UNCHANGED <<store, got>>
      BY <1>2 DEF Write, TypeOK
    <2>2. a \in Action
      BY DEF Action
    <2>3. \A m \in Key : LastWrite(log'[t], 0, m) = IF k = m THEN v ELSE LastWrite(log[t], 0, m)
      BY <1>0, <2>1, <2>2, LastWriteAppended
    <2>4. AbsWrites' = [AbsWrites EXCEPT ![t][k] = v]
      <3>0. pc[t] = "open" /\ pc'[t] = "open"
        BY <2>1
      <3>1. AbsWrites = [u \in Tx |-> [m \in Key |-> LastWrite(log[t], 0, m)]]
        BY <3>0, AbsWritesDef, SMTT(20)
      <3>2. AbsWrites' = [u \in Tx |-> [m \in Key |-> LastWrite(log'[t], 0, m)]]
        BY <3>0, AbsWritesDef, SMTT(20)
      <3>3. [m \in Key |-> LastWrite(log'[t], 0, m)]
            = [[m \in Key |-> LastWrite(log[t], 0, m)] EXCEPT ![k] = v]
        BY <2>3
      <3> QED BY <3>1, <3>2, <3>3
    <2>5. AbsStore' = AbsStore
      BY <2>1, AbsStoreDef
    <2>6. t \in {u \in Tx : pc[u] = "open"}
      BY <2>1
    <2> QED BY <2>1, <2>4, <2>5, <2>6 DEF Abs!Write
  <1>3. ASSUME NEW k \in Key, Get(t, k) PROVE Abs!Read(t, k)
    <2>1. pc[t] = "open" /\ UNCHANGED <<store, log, pc, done>>
      BY <1>3 DEF Get
    <2>2. AbsStore = store /\ AbsStore' = AbsStore
      BY <2>1, AbsStoreDef
    <2>3. AbsWrites[t][k] = LastWrite(log[t], 0, k) /\ AbsWrites' = AbsWrites
      BY <2>1, AbsWritesDef
    <2>4. got' = [got EXCEPT ![t] = IF AbsWrites[t][k] = Untouched THEN AbsStore[k] ELSE AbsWrites[t][k]]
      BY <1>3, <2>2, <2>3 DEF Get, Overlay
    <2>5. t \in {u \in Tx : pc[u] = "open"}
      BY <2>1
    <2> QED BY <2>1, <2>2, <2>3, <2>4, <2>5 DEF Abs!Read
  <1>4. ASSUME BeginCommit(t) PROVE Abs!Commit(t)
    <2>1. pc[t] = "open" /\ pc'[t] = "commit" /\ done[t] = 0 /\ UNCHANGED <<store, log, done, got>>
      BY <1>4 DEF BeginCommit, Goto, TypeOK
    <2>2. AbsStore = store /\ AbsStore' = Overlay(store, log[t], 0)
      BY <2>1, AbsStoreDef
    <2>3. /\ \A k \in Key : AbsWrites[t][k] = LastWrite(log[t], 0, k)
          /\ AbsWrites' = [AbsWrites EXCEPT ![t] = Abs!NoWrites]
      BY <2>1, AbsWritesDef
    <2>4. AbsStore' = [k \in Key |-> IF AbsWrites[t][k] = Untouched THEN AbsStore[k] ELSE AbsWrites[t][k]]
      BY <2>2, <2>3 DEF Overlay
    <2>5. t \in {u \in Tx : pc[u] = "open"} /\ {u \in Tx : pc[u] = "open"}' = {u \in Tx : pc[u] = "open"} \ {t}
      BY <2>1
    <2> QED BY <2>1, <2>3, <2>4, <2>5 DEF Abs!Commit, Abs!End
  <1>5. ASSUME Apply(t) PROVE UNCHANGED Abs!vars
    <2>1. /\ pc[t] = "commit" /\ done[t] < Len(log[t]) /\ UNCHANGED <<log, pc, got>>
          /\ store' = [store EXCEPT ![log[t][done[t] + 1].key] = log[t][done[t] + 1].val]
          /\ done'[t] = done[t] + 1
      BY <1>5 DEF Apply, TypeOK
    <2>2. AbsStore' = AbsStore
      <3>1. Overlay(store', log[t], done[t] + 1) = Overlay(store, log[t], done[t])
        BY <1>0, <2>1, OverlayApplied, Zenon
      <3>2. AbsStore = Overlay(store, log[t], done[t])
        BY <2>1, AbsStoreDef
      <3>3. AbsStore' = Overlay(store', log[t], done[t] + 1)
        BY <2>1, AbsStoreDef
      <3> QED BY <3>1, <3>2, <3>3
    <2>3. AbsWrites' = AbsWrites
      BY <2>1, AbsWritesDef
    <2> QED BY <2>1, <2>2, <2>3
  <1>6. ASSUME EndCommit(t) PROVE UNCHANGED Abs!vars
    <2>1. pc[t] = "commit" /\ pc'[t] = "idle" /\ done[t] = Len(log[t]) /\ UNCHANGED <<store, got>>
      BY <1>6 DEF EndCommit, Drop, Goto, TypeOK
    <2>2. AbsStore' = AbsStore
      BY <1>0, <2>1, AbsStoreDef, OverlayDone
    <2>3. AbsWrites' = AbsWrites /\ {u \in Tx : pc[u] = "open"}' = {u \in Tx : pc[u] = "open"}
      BY <2>1, AbsWritesDef
    <2> QED BY <2>1, <2>2, <2>3
  <1>7. ASSUME Rollback(t) PROVE Abs!Rollback(t) \/ UNCHANGED Abs!vars
    <2>1. pc[t] \in {"open", "failed"} /\ pc'[t] = "idle" /\ UNCHANGED <<store, got>>
      BY <1>7 DEF Rollback, Drop, Goto, TypeOK
    <2>2. AbsStore' = AbsStore
      BY <2>1, AbsStoreDef
    <2>3. CASE pc[t] = "open"
      <3>1. AbsWrites' = [AbsWrites EXCEPT ![t] = Abs!NoWrites]
        BY <2>1, AbsWritesDef
      <3>2. t \in {u \in Tx : pc[u] = "open"} /\ {u \in Tx : pc[u] = "open"}' = {u \in Tx : pc[u] = "open"} \ {t}
        BY <2>1, <2>3
      <3> QED BY <2>1, <2>2, <3>1, <3>2 DEF Abs!Rollback, Abs!End
    <2>4. CASE pc[t] = "failed"
      <3>1. AbsWrites' = AbsWrites /\ {u \in Tx : pc[u] = "open"}' = {u \in Tx : pc[u] = "open"}
        BY <2>1, <2>4, AbsWritesDef
      <3> QED BY <2>1, <2>2, <3>1
    <2> QED BY <2>1, <2>3, <2>4
  <1>8. ASSUME UNCHANGED vars PROVE UNCHANGED Abs!vars
    <2>1. UNCHANGED <<store, log, pc, done, got>>
      BY <1>8 DEF vars
    <2> QED BY <2>1, AbsStoreDef, AbsWritesDef
  <1> QED
    BY <1>1, <1>2, <1>3, <1>4, <1>5, <1>6, <1>7, <1>8 DEF Next, FaultStep, Entry, Abs!Next

\* A storage without transactions under the shim is one with transactions, for a
\* single request at a time and as long as no Commit is cut short: what a handler
\* reads is what it wrote or what was stored, nothing of a transaction is stored
\* before its Commit, and all of it after (inmem_transaction.go:228-290).
THEOREM ShimRefinesTxStore ==
  ASSUME NEW CONSTANT t, Tx = {t}
  PROVE  Spec => Atomic
  <1>1. Init => Abs!Init
    BY InitRefines
  <1>2. TypeOK /\ [Next]_vars => FaultStep \/ [Abs!Next]_(Abs!vars)
    BY StepRefines
  <1> QED BY <1>1, <1>2, TypeCorrect, PTL DEF Spec, Atomic

\* Over a storage that does not fail it is one with transactions outright.
THEOREM ShimIsTxStore ==
  ASSUME NEW CONSTANT t, Tx = {t}, ~Faults
  PROVE  Spec => Abs!Spec
  <1>1. Init => Abs!Init
    BY InitRefines
  <1>2. TypeOK /\ [Next]_vars => [Abs!Next]_(Abs!vars)
    BY StepRefines DEF FaultStep, Crash, ApplyFails
  <1> QED BY <1>1, <1>2, TypeCorrect, PTL DEF Spec, Abs!Spec
=============================================================================
