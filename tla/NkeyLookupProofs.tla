-------------------------- MODULE NkeyLookupProofs ---------------------------
(***************************************************************************)
(* Proofs about NkeyLookup, for every set of operators and of account names *)
(* and every number of keys.                                                *)
(*                                                                          *)
(* The types are inductive given Asked: what a lookup reads from the cache  *)
(* and from the storage is under the key it was asked for and the name it   *)
(* found.  OperatorsSeparate is inductive once it speaks of every place a   *)
(* key passes through on its way to an answer (KeysOwned).  NoFalseAbsence  *)
(* needs OnTheWay: a key that stays in storage is, at every step of the     *)
(* refresh, still to be visited, about to be written, or in the cache.      *)
(***************************************************************************)
EXTENDS NkeyLookup, TLAPS

-----------------------------------------------------------------------------
(* The inductive invariant.                                                 *)

\* A lookup in progress was asked for a key, and one that goes on to read the
\* JWT has found a name.
Asked ==
  \A p \in Operator : /\ pc[p] # "idle" => req[p] \in Key
                      /\ pc[p] = "read" => found[p] \in Account

\* Key k was minted, for an account of operator p.
MintedFor(p, k) == k <= minted /\ owner[k] = p

\* Wherever a key is kept for an operator (in its storage, in its part of the
\* cache, in the refresh that runs for it, in its answer), it was minted for it.
KeysOwned ==
  \A p \in Operator :
    /\ \A a \in Account : key[p][a] # 0 => MintedFor(p, key[p][a])
    /\ \A k \in Key : cache[p][k] # None => MintedFor(p, k)
    /\ entry[p] # 0 => MintedFor(p, entry[p])
    /\ answer[p] \in Key => MintedFor(p, answer[p])

\* The requested key, stored for account a, will be found by the lookup of p.
WillFind(p, a) ==
  /\ key[p][a] = req[p] /\ req[p] # 0
  /\ pc[p] = "list" => a \in todo[p] \/ cache[p][req[p]] # None
  /\ pc[p] \in {"lock", "wait"} =>
       a \in todo[p] \/ cache[p][req[p]] # None \/ entry[p] = req[p]
  /\ pc[p] = "second" => cache[p][req[p]] # None
  /\ pc[p] = "empty" => failed[p]

\* A key that was in storage ever since the request is on its way to the cache,
\* unless a read has failed.
OnTheWay == \A p \in Operator : steady[p] => \E a \in Account : WillFind(p, a)

Inv == TypeOK /\ Asked /\ KeysOwned /\ OnTheWay /\ NoFalseAbsence

-----------------------------------------------------------------------------
(* Types.                                                                   *)

\* No lookup is in progress at first.
LEMMA InitType == Init => TypeOK /\ Asked
  <1> SUFFICES ASSUME Init PROVE TypeOK /\ Asked
    OBVIOUS
  <1>1. MaxKeys \in Nat /\ 0 \in 0 .. MaxKeys /\ NoAnswer \in 0 .. NoAnswer
    BY LookupAssumption DEF NoAnswer
  <1>2. \A p \in Operator : pc[p] = "idle"
    BY DEF Init
  <1>3. /\ pc \in [Operator -> {"idle", "first", "list", "lock", "wait", "second", "read", "empty"}]
        /\ waiting = {p \in Operator : pc[p] = "wait"}
    BY <1>2 DEF Init
  <1>4. /\ steady \in [Operator -> BOOLEAN] /\ failed \in [Operator -> BOOLEAN]
        /\ held \in BOOLEAN /\ up \in BOOLEAN
    BY DEF Init
  <1>5. /\ cache \in [Operator -> [Key -> Account \cup {None}]]
        /\ key \in [Operator -> [Account -> 0 .. MaxKeys]]
    BY <1>1 DEF Init
  <1>6. /\ owner \in [Key -> Operator \cup {None}] /\ minted \in 0 .. MaxKeys
        /\ req \in [Operator -> 0 .. MaxKeys] /\ todo \in [Operator -> SUBSET Account]
        /\ found \in [Operator -> Account \cup {None}] /\ entry \in [Operator -> 0 .. MaxKeys]
        /\ answer \in [Operator -> 0 .. NoAnswer]
    BY <1>1, LookupAssumption DEF Init, NoAnswer
  <1> QED BY <1>2, <1>3, <1>4, <1>5, <1>6 DEF TypeOK, Asked

\* Every step of a lookup and every change of the storage keeps the types.
LEMMA StepType == TypeOK /\ Asked /\ [Next]_vars => TypeOK' /\ Asked'
  <1> SUFFICES ASSUME TypeOK, Asked, [Next]_vars PROVE TypeOK' /\ Asked'
    OBVIOUS
  <1> USE LookupAssumption DEF Key, NoAnswer
  <1>1. ASSUME NEW p \in Operator, NEW a \in Account, MintKey(p, a) PROVE TypeOK' /\ Asked'
    BY <1>1 DEF MintKey, Unsteady, local, TypeOK, Asked
  <1>2. ASSUME NEW p \in Operator, NEW a \in Account, DeleteAccount(p, a) PROVE TypeOK' /\ Asked'
    BY <1>2 DEF DeleteAccount, Unsteady, local, TypeOK, Asked
  <1>3. ASSUME NEW p \in Operator, NEW k \in Key, Request(p, k) PROVE TypeOK' /\ Asked'
    BY <1>3 DEF Request, Goto, storage, TypeOK, Asked
  <1>4. ASSUME NEW p \in Operator, Step(p) PROVE TypeOK' /\ Asked'
    <2>1. ASSUME NEW section \in {"first", "second"}, Hit(p, section) PROVE TypeOK' /\ Asked'
      <3>1. cache[p][req[p]] \in Account /\ req[p] \in Key
        BY <2>1 DEF Hit, TypeOK, Asked
      <3>2. /\ found' = [found EXCEPT ![p] = cache[p][req[p]]]
            /\ pc' = [pc EXCEPT ![p] = "read"] /\ pc[p] = section
            /\ held' = TRUE
            /\ UNCHANGED <<key, owner, minted, cache, waiting, req, todo, entry, steady, failed, answer, up>>
        BY <2>1 DEF Hit, Goto, storage
      <3>3. pc' \in [Operator -> {"idle", "first", "list", "lock", "wait", "second", "read", "empty"}]
        BY <3>2 DEF TypeOK
      <3>4. waiting' = {q \in Operator : pc'[q] = "wait"}
        BY <3>2 DEF TypeOK
      <3>5. /\ found' \in [Operator -> Account \cup {None}]
            /\ \A q \in Operator : pc'[q] \in {"lock", "wait"} => found'[q] # None /\ entry'[q] # 0
        BY <3>1, <3>2 DEF TypeOK
      <3>6. Asked'
        BY <3>1, <3>2 DEF TypeOK, Asked
      <3> QED BY <3>2, <3>3, <3>4, <3>5, <3>6 DEF TypeOK
    <2>2. CASE FirstMiss(p)
      BY <2>2 DEF FirstMiss, Goto, storage, TypeOK, Asked
    <2>3. CASE VisitAccount(p)
      <3> PICK a \in todo[p] :
               /\ todo' = [todo EXCEPT ![p] = @ \ {a}]
               /\ IF key[p][a] # 0
                  THEN /\ found' = [found EXCEPT ![p] = a]
                       /\ entry' = [entry EXCEPT ![p] = key[p][a]]
                       /\ Goto(p, "lock")
                  ELSE UNCHANGED <<found, entry, pc>>
        BY <2>3 DEF VisitAccount
      <3>1. a \in Account
        BY DEF TypeOK
      <3> USE <2>3, <3>1 DEF VisitAccount, Goto, storage
      <3>2. CASE key[p][a] # 0
        <4>1. key[p][a] \in Key
          BY <3>1, <3>2 DEF TypeOK
        <4>2. /\ found' = [found EXCEPT ![p] = a]
              /\ entry' = [entry EXCEPT ![p] = key[p][a]]
              /\ pc' = [pc EXCEPT ![p] = "lock"]
          BY <3>2
        <4>3. waiting' = {q \in Operator : pc'[q] = "wait"}
          BY <4>2 DEF TypeOK
        <4>4. \A q \in Operator : pc'[q] \in {"lock", "wait"} => found'[q] # None /\ entry'[q] # 0
          BY <3>1, <3>2, <4>2 DEF TypeOK
        <4>5. Asked'
          BY <3>1, <4>2 DEF TypeOK, Asked
        <4> QED BY <3>1, <4>1, <4>2, <4>3, <4>4, <4>5 DEF TypeOK
      <3>3. CASE key[p][a] = 0
        BY <3>3 DEF TypeOK, Asked
      <3> QED BY <3>2, <3>3
    <2>4. CASE AwaitLock(p)
      BY <2>4 DEF AwaitLock, Goto, storage, local, TypeOK, Asked
    <2>5. CASE WriteCache(p)
      BY <2>5 DEF WriteCache, Goto, storage, local, TypeOK, Asked
    <2>6. CASE RefreshDone(p)
      BY <2>6 DEF RefreshDone, Goto, storage, local, TypeOK, Asked
    <2>7. CASE RespondEmpty(p)
      BY <2>7 DEF RespondEmpty, Absent, Respond, Goto, storage, TypeOK, Asked
    <2>8. CASE ReadJwt(p)
      BY <2>8 DEF ReadJwt, Respond, Goto, storage, TypeOK, Asked
    <2>9. CASE Panic(p)
      BY <2>9 DEF Panic, storage, local, TypeOK, Asked
    <2>10. ASSUME NEW section \in {"list", "read"}, StorageFails(p, section) PROVE TypeOK' /\ Asked'
      BY <2>10 DEF StorageFails, Goto, storage, local, TypeOK, Asked
    <2> QED BY <1>4, <2>1, <2>2, <2>3, <2>4, <2>5, <2>6, <2>7, <2>8, <2>9, <2>10 DEF Step
  <1>5. CASE Restart
    <2>1. MaxKeys \in Nat /\ 0 \in 0 .. MaxKeys /\ NoAnswer \in 0 .. NoAnswer
      OBVIOUS
    <2>2. \A p \in Operator : pc'[p] = "idle"
      BY <1>5 DEF Restart
    <2>3. key' = key /\ owner' = owner /\ minted' = minted
      BY <1>5 DEF Restart, storage
    <2> QED BY <1>5, <2>1, <2>2, <2>3 DEF Restart, TypeOK, Asked
  <1>6. CASE UNCHANGED vars
    BY <1>6 DEF vars, TypeOK, Asked
  <1> QED BY <1>1, <1>2, <1>3, <1>4, <1>5, <1>6 DEF Next

\* Every variable keeps its type, and a refresh that is about to take the lock
\* holds the account and the key it is going to write.
THEOREM TypeCorrect == Spec => []TypeOK
  <1>1. Init => TypeOK /\ Asked
    BY InitType
  <1>2. (TypeOK /\ Asked) /\ [Next]_vars => (TypeOK /\ Asked)'
    BY StepType
  <1> QED BY <1>1, <1>2, PTL DEF Spec

-----------------------------------------------------------------------------
(* Keys belong to one operator.                                             *)

\* No keys are minted at first.
LEMMA InitOwned == Init => KeysOwned
  <1> SUFFICES ASSUME Init PROVE KeysOwned
    OBVIOUS
  <1>1. NoAnswer \notin Key
    BY LookupAssumption DEF Key, NoAnswer
  <1> QED BY <1>1 DEF Init, KeysOwned

\* A step that mints no key leaves what was minted for whom.
LEMMA OwnerKept ==
  ASSUME UNCHANGED <<owner, minted>>, NEW p \in Operator, NEW k, MintedFor(p, k)
  PROVE  MintedFor(p, k)'
  BY DEF MintedFor

\* Keys are copied from an operator's accounts to its part of the cache and to its
\* answers only (refreshNkeyCache, writeAccountToCache).
LEMMA StepOwned == TypeOK /\ Asked /\ KeysOwned /\ [Next]_vars => KeysOwned'
  <1> SUFFICES ASSUME TypeOK, Asked, KeysOwned, [Next]_vars PROVE KeysOwned'
    OBVIOUS
  <1> USE LookupAssumption DEF Key, NoAnswer, TypeOK, KeysOwned, MintedFor
  <1>1. ASSUME NEW p \in Operator, NEW a \in Account, MintKey(p, a) PROVE KeysOwned'
    BY <1>1 DEF MintKey, local
  <1>2. ASSUME NEW p \in Operator, NEW a \in Account, DeleteAccount(p, a) PROVE KeysOwned'
    BY <1>2 DEF DeleteAccount, local
  <1>3. ASSUME NEW p \in Operator, NEW k \in Key, Request(p, k) PROVE KeysOwned'
    BY <1>3 DEF Request, storage
  <1>4. ASSUME NEW p \in Operator, Step(p) PROVE KeysOwned'
    <2>1. CASE Hit(p, "first") \/ FirstMiss(p) \/ AwaitLock(p) \/ RefreshDone(p)
               \/ Hit(p, "second") \/ Panic(p) \/ StorageFails(p, "list") \/ StorageFails(p, "read")
      <3> UNCHANGED <<key, owner, minted, cache, entry, answer>>
        BY <2>1 DEF Hit, FirstMiss, AwaitLock, RefreshDone, Panic, StorageFails, storage, local
      <3> QED OBVIOUS
    <2>2. CASE VisitAccount(p)
      BY <2>2 DEF VisitAccount, storage
    <2>3. CASE WriteCache(p)
      BY <2>3 DEF WriteCache, storage, local
    <2>4. CASE RespondEmpty(p)
      BY <2>4 DEF RespondEmpty, Respond, storage
    <2>5. CASE ReadJwt(p)
      BY <2>5 DEF ReadJwt, Respond, storage, Asked
    <2> QED BY <1>4, <2>1, <2>2, <2>3, <2>4, <2>5 DEF Step
  <1>5. CASE Restart
    BY <1>5 DEF Restart, storage
  <1>6. CASE UNCHANGED vars
    BY <1>6 DEF vars
  <1> QED BY <1>1, <1>2, <1>3, <1>4, <1>5, <1>6 DEF Next

\* The lock and the refresh are shared by all operators, the accounts are not:
\* no key of one operator is found or answered for another.
THEOREM SeparateCorrect == Spec => []OperatorsSeparate
  <1>1. Init => TypeOK /\ Asked /\ KeysOwned
    BY InitType, InitOwned
  <1>2. (TypeOK /\ Asked /\ KeysOwned) /\ [Next]_vars => (TypeOK /\ Asked /\ KeysOwned)'
    BY StepType, StepOwned
  <1>3. KeysOwned => OperatorsSeparate
    BY DEF KeysOwned, MintedFor, OperatorsSeparate
  <1> QED BY <1>1, <1>2, <1>3, PTL DEF Spec

-----------------------------------------------------------------------------
(* A key that stays in storage is found.                                    *)

\* No answer is given at first.
LEMMA InitOnTheWay == Init => OnTheWay /\ NoFalseAbsence
  BY LookupAssumption DEF Init, OnTheWay, NoFalseAbsence, NoAnswer

\* What the proof below shows for one operator at a time.
Served(q) ==
  /\ steady[q] => \E a \in Account : WillFind(q, a)
  /\ pc[q] = "idle" /\ answer[q] = 0 => ~steady[q] \/ failed[q]

\* A step after which the lookup of q still finds what it would have found.
LEMMA StillServed ==
  ASSUME NEW q \in Operator, Served(q),
         steady'[q] => steady[q],
         \A a \in Account : steady'[q] /\ WillFind(q, a) => WillFind(q, a)',
         pc'[q] = "idle" /\ answer'[q] = 0 => ~steady'[q] \/ failed'[q]
  PROVE  Served(q)'
  BY DEF Served

\* A refresh leaves an account only after its key was read, and a lookup answers
\* absent only after the refresh or an error.
LEMMA StepOnTheWay ==
  TypeOK /\ Asked /\ KeysOwned /\ OnTheWay /\ NoFalseAbsence /\ [Next]_vars
    => OnTheWay' /\ NoFalseAbsence'
  <1> SUFFICES ASSUME TypeOK, Asked, KeysOwned, \A p \in Operator : Served(p), [Next]_vars,
                      NEW q \in Operator
               PROVE  Served(q)'
    BY DEF OnTheWay, NoFalseAbsence, Served
  <1> USE LookupAssumption DEF Key, TypeOK, WillFind
  <1>0. Served(q) /\ (pc[q] = "idle" /\ answer[q] = 0 => ~steady[q] \/ failed[q])
    BY DEF Served
  <1>1. ASSUME NEW p \in Operator, NEW a \in Account, MintKey(p, a) PROVE Served(q)'
    <2>1. \A b \in Account : key'[q][b] = key[q][b] \/ (q = p /\ b = a)
      BY <1>1 DEF MintKey
    <2> QED BY <1>0, <1>1, <2>1, StillServed DEF MintKey, Unsteady, local
  <1>2. ASSUME NEW p \in Operator, NEW a \in Account, DeleteAccount(p, a) PROVE Served(q)'
    <2>1. \A b \in Account : key'[q][b] = key[q][b] \/ (q = p /\ b = a)
      BY <1>2 DEF DeleteAccount
    <2> QED BY <1>0, <1>2, <2>1, StillServed DEF DeleteAccount, Unsteady, local
  <1>3. ASSUME NEW p \in Operator, NEW k \in Key, Request(p, k) PROVE Served(q)'
    <2>1. CASE q = p
      <3>1. steady'[q] => \E a \in Account : key'[q][a] = k /\ k # 0
        BY <1>3, <2>1 DEF Request, Stored, storage
      <3>2. req'[q] = k /\ pc'[q] = "first"
        BY <1>3, <2>1 DEF Request, Goto
      <3> QED BY <3>1, <3>2 DEF Served
    <2>2. CASE q # p
      BY <1>0, <1>3, <2>2 DEF Request, Goto, storage, Served
    <2> QED BY <2>1, <2>2
  <1>4. ASSUME NEW p \in Operator, Step(p) PROVE Served(q)'
    <2>0. \A a \in Account : steady[q] /\ WillFind(q, a) => key[q][a] \in Key
      OBVIOUS
    <2>1. ASSUME NEW section \in {"first", "second"}, Hit(p, section) PROVE Served(q)'
      BY <1>0, <2>1, StillServed DEF Hit, Goto, storage
    <2>2. CASE FirstMiss(p)
      <3> PICK T \in SUBSET Account : /\ {a \in Account : key[p][a] # 0} \subseteq T
                                      /\ todo' = [todo EXCEPT ![p] = T]
        BY <2>2 DEF FirstMiss
      <3> QED BY <1>0, <2>2, StillServed DEF FirstMiss, Goto, storage
    <2>3. CASE VisitAccount(p)
      <3> PICK a \in todo[p] :
               /\ todo' = [todo EXCEPT ![p] = @ \ {a}]
               /\ IF key[p][a] # 0
                  THEN /\ found' = [found EXCEPT ![p] = a]
                       /\ entry' = [entry EXCEPT ![p] = key[p][a]]
                       /\ Goto(p, "lock")
                  ELSE UNCHANGED <<found, entry, pc>>
        BY <2>3 DEF VisitAccount
      <3>1. UNCHANGED <<storage, cache, req, steady, failed, answer>> /\ pc[p] = "list"
        BY <2>3 DEF VisitAccount
      <3>2. CASE key[p][a] # 0
        <4>1. CASE q = p
          <5>1. pc'[q] = "lock" /\ entry'[q] = key[q][a] /\ todo'[q] = todo[q] \ {a}
            BY <3>2, <4>1 DEF Goto
          <5>2. steady'[q] = steady[q] /\ \A b \in Account : WillFind(q, b) => WillFind(q, b)'
            BY <3>1, <4>1, <5>1 DEF storage
          <5> QED BY <1>0, <5>1, <5>2, StillServed
        <4>2. CASE q # p
          <5>1. pc'[q] = pc[q] /\ entry'[q] = entry[q] /\ todo'[q] = todo[q]
            BY <3>2, <4>2 DEF Goto
          <5> QED BY <1>0, <3>1, <5>1, StillServed DEF storage
        <4> QED BY <4>1, <4>2
      <3>3. CASE key[p][a] = 0
        BY <1>0, <3>1, <3>3, StillServed DEF storage
      <3> QED BY <3>2, <3>3
    <2>4. CASE AwaitLock(p)
      BY <1>0, <2>4, StillServed DEF AwaitLock, Goto, storage, local
    <2>5. CASE WriteCache(p)
      BY <1>0, <2>0, <2>5, StillServed DEF WriteCache, Goto, storage, local
    <2>6. CASE RefreshDone(p)
      BY <1>0, <2>6, StillServed DEF RefreshDone, Goto, storage, local
    <2>7. CASE RespondEmpty(p)
      <3>1. UNCHANGED <<key, cache, req, steady, failed>> /\ Absent(p)
        BY <2>7 DEF RespondEmpty, Respond, storage
      <3>2. CASE q = p
        <4>1. steady[q] => failed[q]
          <5> SUFFICES ASSUME steady[q] PROVE failed[q]
            OBVIOUS
          <5>1. PICK a \in Account : WillFind(q, a)
            BY <1>0 DEF Served
          <5>2. pc[q] = "empty"
            BY <3>1, <3>2, <5>1 DEF Absent
          <5> QED BY <5>1, <5>2
        <4>2. pc'[q] = "idle"
          BY <2>7, <3>2 DEF RespondEmpty, Respond, Goto
        <4>3. \A a \in Account : WillFind(q, a) => WillFind(q, a)'
          BY <3>1, <4>2
        <4> QED BY <1>0, <3>1, <4>1, <4>3, StillServed
      <3>3. CASE q # p
        <4>1. pc'[q] = pc[q] /\ answer'[q] = answer[q] /\ todo'[q] = todo[q] /\ entry'[q] = entry[q]
          BY <2>7, <3>3 DEF RespondEmpty, Respond, Goto
        <4>2. \A a \in Account : WillFind(q, a) => WillFind(q, a)'
          BY <3>1, <4>1
        <4> QED BY <1>0, <3>1, <4>1, <4>2, StillServed
      <3> QED BY <3>2, <3>3
    <2>8. CASE ReadJwt(p)
      BY <1>0, <2>8, StillServed DEF ReadJwt, Respond, Goto, storage
    <2>9. CASE Panic(p)
      BY <1>0, <2>9, StillServed DEF Panic, storage, local
    <2>10. ASSUME NEW section \in {"list", "read"}, StorageFails(p, section) PROVE Served(q)'
      BY <1>0, <2>10, StillServed DEF StorageFails, Goto, storage, local
    <2> QED BY <1>4, <2>1, <2>2, <2>3, <2>4, <2>5, <2>6, <2>7, <2>8, <2>9, <2>10 DEF Step
  <1>5. CASE Restart
    BY <1>5 DEF Restart, Served
  <1>6. CASE UNCHANGED vars
    BY <1>0, <1>6, StillServed DEF vars
  <1> QED BY <1>1, <1>2, <1>3, <1>4, <1>5, <1>6 DEF Next

\* NATS gets the empty response for an account only if its key was missing from
\* the storage at some moment of the lookup, whatever other lookups, rotations
\* and deletions run beside it, or if a read of the storage failed.
THEOREM AbsenceCorrect == Spec => []NoFalseAbsence
  <1>1. Init => Inv
    BY InitType, InitOwned, InitOnTheWay DEF Inv
  <1>2. Inv /\ [Next]_vars => Inv'
    BY StepType, StepOwned, StepOnTheWay DEF Inv
  <1>3. Inv => NoFalseAbsence
    BY DEF Inv
  <1> QED BY <1>1, <1>2, <1>3, PTL DEF Spec
=============================================================================
