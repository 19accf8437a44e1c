------------------------- MODULE AccountSyncProofs ---------------------------
(***************************************************************************)
(* Proofs about AccountSync.  The types hold for every set of handlers; that *)
(* the status, the entry and NATS agree is proved for requests served one   *)
(* at a time (Handler = {h}), for every set of faults: the runs with two    *)
(* handlers show what two may do to each other.                             *)
(*                                                                          *)
(* Whole says how the stored account and what the handler has read of it    *)
(* belong together; the three properties speak of the moments between       *)
(* requests, and OutcomeIn, PushedIn and ForgottenIn carry them through the  *)
(* steps of a request.                                                      *)
(***************************************************************************)
EXTENDS AccountSync, TLAPS

\* A rotation remembers the key it replaced: what the types need.
RotatesKey == \A h \in Handler : op[h] = "rotate" => old[h] # 0

-----------------------------------------------------------------------------
(* The inductive invariant for one handler h.                               *)

\* The entry, the key and the JWT are stored and deleted together, and the JWT
\* is for the stored key. What the handler has read is what is stored.
Whole(h) ==
  /\ acct = None <=> key = 0
  /\ acct = None <=> jwt = None
  /\ jwt # None => jwt.key = key
  /\ key <= minted
  /\ pc[h] = "idle" => op[h] = "update"
  /\ pc[h] = "push" => tok[h] = jwt /\ op[h] # "delete"
  /\ pc[h] = "drop" => op[h] # "update"
  /\ pc[h] = "status" => op[h] # "delete"
  /\ pc[h] = "store" => op[h] # "delete" /\ entry[h] = acct /\ acct # None
  /\ pc[h] = "commit" => op[h] = "delete"
  /\ op[h] = "rotate" => old[h] # key /\ acct # None
  /\ op[h] = "delete" => old[h] = key /\ acct # None

\* Whether the status says how an attempt ended that the plugin saw the end of.
StatusTrue ==
  acct # None /\ acct.synced # "never" /\ attempt # "unseen" =>
    (acct.synced = "yes" <=> attempt = "taken")

\* The status is true until the push, and after it the handler's syncErr is.
OutcomeIn(h) ==
  /\ pc[h] \in {"idle", "start", "read", "push", "drop"} => ~err[h]
  /\ pc[h] \in {"idle", "start", "read", "push"} \/ op[h] = "delete" => StatusTrue
  /\ pc[h] = "drop" /\ op[h] = "rotate" => attempt \in {"taken", "unseen"}
  /\ pc[h] \in {"status", "store"} /\ acct # None =>
       IF err[h] THEN attempt = "failed" ELSE attempt \in {"taken", "unseen"}

\* NATS has the stored JWT, but for the time from a transaction to its push, and
\* until a deletion has been asked for.
PushedIn(h) ==
  (\/ pc[h] \in {"idle", "status", "store"}
   \/ pc[h] = "drop" /\ op[h] = "rotate"
   \/ pc[h] \in {"start", "read", "drop"} /\ op[h] = "delete") =>
    (acct # None /\ ~missed => nats[key] = jwt.ver)

\* NATS has nothing for a key but the stored one, the one a rotation is about to
\* take from it, and those it was not told to forget. A deletion comes to its
\* commit only when the stored key is one of these too.
ForgottenIn(h) ==
  /\ \A k \in Key : nats[k] # 0 => \/ k = key
                                   \/ k \in left
                                   \/ /\ op[h] = "rotate" /\ k = old[h]
                                      /\ pc[h] \in {"start", "read", "push", "drop"}
  /\ pc[h] = "commit" => key \in left \/ nats[key] = 0

Inv(h) == Whole(h) /\ LastWriteKept /\ OutcomeIn(h) /\ PushedIn(h) /\ ForgottenIn(h)

-----------------------------------------------------------------------------
(* Types.                                                                   *)

\* Nothing is stored or pushed at first.
LEMMA InitType == Init => TypeOK /\ RotatesKey
  <1> SUFFICES ASSUME Init PROVE TypeOK /\ RotatesKey
    OBVIOUS
  <1>1. 0 \in 0 .. MaxKeys /\ 0 \in 0 .. MaxVer
    BY SyncAssumption
  <1>2. \A h \in Handler : pc[h] = "idle" /\ op[h] = "update"
    BY DEF Init
  <1>3. missed \in BOOLEAN /\ panicked \in BOOLEAN /\ err \in [Handler -> BOOLEAN]
    BY DEF Init
  <1> QED BY <1>1, <1>2, <1>3 DEF Init, TypeOK, RotatesKey

\* A handler that returns has nothing left of its request.
LEMMA ReturnType ==
  ASSUME TypeOK, RotatesKey, NEW g \in Handler, Return(g)
  PROVE  /\ pc' \in [Handler -> {"idle", "start", "read", "push", "drop", "status", "store", "commit"}]
         /\ op' \in [Handler -> {"update", "rotate", "delete"}]
         /\ tok' \in [Handler -> Token \cup {None}]
         /\ old' \in [Handler -> 0 .. MaxKeys]
         /\ err' \in [Handler -> BOOLEAN]
         /\ entry' \in [Handler -> AccountEntry \cup {None}]
         /\ \A h \in Handler : /\ pc'[h] = "push" => tok'[h] # None
                               /\ pc'[h] = "drop" => old'[h] # 0
                               /\ pc'[h] = "store" => entry'[h] # None
         /\ RotatesKey'
  <1>1. 0 \in 0 .. MaxKeys
    BY SyncAssumption
  <1> QED BY <1>1 DEF Return, Goto, TypeOK, RotatesKey

\* The sync fails with an error.
LEMMA FailType ==
  ASSUME TypeOK, RotatesKey, NEW g \in Handler,
         NEW how \in {"none", "taken", "failed", "unseen"}, Fail(g, how)
  PROVE  TypeOK' /\ RotatesKey'
  <1>1. missed' \in BOOLEAN /\ left' \subseteq 0 .. MaxKeys
    BY DEF Fail, Skipped, TypeOK
  <1>2. UNCHANGED <<acct, key, jwt, minted, ver, nats, op, tok, old, entry, written, panicked>>
    BY DEF Fail, stored
  <1>3. attempt' \in {"none", "taken", "failed", "unseen"}
    BY DEF Fail, Attempted, TypeOK
  <1>4. err' = [err EXCEPT ![g] = TRUE] /\ pc' = [pc EXCEPT ![g] = AfterSync(g)]
    BY DEF Fail, Goto
  <1> QED BY <1>1, <1>2, <1>3, <1>4 DEF AfterSync, TypeOK, RotatesKey

\* There is no server to tell.
LEMMA NoServerType ==
  ASSUME TypeOK, RotatesKey, NEW g \in Handler, NoServer(g),
         attempt' \in {"none", "taken", "failed", "unseen"}
  PROVE  TypeOK' /\ RotatesKey'
  <1>1. missed' \in BOOLEAN /\ left' \subseteq 0 .. MaxKeys
    BY DEF NoServer, Skipped, TypeOK
  <1>2. UNCHANGED <<acct, key, jwt, minted, ver, nats, written, panicked>>
    BY DEF NoServer, stored
  <1>3. CASE op[g] = "delete"
    BY <1>1, <1>2, <1>3 DEF NoServer, Goto, TypeOK, RotatesKey
  <1>4. CASE op[g] # "delete"
    <2>1. Return(g)
      BY <1>4 DEF NoServer
    <2> QED BY <1>1, <1>2, <2>1, ReturnType DEF TypeOK
  <1> QED BY <1>3, <1>4

\* When the process dies no handler is left with anything.
LEMMA DieType ==
  ASSUME TypeOK, Die
  PROVE  /\ pc' \in [Handler -> {"idle", "start", "read", "push", "drop", "status", "store", "commit"}]
         /\ op' \in [Handler -> {"update", "rotate", "delete"}]
         /\ tok' \in [Handler -> Token \cup {None}]
         /\ old' \in [Handler -> 0 .. MaxKeys]
         /\ err' \in [Handler -> BOOLEAN]
         /\ entry' \in [Handler -> AccountEntry \cup {None}]
         /\ \A h \in Handler : /\ pc'[h] = "push" => tok'[h] # None
                               /\ pc'[h] = "drop" => old'[h] # 0
                               /\ pc'[h] = "store" => entry'[h] # None
         /\ RotatesKey'
         /\ missed' \in BOOLEAN /\ left' \subseteq 0 .. MaxKeys
  <1>1. 0 \in 0 .. MaxKeys
    BY SyncAssumption
  <1>2. \A h \in Handler : pc'[h] = "idle" /\ op'[h] = "update"
    BY DEF Die
  <1>3. /\ pc' \in [Handler -> {"idle", "start", "read", "push", "drop", "status", "store", "commit"}]
        /\ op' \in [Handler -> {"update", "rotate", "delete"}]
        /\ tok' \in [Handler -> Token \cup {None}]
        /\ old' \in [Handler -> 0 .. MaxKeys]
        /\ err' \in [Handler -> BOOLEAN]
        /\ entry' \in [Handler -> AccountEntry \cup {None}]
    BY <1>1 DEF Die
  <1>4. missed' \in BOOLEAN
    BY DEF Die, TypeOK
  <1>5. left' \subseteq 0 .. MaxKeys
    <2>1. left' = left \cup {old[h] : h \in {h \in Handler : op[h] # "delete"}}
      BY DEF Die
    <2>2. \A h \in Handler : old[h] \in 0 .. MaxKeys
      BY DEF TypeOK
    <2>3. left \subseteq 0 .. MaxKeys
      BY DEF TypeOK
    <2> QED BY <2>1, <2>2, <2>3
  <1> QED BY <1>2, <1>3, <1>4, <1>5 DEF RotatesKey

\* Every step of a handler, in whatever order, keeps the types.
LEMMA StepType == TypeOK /\ RotatesKey /\ [Next]_vars => TypeOK' /\ RotatesKey'
  <1> SUFFICES ASSUME TypeOK, RotatesKey, [Next]_vars PROVE TypeOK' /\ RotatesKey'
    OBVIOUS
  <1> USE SyncAssumption DEF Key, Token, AccountEntry
  <1>1. ASSUME NEW g \in Handler, AccountWrite(g) PROVE TypeOK' /\ RotatesKey'
    <2>1. /\ key' \in 1 .. MaxKeys /\ minted' \in 0 .. MaxKeys /\ ver + 1 \in 1 .. MaxVer
          /\ key' \in 0 .. MaxKeys /\ 0 \in 0 .. MaxKeys
      BY <1>1, NoneAssumption DEF AccountWrite, MintKey, Issue, TypeOK
    <2>2. /\ acct' \in AccountEntry \cup {None} /\ jwt' \in Token \cup {None}
          /\ ver' \in 0 .. MaxVer /\ written' \in 0 .. MaxVer
      BY <1>1, <2>1 DEF AccountWrite, Issue, TypeOK
    <2>3. UNCHANGED <<nats, tok, err, entry, attempt, missed, left, panicked>>
      BY <1>1 DEF AccountWrite, Tell
    <2>4. /\ pc' = [pc EXCEPT ![g] = "start"] /\ op' = [op EXCEPT ![g] = "update"]
          /\ old' = [old EXCEPT ![g] = 0]
      BY <1>1 DEF AccountWrite, Tell, Goto
    <2>5. /\ pc' \in [Handler -> {"idle", "start", "read", "push", "drop", "status", "store", "commit"}]
          /\ op' \in [Handler -> {"update", "rotate", "delete"}] /\ old' \in [Handler -> 0 .. MaxKeys]
      BY <2>1, <2>4 DEF TypeOK
    <2>6. \A h \in Handler : /\ pc'[h] = "push" => tok'[h] # None
                             /\ pc'[h] = "drop" => old'[h] # 0
                             /\ pc'[h] = "store" => entry'[h] # None
                             /\ op'[h] = "rotate" => old'[h] # 0
      BY <2>3, <2>4 DEF TypeOK, RotatesKey
    <2> QED BY <2>1, <2>2, <2>3, <2>5, <2>6 DEF TypeOK, RotatesKey
  <1>2. ASSUME NEW g \in Handler, Reissue(g) PROVE TypeOK' /\ RotatesKey'
    BY <1>2 DEF Reissue, Issue, Tell, Goto, stored, history, TypeOK, RotatesKey
  <1>3. ASSUME NEW g \in Handler, SyncOnly(g) PROVE TypeOK' /\ RotatesKey'
    BY <1>3 DEF SyncOnly, Tell, Goto, stored, history, TypeOK, RotatesKey
  <1>4. ASSUME NEW g \in Handler, AccountRotate(g) PROVE TypeOK' /\ RotatesKey'
    BY <1>4 DEF AccountRotate, MintKey, Issue, Tell, Goto, stored, history, TypeOK, RotatesKey
  <1>5. ASSUME NEW g \in Handler, AccountDelete(g) PROVE TypeOK' /\ RotatesKey'
    BY <1>5 DEF AccountDelete, Tell, Goto, stored, history, TypeOK, RotatesKey
  <1>6. ASSUME NEW g \in Handler, Started(g) PROVE TypeOK' /\ RotatesKey'
    BY <1>6 DEF Started, Goto, stored, history, TypeOK, RotatesKey
  <1>7. ASSUME NEW g \in Handler, NotStarted(g) PROVE TypeOK' /\ RotatesKey'
    BY <1>7, NoServerType DEF NotStarted, TypeOK
  <1>8. ASSUME NEW g \in Handler, NoConnection(g) PROVE TypeOK' /\ RotatesKey'
    BY <1>8, NoServerType DEF NoConnection, Attempted, TypeOK
  <1>9. ASSUME NEW g \in Handler, StartFails(g) PROVE TypeOK' /\ RotatesKey'
    BY <1>9, FailType DEF StartFails
  <1>10. ASSUME NEW g \in Handler, ReadJwt(g) PROVE TypeOK' /\ RotatesKey'
    <2>1. CASE jwt # None
      <3>1. /\ UNCHANGED <<acct, key, jwt, minted, ver, nats, op, old, err, entry>>
            /\ UNCHANGED <<written, attempt, missed, left, panicked>>
        BY <1>10, <2>1 DEF ReadJwt, stored, history
      <3>2. tok' = [tok EXCEPT ![g] = jwt] /\ pc' = [pc EXCEPT ![g] = "push"]
        BY <1>10, <2>1 DEF ReadJwt, Goto
      <3> QED BY <2>1, <3>1, <3>2 DEF TypeOK, RotatesKey
    <2>2. CASE jwt = None
      BY <1>10, <2>2, FailType DEF ReadJwt, TypeOK
    <2> QED BY <2>1, <2>2
  <1>11. ASSUME NEW g \in Handler, ReadKey(g) PROVE TypeOK' /\ RotatesKey'
    <2>1. UNCHANGED <<acct, key, jwt, minted, ver, nats, written, attempt, missed, left, panicked>>
      BY <1>11 DEF ReadKey, stored, history
    <2>2. CASE key # 0
      BY <1>11, <2>1, <2>2 DEF ReadKey, Goto, TypeOK, RotatesKey
    <2>3. CASE key = 0
      <3>1. Return(g)
        BY <1>11, <2>3 DEF ReadKey
      <3> QED BY <2>1, <3>1, ReturnType DEF TypeOK
    <2> QED BY <2>2, <2>3
  <1>12. ASSUME NEW g \in Handler, PushTaken(g) PROVE TypeOK' /\ RotatesKey'
    <2>1. tok[g].key \in Key /\ tok[g].ver \in 0 .. MaxVer
      BY <1>12 DEF PushTaken, TypeOK
    <2> QED BY <1>12, <2>1 DEF PushTaken, AfterPush, Goto, stored, TypeOK, RotatesKey
  <1>13. ASSUME NEW g \in Handler, PushDisabled(g) PROVE TypeOK' /\ RotatesKey'
    BY <1>13 DEF PushDisabled, AfterPush, Goto, stored, history, TypeOK, RotatesKey
  <1>14. ASSUME NEW g \in Handler, PushLost(g) PROVE TypeOK' /\ RotatesKey'
    BY <1>14 DEF PushLost, AfterPush, Goto, stored, history, TypeOK, RotatesKey
  <1>15. ASSUME NEW g \in Handler, PushRefused(g) PROVE TypeOK' /\ RotatesKey'
    BY <1>15, FailType DEF PushRefused
  <1>16. ASSUME NEW g \in Handler, DropTaken(g) PROVE TypeOK' /\ RotatesKey'
    BY <1>16 DEF DropTaken, AfterSync, Goto, stored, history, TypeOK, RotatesKey
  <1>17. ASSUME NEW g \in Handler, DropLost(g) PROVE TypeOK' /\ RotatesKey'
    BY <1>17 DEF DropLost, AfterSync, Goto, stored, history, TypeOK, RotatesKey
  <1>18. ASSUME NEW g \in Handler, DropRefused(g) PROVE TypeOK' /\ RotatesKey'
    BY <1>18 DEF DropRefused, Attempted, AfterSync, Goto, stored, history, TypeOK, RotatesKey
  <1>19. ASSUME NEW g \in Handler, ReadEntry(g) PROVE TypeOK' /\ RotatesKey'
    BY <1>19 DEF ReadEntry, Goto, stored, history, TypeOK, RotatesKey
  <1>20. ASSUME NEW g \in Handler, Panic(g) PROVE TypeOK' /\ RotatesKey'
    <2>1. UNCHANGED <<acct, key, jwt, minted, ver, nats, written, attempt>> /\ Die
      BY <1>20 DEF Panic, stored
    <2>2. panicked' \in BOOLEAN
      BY <1>20 DEF Panic
    <2> QED BY <2>1, <2>2, DieType DEF TypeOK
  <1>21. ASSUME NEW g \in Handler, StoreStatus(g) PROVE TypeOK' /\ RotatesKey'
    <2>1. acct' \in AccountEntry
      BY <1>21 DEF StoreStatus, TypeOK
    <2>2. Return(g)
      BY <1>21 DEF StoreStatus
    <2>3. UNCHANGED <<key, jwt, minted, ver, nats, written, attempt, missed, left, panicked>>
      BY <1>21 DEF StoreStatus, history
    <2> QED BY <2>1, <2>2, <2>3, ReturnType DEF TypeOK
  <1>22. ASSUME NEW g \in Handler, CommitDelete(g) PROVE TypeOK' /\ RotatesKey'
    BY <1>22 DEF CommitDelete, Return, Goto, stored, history, TypeOK, RotatesKey
  <1>23. ASSUME NEW g \in Handler, CommitFails(g) PROVE TypeOK' /\ RotatesKey'
    BY <1>23 DEF CommitFails, Return, Goto, stored, history, TypeOK, RotatesKey
  <1>24. CASE UNCHANGED vars
    BY <1>24 DEF vars, stored, local, history, TypeOK, RotatesKey
  <1>25. ASSUME NEW g \in Handler, ReadFails(g) PROVE TypeOK' /\ RotatesKey'
    <2>1. UNCHANGED <<acct, key, jwt, minted, ver, nats, written, attempt, panicked>> /\ Return(g)
      BY <1>25 DEF ReadFails, stored
    <2>2. missed' \in BOOLEAN /\ left' \subseteq 0 .. MaxKeys
      <3>1. CASE op[g] = "delete"
        BY <1>25, <3>1 DEF ReadFails, TypeOK
      <3>2. CASE op[g] # "delete"
        <4>1. Skipped(g)
          BY <1>25, <3>2 DEF ReadFails
        <4> QED BY <4>1 DEF Skipped, TypeOK
      <3> QED BY <3>1, <3>2
    <2> QED BY <2>1, <2>2, ReturnType DEF TypeOK
  <1>26. ASSUME NEW g \in Handler, DropUnsigned(g) PROVE TypeOK' /\ RotatesKey'
    <2>1. UNCHANGED <<acct, key, jwt, minted, ver, nats, written, missed, panicked>> /\ Return(g)
      BY <1>26 DEF DropUnsigned, stored
    <2>2. attempt' = "unseen" /\ left' \subseteq 0 .. MaxKeys
      BY <1>26 DEF DropUnsigned, TypeOK
    <2> QED BY <2>1, <2>2, ReturnType DEF TypeOK
  <1>27. ASSUME NEW g \in Handler, StatusFails(g) PROVE TypeOK' /\ RotatesKey'
    <2>1. UNCHANGED <<acct, key, jwt, minted, ver, nats, written, missed, left, panicked>> /\ Return(g)
      BY <1>27 DEF StatusFails, stored
    <2>2. attempt' = "unseen"
      BY <1>27 DEF StatusFails
    <2> QED BY <2>1, <2>2, ReturnType DEF TypeOK
  <1>28. ASSUME Crash PROVE TypeOK' /\ RotatesKey'
    <2>1. UNCHANGED <<acct, key, jwt, minted, ver, nats, written, panicked>> /\ Die
      BY <1>28 DEF Crash, stored
    <2>2. attempt' \in {"none", "taken", "failed", "unseen"}
      BY <1>28 DEF Crash, TypeOK
    <2> QED BY <2>1, <2>2, DieType DEF TypeOK
  <1> QED BY <1>1, <1>2, <1>3, <1>4, <1>5, <1>6, <1>7, <1>8, <1>9, <1>10, <1>11, <1>12, <1>13, <1>14, <1>15, <1>16, <1>17, <1>18, <1>19, <1>20, <1>21, <1>22, <1>23, <1>24, <1>25, <1>26, <1>27, <1>28 DEF Next, Step

\* Every variable has its type: a handler that pushes has a JWT to push, one that
\* drops has a key to drop, and one that stores a status has an entry.
THEOREM TypeCorrect == Spec => []TypeOK
  <1>1. Init => TypeOK /\ RotatesKey
    BY InitType
  <1>2. (TypeOK /\ RotatesKey) /\ [Next]_vars => (TypeOK /\ RotatesKey)'
    BY StepType
  <1> QED BY <1>1, <1>2, PTL DEF Spec

-----------------------------------------------------------------------------
(* One handler: what is stored and what it has read.                        *)

\* The entry, the key and the JWT are written and deleted together, and nobody
\* changes them between a read of the handler and the step that uses it.
LEMMA StepWhole ==
  ASSUME NEW h \in Handler, Handler = {h}, TypeOK, Whole(h), [Next]_vars
  PROVE  Whole(h)'
  <1> USE SyncAssumption, NoneAssumption DEF Key, Token, AccountEntry
  <1>1. CASE AccountWrite(h)
    BY <1>1 DEF AccountWrite, MintKey, Issue, Tell, Goto, stored, history, TypeOK, Whole
  <1>2. CASE Reissue(h)
    BY <1>2 DEF Reissue, Issue, Tell, Goto, stored, history, TypeOK, Whole
  <1>3. CASE SyncOnly(h)
    BY <1>3 DEF SyncOnly, Tell, Goto, stored, history, TypeOK, Whole
  <1>4. CASE AccountRotate(h)
    <2>1. /\ acct # None /\ key \in 0 .. minted /\ UNCHANGED acct
          /\ key' = minted + 1 /\ minted' = minted + 1
          /\ jwt' = [key |-> minted + 1, ver |-> ver + 1] /\ ver + 1 \in 1 .. MaxVer
      BY <1>4 DEF AccountRotate, MintKey, Issue, TypeOK, Whole
    <2>2. pc'[h] = "start" /\ op'[h] = "rotate" /\ old'[h] = key
      BY <1>4 DEF AccountRotate, Tell, Goto, TypeOK
    <2>3. minted \in Nat /\ jwt' \in Token
      BY <1>4, <2>1 DEF AccountRotate, MintKey, TypeOK
    <2> QED BY <2>1, <2>2, <2>3 DEF Whole
  <1>5. CASE AccountDelete(h)
    BY <1>5 DEF AccountDelete, Tell, Goto, stored, history, TypeOK, Whole
  <1>6. CASE Started(h)
    BY <1>6 DEF Started, Goto, stored, history, TypeOK, Whole
  <1>7. CASE NotStarted(h)
    BY <1>7 DEF NotStarted, NoServer, Skipped, Return, Goto, stored, history, TypeOK, Whole
  <1>8. CASE NoConnection(h)
    BY <1>8 DEF NoConnection, NoServer, Skipped, Return, Attempted, Goto, stored, history, TypeOK, Whole
  <1>9. CASE StartFails(h)
    BY <1>9 DEF StartFails, Fail, Skipped, Attempted, AfterSync, Goto, stored, history, TypeOK, Whole
  <1>10. CASE ReadJwt(h)
    BY <1>10 DEF ReadJwt, Fail, Skipped, Attempted, AfterSync, Goto, stored, history, TypeOK, Whole
  <1>11. CASE ReadKey(h)
    BY <1>11 DEF ReadKey, Return, Goto, stored, history, TypeOK, Whole
  <1>12. CASE PushTaken(h)
    BY <1>12 DEF PushTaken, AfterPush, Goto, stored, history, TypeOK, Whole
  <1>13. CASE PushDisabled(h)
    BY <1>13 DEF PushDisabled, AfterPush, Goto, stored, history, TypeOK, Whole
  <1>14. CASE PushLost(h)
    BY <1>14 DEF PushLost, AfterPush, Goto, stored, history, TypeOK, Whole
  <1>15. CASE PushRefused(h)
    BY <1>15 DEF PushRefused, Fail, Skipped, Attempted, AfterSync, Goto, stored, history, TypeOK, Whole
  <1>16. CASE DropTaken(h)
    BY <1>16 DEF DropTaken, AfterSync, Goto, stored, history, TypeOK, Whole
  <1>17. CASE DropLost(h)
    BY <1>17 DEF DropLost, AfterSync, Goto, stored, history, TypeOK, Whole
  <1>18. CASE DropRefused(h)
    BY <1>18 DEF DropRefused, Attempted, AfterSync, Goto, stored, history, TypeOK, Whole
  <1>19. CASE ReadEntry(h)
    BY <1>19 DEF ReadEntry, Goto, stored, history, TypeOK, Whole
  <1>20. CASE Panic(h)
    BY <1>20 DEF Panic, Die, stored, history, TypeOK, Whole
  <1>21. CASE StoreStatus(h)
    <2>1. acct' \in AccountEntry
      BY <1>21 DEF StoreStatus, TypeOK
    <2> QED BY <1>21, <2>1 DEF StoreStatus, Return, Goto, TypeOK, Whole
  <1>22. CASE CommitDelete(h)
    BY <1>22 DEF CommitDelete, Return, Goto, stored, history, TypeOK, Whole
  <1>23. CASE CommitFails(h)
    BY <1>23 DEF CommitFails, Return, Goto, stored, history, TypeOK, Whole
  <1>24. CASE UNCHANGED vars
    BY <1>24 DEF vars, stored, local, history, TypeOK, Whole
  <1>25. CASE ReadFails(h)
    BY <1>25 DEF ReadFails, Skipped, Return, Goto, stored, history, TypeOK, Whole
  <1>26. CASE DropUnsigned(h)
    BY <1>26 DEF DropUnsigned, Return, Goto, stored, history, TypeOK, Whole
  <1>27. CASE StatusFails(h)
    BY <1>27 DEF StatusFails, Return, Goto, stored, history, TypeOK, Whole
  <1>28. CASE Crash
    BY <1>28 DEF Crash, Die, stored, history, TypeOK, Whole
  <1> QED BY <1>1, <1>2, <1>3, <1>4, <1>5, <1>6, <1>7, <1>8, <1>9, <1>10, <1>11, <1>12, <1>13, <1>14, <1>15, <1>16, <1>17, <1>18, <1>19, <1>20, <1>21, <1>22, <1>23, <1>24, <1>25, <1>26, <1>27, <1>28 DEF Next, Step

\* The entry is written by a request, by the status of a sync, which changes
\* nothing else of it, and by a deletion.
LEMMA StepLastWrite ==
  ASSUME NEW h \in Handler, Handler = {h}, TypeOK, Whole(h), LastWriteKept, [Next]_vars
  PROVE  LastWriteKept'
  <1> USE SyncAssumption, NoneAssumption DEF Key, AccountEntry, LastWriteKept
  <1>1. CASE AccountWrite(h)
    <2>1. acct' \in AccountEntry /\ acct'.cfg = written'
      BY <1>1 DEF AccountWrite, Issue, TypeOK
    <2> QED BY <2>1
  <1>2. CASE StoreStatus(h)
    <2>1. acct' \in AccountEntry /\ acct'.cfg = acct.cfg /\ acct # None
      BY <1>2 DEF StoreStatus, TypeOK, Whole
    <2>2. written' = written
      BY <1>2 DEF StoreStatus, history
    <2> QED BY <2>1, <2>2
  <1>3. CASE CommitDelete(h)
    BY <1>3 DEF CommitDelete
  <1>4. CASE UNCHANGED <<acct, written>>
    BY <1>4
  <1> QED BY <1>1, <1>2, <1>3, <1>4
          DEF Next, Step, Crash, ReadFails, DropUnsigned, StatusFails,
              Reissue, SyncOnly, AccountRotate, AccountDelete, Started, NotStarted,
              NoConnection, NoServer, StartFails, ReadJwt, ReadKey, PushTaken, PushDisabled,
              PushLost, PushRefused, DropTaken, DropLost, DropRefused, ReadEntry, Panic,
              CommitFails, Fail, vars, stored, history

\* The status stays true until the push, and then syncErr tells how the push and
\* the deletion after it ended, until it is written into the status.
LEMMA StepOutcome ==
  ASSUME NEW h \in Handler, Handler = {h}, TypeOK, Whole(h), OutcomeIn(h), [Next]_vars
  PROVE  OutcomeIn(h)'
  <1> USE SyncAssumption, NoneAssumption DEF Key, Token, AccountEntry
  <1>1. CASE AccountWrite(h)
    BY <1>1 DEF AccountWrite, MintKey, Issue, Tell, Goto, stored, history, TypeOK, Whole, OutcomeIn, StatusTrue
  <1>2. CASE Reissue(h)
    BY <1>2 DEF Reissue, Issue, Tell, Goto, stored, history, TypeOK, Whole, OutcomeIn, StatusTrue
  <1>3. CASE SyncOnly(h)
    BY <1>3 DEF SyncOnly, Tell, Goto, stored, history, TypeOK, Whole, OutcomeIn, StatusTrue
  <1>4. CASE AccountRotate(h)
    BY <1>4 DEF AccountRotate, MintKey, Issue, Tell, Goto, stored, history, TypeOK, Whole, OutcomeIn, StatusTrue
  <1>5. CASE AccountDelete(h)
    BY <1>5 DEF AccountDelete, Tell, Goto, stored, history, TypeOK, Whole, OutcomeIn, StatusTrue
  <1>6. CASE Started(h)
    BY <1>6 DEF Started, Goto, stored, history, TypeOK, Whole, OutcomeIn, StatusTrue
  <1>7. CASE NotStarted(h)
    BY <1>7 DEF NotStarted, NoServer, Skipped, Return, Goto, stored, history, TypeOK, Whole, OutcomeIn, StatusTrue
  <1>8. CASE NoConnection(h)
    BY <1>8 DEF NoConnection, NoServer, Skipped, Return, Attempted, Goto, stored, history, TypeOK, Whole, OutcomeIn, StatusTrue
  <1>9. CASE StartFails(h)
    BY <1>9 DEF StartFails, Fail, Skipped, Attempted, AfterSync, Goto, stored, history, TypeOK, Whole, OutcomeIn, StatusTrue
  <1>10. CASE ReadJwt(h)
    BY <1>10 DEF ReadJwt, Fail, Skipped, Attempted, AfterSync, Goto, stored, history, TypeOK, Whole, OutcomeIn, StatusTrue
  <1>11. CASE ReadKey(h)
    BY <1>11 DEF ReadKey, Return, Goto, stored, history, TypeOK, Whole, OutcomeIn, StatusTrue
  <1>12. CASE PushTaken(h)
    BY <1>12 DEF PushTaken, AfterPush, Goto, stored, history, TypeOK, Whole, OutcomeIn, StatusTrue
  <1>13. CASE PushDisabled(h)
    BY <1>13 DEF PushDisabled, AfterPush, Goto, stored, history, TypeOK, Whole, OutcomeIn, StatusTrue
  <1>14. CASE PushLost(h)
    BY <1>14 DEF PushLost, AfterPush, Goto, stored, history, TypeOK, Whole, OutcomeIn, StatusTrue
  <1>15. CASE PushRefused(h)
    BY <1>15 DEF PushRefused, Fail, Skipped, Attempted, AfterSync, Goto, stored, history, TypeOK, Whole, OutcomeIn, StatusTrue
  <1>16. CASE DropTaken(h)
    BY <1>16 DEF DropTaken, AfterSync, Goto, stored, history, TypeOK, Whole, OutcomeIn, StatusTrue
  <1>17. CASE DropLost(h)
    BY <1>17 DEF DropLost, AfterSync, Goto, stored, history, TypeOK, Whole, OutcomeIn, StatusTrue
  <1>18. CASE DropRefused(h)
    BY <1>18 DEF DropRefused, Attempted, AfterSync, Goto, stored, history, TypeOK, Whole, OutcomeIn, StatusTrue
  <1>19. CASE ReadEntry(h)
    BY <1>19 DEF ReadEntry, Goto, stored, history, TypeOK, Whole, OutcomeIn, StatusTrue
  <1>20. CASE Panic(h)
    BY <1>20 DEF Panic, Die, stored, history, TypeOK, Whole, OutcomeIn, StatusTrue
  <1>21. CASE StoreStatus(h)
    BY <1>21 DEF StoreStatus, Return, Goto, stored, history, TypeOK, Whole, OutcomeIn, StatusTrue
  <1>22. CASE CommitDelete(h)
    BY <1>22 DEF CommitDelete, Return, Goto, stored, history, TypeOK, Whole, OutcomeIn, StatusTrue
  <1>23. CASE CommitFails(h)
    BY <1>23 DEF CommitFails, Return, Goto, stored, history, TypeOK, Whole, OutcomeIn, StatusTrue
  <1>24. CASE UNCHANGED vars
    BY <1>24 DEF vars, stored, local, history, TypeOK, Whole, OutcomeIn, StatusTrue
  <1>25. CASE ReadFails(h)
    BY <1>25 DEF ReadFails, Skipped, Return, Goto, stored, history, TypeOK, Whole, OutcomeIn, StatusTrue
  <1>26. CASE DropUnsigned(h)
    BY <1>26 DEF DropUnsigned, Return, Goto, stored, history, TypeOK, Whole, OutcomeIn, StatusTrue
  <1>27. CASE StatusFails(h)
    BY <1>27 DEF StatusFails, Return, Goto, stored, history, TypeOK, Whole, OutcomeIn, StatusTrue
  <1>28. CASE Crash
    BY <1>28 DEF Crash, Die, stored, history, TypeOK, Whole, OutcomeIn, StatusTrue
  <1> QED BY <1>1, <1>2, <1>3, <1>4, <1>5, <1>6, <1>7, <1>8, <1>9, <1>10, <1>11, <1>12, <1>13, <1>14, <1>15, <1>16, <1>17, <1>18, <1>19, <1>20, <1>21, <1>22, <1>23, <1>24, <1>25, <1>26, <1>27, <1>28 DEF Next, Step

\* A push that is taken brings NATS up to the stored JWT, one that is not is
\* remembered, and a rotation takes another key from NATS than the stored one.
LEMMA StepPushed ==
  ASSUME NEW h \in Handler, Handler = {h}, TypeOK, Whole(h), PushedIn(h), [Next]_vars
  PROVE  PushedIn(h)'
  <1> USE SyncAssumption, NoneAssumption DEF Key, Token, AccountEntry
  <1>1. CASE AccountWrite(h)
    BY <1>1 DEF AccountWrite, MintKey, Issue, Tell, Goto, stored, history, TypeOK, Whole, PushedIn
  <1>2. CASE Reissue(h)
    BY <1>2 DEF Reissue, Issue, Tell, Goto, stored, history, TypeOK, Whole, PushedIn
  <1>3. CASE SyncOnly(h)
    BY <1>3 DEF SyncOnly, Tell, Goto, stored, history, TypeOK, Whole, PushedIn
  <1>4. CASE AccountRotate(h)
    BY <1>4 DEF AccountRotate, MintKey, Issue, Tell, Goto, stored, history, TypeOK, Whole, PushedIn
  <1>5. CASE AccountDelete(h)
    BY <1>5 DEF AccountDelete, Tell, Goto, stored, history, TypeOK, Whole, PushedIn
  <1>6. CASE Started(h)
    BY <1>6 DEF Started, Goto, stored, history, TypeOK, Whole, PushedIn
  <1>7. CASE NotStarted(h)
    BY <1>7 DEF NotStarted, NoServer, Skipped, Return, Goto, stored, history, TypeOK, Whole, PushedIn
  <1>8. CASE NoConnection(h)
    BY <1>8 DEF NoConnection, NoServer, Skipped, Return, Attempted, Goto, stored, history, TypeOK, Whole, PushedIn
  <1>9. CASE StartFails(h)
    BY <1>9 DEF StartFails, Fail, Skipped, Attempted, AfterSync, Goto, stored, history, TypeOK, Whole, PushedIn
  <1>10. CASE ReadJwt(h)
    BY <1>10 DEF ReadJwt, Fail, Skipped, Attempted, AfterSync, Goto, stored, history, TypeOK, Whole, PushedIn
  <1>11. CASE ReadKey(h)
    BY <1>11 DEF ReadKey, Return, Goto, stored, history, TypeOK, Whole, PushedIn
  <1>12. CASE PushTaken(h)
    BY <1>12 DEF PushTaken, AfterPush, Goto, stored, history, TypeOK, Whole, PushedIn
  <1>13. CASE PushDisabled(h)
    BY <1>13 DEF PushDisabled, AfterPush, Goto, stored, history, TypeOK, Whole, PushedIn
  <1>14. CASE PushLost(h)
    BY <1>14 DEF PushLost, AfterPush, Goto, stored, history, TypeOK, Whole, PushedIn
  <1>15. CASE PushRefused(h)
    BY <1>15 DEF PushRefused, Fail, Skipped, Attempted, AfterSync, Goto, stored, history, TypeOK, Whole, PushedIn
  <1>16. CASE DropTaken(h)
    BY <1>16 DEF DropTaken, AfterSync, Goto, stored, history, TypeOK, Whole, PushedIn
  <1>17. CASE DropLost(h)
    BY <1>17 DEF DropLost, AfterSync, Goto, stored, history, TypeOK, Whole, PushedIn
  <1>18. CASE DropRefused(h)
    BY <1>18 DEF DropRefused, Attempted, AfterSync, Goto, stored, history, TypeOK, Whole, PushedIn
  <1>19. CASE ReadEntry(h)
    BY <1>19 DEF ReadEntry, Goto, stored, history, TypeOK, Whole, PushedIn
  <1>20. CASE Panic(h)
    BY <1>20 DEF Panic, Die, stored, history, TypeOK, Whole, PushedIn
  <1>21. CASE StoreStatus(h)
    BY <1>21 DEF StoreStatus, Return, Goto, stored, history, TypeOK, Whole, PushedIn
  <1>22. CASE CommitDelete(h)
    BY <1>22 DEF CommitDelete, Return, Goto, stored, history, TypeOK, Whole, PushedIn
  <1>23. CASE CommitFails(h)
    BY <1>23 DEF CommitFails, Return, Goto, stored, history, TypeOK, Whole, PushedIn
  <1>24. CASE UNCHANGED vars
    BY <1>24 DEF vars, stored, local, history, TypeOK, Whole, PushedIn
  <1>25. CASE ReadFails(h)
    BY <1>25 DEF ReadFails, Skipped, Return, Goto, stored, history, TypeOK, Whole, PushedIn
  <1>26. CASE DropUnsigned(h)
    BY <1>26 DEF DropUnsigned, Return, Goto, stored, history, TypeOK, Whole, PushedIn
  <1>27. CASE StatusFails(h)
    BY <1>27 DEF StatusFails, Return, Goto, stored, history, TypeOK, Whole, PushedIn
  <1>28. CASE Crash
    BY <1>28 DEF Crash, Die, stored, history, TypeOK, Whole, PushedIn
  <1> QED BY <1>1, <1>2, <1>3, <1>4, <1>5, <1>6, <1>7, <1>8, <1>9, <1>10, <1>11, <1>12, <1>13, <1>14, <1>15, <1>16, <1>17, <1>18, <1>19, <1>20, <1>21, <1>22, <1>23, <1>24, <1>25, <1>26, <1>27, <1>28 DEF Next, Step

\* A key leaves the storage by a rotation or a deletion, and both take it from
\* NATS or are remembered.
LEMMA StepForgotten ==
  ASSUME NEW h \in Handler, Handler = {h}, TypeOK, Whole(h), ForgottenIn(h), [Next]_vars
  PROVE  ForgottenIn(h)'
  <1> USE SyncAssumption, NoneAssumption DEF Key, Token, AccountEntry
  <1>1. CASE AccountWrite(h)
    BY <1>1 DEF AccountWrite, MintKey, Issue, Tell, Goto, stored, history, TypeOK, Whole, ForgottenIn
  <1>2. CASE Reissue(h)
    BY <1>2 DEF Reissue, Issue, Tell, Goto, stored, history, TypeOK, Whole, ForgottenIn
  <1>3. CASE SyncOnly(h)
    BY <1>3 DEF SyncOnly, Tell, Goto, stored, history, TypeOK, Whole, ForgottenIn
  <1>4. CASE AccountRotate(h)
    BY <1>4 DEF AccountRotate, MintKey, Issue, Tell, Goto, stored, history, TypeOK, Whole, ForgottenIn
  <1>5. CASE AccountDelete(h)
    BY <1>5 DEF AccountDelete, Tell, Goto, stored, history, TypeOK, Whole, ForgottenIn
  <1>6. CASE Started(h)
    BY <1>6 DEF Started, Goto, stored, history, TypeOK, Whole, ForgottenIn
  <1>7. CASE NotStarted(h)
    BY <1>7 DEF NotStarted, NoServer, Skipped, Return, Goto, stored, history, TypeOK, Whole, ForgottenIn
  <1>8. CASE NoConnection(h)
    BY <1>8 DEF NoConnection, NoServer, Skipped, Return, Attempted, Goto, stored, history, TypeOK, Whole, ForgottenIn
  <1>9. CASE StartFails(h)
    BY <1>9 DEF StartFails, Fail, Skipped, Attempted, AfterSync, Goto, stored, history, TypeOK, Whole, ForgottenIn
  <1>10. CASE ReadJwt(h)
    BY <1>10 DEF ReadJwt, Fail, Skipped, Attempted, AfterSync, Goto, stored, history, TypeOK, Whole, ForgottenIn
  <1>11. CASE ReadKey(h)
    BY <1>11 DEF ReadKey, Return, Goto, stored, history, TypeOK, Whole, ForgottenIn
  <1>12. CASE PushTaken(h)
    BY <1>12 DEF PushTaken, AfterPush, Goto, stored, history, TypeOK, Whole, ForgottenIn
  <1>13. CASE PushDisabled(h)
    BY <1>13 DEF PushDisabled, AfterPush, Goto, stored, history, TypeOK, Whole, ForgottenIn
  <1>14. CASE PushLost(h)
    BY <1>14 DEF PushLost, AfterPush, Goto, stored, history, TypeOK, Whole, ForgottenIn
  <1>15. CASE PushRefused(h)
    BY <1>15 DEF PushRefused, Fail, Skipped, Attempted, AfterSync, Goto, stored, history, TypeOK, Whole, ForgottenIn
  <1>16. CASE DropTaken(h)
    BY <1>16 DEF DropTaken, AfterSync, Goto, stored, history, TypeOK, Whole, ForgottenIn
  <1>17. CASE DropLost(h)
    BY <1>17 DEF DropLost, AfterSync, Goto, stored, history, TypeOK, Whole, ForgottenIn
  <1>18. CASE DropRefused(h)
    BY <1>18 DEF DropRefused, Attempted, AfterSync, Goto, stored, history, TypeOK, Whole, ForgottenIn
  <1>19. CASE ReadEntry(h)
    BY <1>19 DEF ReadEntry, Goto, stored, history, TypeOK, Whole, ForgottenIn
  <1>20. CASE Panic(h)
    BY <1>20 DEF Panic, Die, stored, history, TypeOK, Whole, ForgottenIn
  <1>21. CASE StoreStatus(h)
    BY <1>21 DEF StoreStatus, Return, Goto, stored, history, TypeOK, Whole, ForgottenIn
  <1>22. CASE CommitDelete(h)
    BY <1>22 DEF CommitDelete, Return, Goto, stored, history, TypeOK, Whole, ForgottenIn
  <1>23. CASE CommitFails(h)
    BY <1>23 DEF CommitFails, Return, Goto, stored, history, TypeOK, Whole, ForgottenIn
  <1>24. CASE UNCHANGED vars
    BY <1>24 DEF vars, stored, local, history, TypeOK, Whole, ForgottenIn
  <1>25. CASE ReadFails(h)
    BY <1>25 DEF ReadFails, Skipped, Return, Goto, stored, history, TypeOK, Whole, ForgottenIn
  <1>26. CASE DropUnsigned(h)
    BY <1>26 DEF DropUnsigned, Return, Goto, stored, history, TypeOK, Whole, ForgottenIn
  <1>27. CASE StatusFails(h)
    BY <1>27 DEF StatusFails, Return, Goto, stored, history, TypeOK, Whole, ForgottenIn
  <1>28. CASE Crash
    BY <1>28 DEF Crash, Die, stored, history, TypeOK, Whole, ForgottenIn
  <1> QED BY <1>1, <1>2, <1>3, <1>4, <1>5, <1>6, <1>7, <1>8, <1>9, <1>10, <1>11, <1>12, <1>13, <1>14, <1>15, <1>16, <1>17, <1>18, <1>19, <1>20, <1>21, <1>22, <1>23, <1>24, <1>25, <1>26, <1>27, <1>28 DEF Next, Step

-----------------------------------------------------------------------------
(* The properties of requests served one at a time.                         *)

\* No request is served at first.
LEMMA InitInv == \A h \in Handler : Init => Inv(h)
  BY SyncAssumption, NoneAssumption
     DEF Init, Inv, Whole, LastWriteKept, OutcomeIn, StatusTrue, PushedIn, ForgottenIn

\* The inductive invariant holds in every reachable state.
THEOREM InvCorrect ==
  ASSUME NEW h \in Handler, Handler = {h}
  PROVE  Spec => [](TypeOK /\ Inv(h))
  <1>1. Init => TypeOK /\ RotatesKey /\ Inv(h)
    BY InitType, InitInv
  <1>2. (TypeOK /\ RotatesKey /\ Inv(h)) /\ [Next]_vars => (TypeOK /\ RotatesKey /\ Inv(h))'
    BY StepType, StepWhole, StepLastWrite, StepOutcome, StepPushed, StepForgotten DEF Inv
  <1> QED BY <1>1, <1>2, PTL DEF Spec

\* The entry is what the last committed request made it, and there is none after
\* a deletion: updateAccountSyncStatus takes nothing back.
THEOREM LastWriteCorrect ==
  ASSUME NEW h \in Handler, Handler = {h}
  PROVE  Spec => []LastWriteKept
  <1>1. Inv(h) => LastWriteKept
    BY DEF Inv
  <1> QED BY <1>1, InvCorrect, PTL

\* Between requests the status says how the last attempt ended, unless the plugin
\* did not see its end.
THEOREM OutcomeCorrect ==
  ASSUME NEW h \in Handler, Handler = {h}
  PROVE  Spec => []OutcomeReported
  <1>1. Inv(h) => OutcomeReported
    BY DEF Inv, OutcomeIn, StatusTrue, OutcomeReported, Quiet
  <1> QED BY <1>1, InvCorrect, PTL

\* Between requests NATS has the stored JWT unless a push was skipped or failed
\* since, and it has nothing for a key that was rotated or deleted, unless it was
\* not told or refused.
THEOREM InStepCorrect ==
  ASSUME NEW h \in Handler, Handler = {h}
  PROVE  Spec => []NatsInStep
  <1>1. TypeOK /\ Inv(h) => NatsInStep
    <2> SUFFICES ASSUME TypeOK, Inv(h), Quiet
                 PROVE  /\ acct # None /\ ~missed => jwt # None /\ nats[jwt.key] = jwt.ver
                        /\ \A k \in Key \ ({key} \cup left) : nats[k] = 0
      BY DEF NatsInStep
    <2>1. pc[h] = "idle" /\ op[h] = "update"
      BY DEF Quiet, Inv, Whole
    <2>2. acct # None => jwt # None /\ jwt.key = key
      BY DEF Inv, Whole
    <2> QED BY <2>1, <2>2 DEF Inv, PushedIn, ForgottenIn
  <1> QED BY <1>1, InvCorrect, PTL

\* Once the deletion is committed, and until the account is created again, there
\* is no entry. (With two requests at once a sync brings it back: MCAccountSyncLost.)
THEOREM DeletedCorrect ==
  ASSUME NEW h \in Handler, Handler = {h}
  PROVE  Spec => []DeletedStaysDeleted
  <1>1. TypeOK /\ Inv(h) => DeletedStaysDeleted
    <2> SUFFICES ASSUME TypeOK, LastWriteKept, acct # None
                 PROVE  written # 0
      BY DEF Inv, DeletedStaysDeleted
    <2>1. acct.cfg \in 1 .. MaxVer
      BY DEF TypeOK, AccountEntry
    <2> QED BY <2>1, SyncAssumption DEF LastWriteKept
  <1> QED BY <1>1, InvCorrect, PTL

-----------------------------------------------------------------------------
(* What is promised when certain faults cannot happen.                      *)

\* The plugin saw how the last attempt ended.
Seen == attempt # "unseen"

\* Nothing ends an attempt behind the plugin's back but a failed connection, a
\* lost request, disabled updates, a storage that fails and a crash.
LEMMA NoneUnseen ==
  Faults \cap {"down", "silent", "updates", "storage", "crash"} = {} =>
    (Seen /\ [Next]_vars => Seen')
  <1> SUFFICES ASSUME "down" \notin Faults, "silent" \notin Faults, "updates" \notin Faults,
                      "storage" \notin Faults, "crash" \notin Faults,
                      attempt # "unseen", [Next]_vars
               PROVE  attempt' # "unseen"
    BY DEF Seen
  <1>1. ASSUME NEW g \in Handler, NEW how, how # "unseen", Attempted(g, how)
        PROVE  attempt' # "unseen"
    BY <1>1 DEF Attempted
  <1>2. ASSUME NEW g \in Handler,
               AccountWrite(g) \/ PushTaken(g) \/ DropRefused(g) \/ CommitDelete(g)
        PROVE  attempt' # "unseen"
    BY <1>1, <1>2 DEF AccountWrite, PushTaken, DropRefused, CommitDelete
  <1>3. ASSUME NEW g \in Handler, StartFails(g) \/ ReadJwt(g) \/ PushRefused(g)
        PROVE  attempt' # "unseen"
    BY <1>1, <1>3 DEF StartFails, ReadJwt, PushRefused, Fail, history
  <1>4. CASE UNCHANGED attempt
    BY <1>4
  <1> QED BY <1>2, <1>3, <1>4
          DEF Next, Step, Crash, ReadFails, DropUnsigned, StatusFails,
              Reissue, SyncOnly, AccountRotate, AccountDelete, Started, NotStarted,
              NoConnection, ReadKey, PushDisabled, PushLost, DropTaken, DropLost, ReadEntry,
              Panic, StoreStatus, CommitFails, vars, history

\* docs/API.md:953 as it is written: when connections do not fail, requests are
\* not lost, updates stay enabled, the storage does not fail after the commit and
\* the process lives, the status says how the last attempt ended.
THEOREM LastAttemptCorrect ==
  ASSUME NEW h \in Handler, Handler = {h}, Faults \cap {"down", "silent", "updates", "storage", "crash"} = {}
  PROVE  Spec => []LastAttemptReported
  <1>1. Init => Seen
    BY DEF Init, Seen
  <1>2. OutcomeReported /\ Seen => LastAttemptReported
    BY DEF Seen, OutcomeReported, LastAttemptReported
  <1>3. Seen /\ [Next]_vars => Seen'
    BY NoneUnseen
  <1> QED BY <1>1, <1>2, <1>3, OutcomeCorrect, PTL DEF Spec

\* NATS has the stored JWT and nothing else, with no excuse.
NatsExact ==
  Quiet =>
    /\ acct # None => nats[key] = jwt.ver
    /\ \A k \in Key \ {key} : nats[k] = 0

\* Without faults nothing is left, and what a sync of an absent account missed is
\* made up for by the first push of the account.
SettledIn(h) ==
  /\ left \subseteq {0}
  /\ op[h] = "update" => old[h] = 0
  /\ pc[h] \in {"idle", "status", "store"} \/ (pc[h] = "drop" /\ op[h] = "rotate") =>
       (acct # None => ~missed)

\* Without faults no step misses a push of an account or leaves a key behind.
LEMMA StepSettled ==
  ASSUME NEW h \in Handler, Handler = {h}, Faults = {}, TypeOK, Whole(h), SettledIn(h),
         [Next]_vars
  PROVE  SettledIn(h)'
  <1>0. acct = None => op[h] = "update" /\ jwt = None
    BY DEF TypeOK, Whole
  <1> USE SyncAssumption, NoneAssumption DEF Key, Token, AccountEntry
  <1>1. CASE AccountWrite(h)
    BY <1>1 DEF AccountWrite, MintKey, Issue, Tell, Goto, stored, history, TypeOK, Whole, SettledIn
  <1>2. CASE Reissue(h)
    BY <1>2 DEF Reissue, Issue, Tell, Goto, stored, history, TypeOK, Whole, SettledIn
  <1>3. CASE SyncOnly(h)
    BY <1>3 DEF SyncOnly, Tell, Goto, stored, history, TypeOK, Whole, SettledIn
  <1>4. CASE AccountRotate(h)
    BY <1>4 DEF AccountRotate, MintKey, Issue, Tell, Goto, stored, history, TypeOK, Whole, SettledIn
  <1>5. CASE AccountDelete(h)
    BY <1>5 DEF AccountDelete, Tell, Goto, stored, history, TypeOK, Whole, SettledIn
  <1>6. CASE Started(h)
    BY <1>6 DEF Started, Goto, stored, history, TypeOK, Whole, SettledIn
  <1>7. CASE NotStarted(h)
    BY <1>7 DEF NotStarted, NoServer, Skipped, Return, Goto, stored, history, TypeOK, Whole, SettledIn
  <1>8. CASE NoConnection(h)
    BY <1>8 DEF NoConnection, NoServer, Skipped, Return, Attempted, Goto, stored, history, TypeOK, Whole, SettledIn
  <1>9. CASE StartFails(h)
    BY <1>9 DEF StartFails, Fail, Skipped, Attempted, AfterSync, Goto, stored, history, TypeOK, Whole, SettledIn
  <1>10. CASE ReadJwt(h)
    <2>1. CASE jwt # None
      BY <1>10, <2>1 DEF ReadJwt, Goto, stored, history, TypeOK, Whole, SettledIn
    <2>2. CASE jwt = None
      <3>1. acct = None /\ op[h] = "update" /\ old[h] = 0
        BY <1>0, <2>2 DEF Whole, SettledIn
      <3>2. Fail(h, attempt)
        BY <1>10, <2>2 DEF ReadJwt
      <3> QED BY <3>1, <3>2 DEF Fail, Skipped, AfterSync, Goto, stored, TypeOK, SettledIn
    <2> QED BY <2>1, <2>2
  <1>11. CASE ReadKey(h)
    BY <1>11 DEF ReadKey, Return, Goto, stored, history, TypeOK, Whole, SettledIn
  <1>12. CASE PushTaken(h)
    BY <1>12 DEF PushTaken, AfterPush, Goto, stored, history, TypeOK, Whole, SettledIn
  <1>13. CASE PushDisabled(h)
    BY <1>13 DEF PushDisabled, AfterPush, Goto, stored, history, TypeOK, Whole, SettledIn
  <1>14. CASE PushLost(h)
    BY <1>14 DEF PushLost, AfterPush, Goto, stored, history, TypeOK, Whole, SettledIn
  <1>15. CASE PushRefused(h)
    BY <1>15 DEF PushRefused, Fail, Skipped, Attempted, AfterSync, Goto, stored, history, TypeOK, Whole, SettledIn
  <1>16. CASE DropTaken(h)
    BY <1>16 DEF DropTaken, AfterSync, Goto, stored, history, TypeOK, Whole, SettledIn
  <1>17. CASE DropLost(h)
    BY <1>17 DEF DropLost, AfterSync, Goto, stored, history, TypeOK, Whole, SettledIn
  <1>18. CASE DropRefused(h)
    BY <1>18 DEF DropRefused, Attempted, AfterSync, Goto, stored, history, TypeOK, Whole, SettledIn
  <1>19. CASE ReadEntry(h)
    BY <1>19 DEF ReadEntry, Goto, stored, history, TypeOK, Whole, SettledIn
  <1>20. CASE Panic(h)
    <2>1. old[h] = 0 /\ left' = left \cup {old[g] : g \in {g \in Handler : op[g] # "delete"}}
      BY <1>0, <1>20 DEF Panic, Die, SettledIn
    <2>2. left' \subseteq {0}
      BY <2>1 DEF SettledIn
    <2> QED BY <1>20, <2>2 DEF Panic, Die, stored, SettledIn
  <1>21. CASE StoreStatus(h)
    BY <1>21 DEF StoreStatus, Return, Goto, stored, history, TypeOK, Whole, SettledIn
  <1>22. CASE CommitDelete(h)
    BY <1>22 DEF CommitDelete, Return, Goto, stored, history, TypeOK, Whole, SettledIn
  <1>23. CASE CommitFails(h)
    BY <1>23 DEF CommitFails, Return, Goto, stored, history, TypeOK, Whole, SettledIn
  <1>24. CASE UNCHANGED vars
    BY <1>24 DEF vars, stored, local, history, TypeOK, Whole, SettledIn
  <1>25. CASE ReadFails(h)
    BY <1>25 DEF ReadFails, Skipped, Return, Goto, stored, history, TypeOK, Whole, SettledIn
  <1>26. CASE DropUnsigned(h)
    BY <1>26 DEF DropUnsigned, Return, Goto, stored, history, TypeOK, Whole, SettledIn
  <1>27. CASE StatusFails(h)
    BY <1>27 DEF StatusFails, Return, Goto, stored, history, TypeOK, Whole, SettledIn
  <1>28. CASE Crash
    BY <1>28 DEF Crash, Die, stored, history, TypeOK, Whole, SettledIn
  <1> QED BY <1>1, <1>2, <1>3, <1>4, <1>5, <1>6, <1>7, <1>8, <1>9, <1>10, <1>11, <1>12, <1>13, <1>14, <1>15, <1>16, <1>17, <1>18, <1>19, <1>20, <1>21, <1>22, <1>23, <1>24, <1>25, <1>26, <1>27, <1>28 DEF Next, Step

\* Requests served one at a time, none of which fails, keep NATS at the stored
\* JWT: the account's changes are pushed, and what a rotation or a deletion
\* replaces is taken back.
THEOREM ExactWithoutFaults ==
  ASSUME NEW h \in Handler, Handler = {h}, Faults = {}
  PROVE  Spec => []NatsExact
  <1>1. Init => SettledIn(h)
    BY DEF Init, SettledIn
  <1>2. TypeOK /\ Inv(h) /\ SettledIn(h) /\ [Next]_vars => SettledIn(h)'
    BY StepSettled DEF Inv
  <1>3. TypeOK /\ Inv(h) /\ SettledIn(h) => NatsExact
    <2> SUFFICES ASSUME TypeOK, Inv(h), SettledIn(h), Quiet
                 PROVE  /\ acct # None => nats[key] = jwt.ver
                        /\ \A k \in Key \ {key} : nats[k] = 0
      BY DEF NatsExact
    <2>1. pc[h] = "idle" /\ op[h] = "update"
      BY DEF Quiet, Inv, Whole
    <2>2. \A k \in Key : k \notin left
      BY SyncAssumption DEF SettledIn, Key
    <2> QED BY <2>1, <2>2 DEF Inv, PushedIn, ForgottenIn, SettledIn
  <1> QED BY <1>1, <1>2, <1>3, InvCorrect, PTL DEF Spec
=============================================================================
