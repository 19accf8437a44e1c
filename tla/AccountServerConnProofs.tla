---------------------- MODULE AccountServerConnProofs ------------------------
(***************************************************************************)
(* Proofs about AccountServerConn, for every set of connections and of       *)
(* callers and every bound.                                                 *)
(*                                                                          *)
(* CachedNotDrained is not inductive: a start closes the connection it      *)
(* found in the cache some steps after it has found it.  What saves it is   *)
(* that what is found was cached before (Ours), a connection is cached by   *)
(* the one process that opened it, before anybody else has seen it          *)
(* (Private), and so what a start is about to close is not what the cache   *)
(* holds by then (Replaced).                                                *)
(***************************************************************************)
EXTENDS AccountServerConn, TLAPS

\* The handlers a connection may still call fit the bound: the callbacks of the
\* types. A lost connection takes one more for each loss, a drained one two.
Room == \A c \in Conn : conn[c] # "closed" => callbacks[c] + 2 <= MaxCallbacks

\* A connection that is not in the cache yet is known to the process that opened
\* it and to no other, and nobody has closed it.
Private ==
  \A p \in Proc : new[p] # None =>
    /\ ~drained[new[p]]
    /\ cached # new[p]
    /\ \A q \in Proc : srv[q] # new[p] /\ (q # p => new[q] # new[p])

\* What a start is about to close is not in the cache any more.
Replaced == \A p \in Proc : pc[p] = "close" /\ srv[p] # None => srv[p] # cached

Inv == TypeOK /\ Room /\ Private /\ Replaced /\ CachedNotDrained

\* Where a process may be.
Places == {"idle", "config", "cache", "connect", "register", "close", "report", "sync", "commit",
           "unloaded"}

-----------------------------------------------------------------------------
(* Types.                                                                   *)

\* At first there are no connections.
LEMMA InitType == Init => TypeOK /\ Room
  <1> SUFFICES ASSUME Init PROVE TypeOK /\ Room
    OBVIOUS
  <1>1. 0 \in 0 .. MaxCallbacks /\ 0 \in 0 .. MaxEvents
    BY ConnAssumption
  <1>2. \A c \in Conn : conn[c] = "closed"
    BY DEF Init
  <1>3. \A p \in Proc : pc[p] = "idle" /\ new[p] = None
    BY DEF Init
  <1> QED BY <1>1, <1>2, <1>3 DEF Init, TypeOK, Room, Status

\* Closing a connection keeps its callbacks within the bound and leaves the
\* others alone.
LEMMA DrainType ==
  ASSUME TypeOK, Room, NEW c \in Conn \cup {None}, Drain(c)
  PROVE  /\ conn' \in [Conn -> {"open", "reconnecting", "closed"}]
         /\ drained' \in [Conn -> BOOLEAN]
         /\ callbacks' \in [Conn -> 0 .. MaxCallbacks]
         /\ Room'
         /\ \A d \in Conn : d # c => drained'[d] = drained[d]
  <1>1. CASE c = None \/ conn[c] = "closed"
    <2>1. UNCHANGED <<drained, conn, callbacks>>
      BY <1>1 DEF Drain
    <2> QED BY <2>1 DEF TypeOK, Room
  <1>2. CASE c \in Conn /\ conn[c] # "closed"
    <2>1. callbacks[c] + 1 \in 0 .. MaxCallbacks
      BY <1>2, ConnAssumption DEF TypeOK, Room
    <2>2. drained' = [drained EXCEPT ![c] = TRUE]
      BY <1>2, ConnAssumption DEF Drain
    <2>3. CASE conn[c] = "reconnecting"
      <3>1. /\ conn' = [conn EXCEPT ![c] = "closed"]
            /\ callbacks' = [callbacks EXCEPT ![c] = @ + 1]
        BY <1>2, <2>3, ConnAssumption DEF Drain
      <3> QED BY <1>2, <2>1, <2>2, <3>1 DEF TypeOK, Room
    <2>4. CASE conn[c] # "reconnecting"
      <3>1. UNCHANGED <<conn, callbacks>>
        BY <1>2, <2>4, ConnAssumption DEF Drain
      <3> QED BY <1>2, <2>2, <3>1 DEF TypeOK, Room
    <2> QED BY <2>3, <2>4
  <1> QED BY <1>1, <1>2

\* Every step of a process, a connection or the client keeps the types.
LEMMA StepType == TypeOK /\ Room /\ [Next]_vars => TypeOK' /\ Room'
  <1> SUFFICES ASSUME TypeOK, Room, [Next]_vars PROVE TypeOK' /\ Room'
    OBVIOUS
  <1> USE ConnAssumption DEF Proc, Status
  <1>0. events' \in 0 .. MaxEvents
    BY DEF Next, Start, Periodic, EndRequest, HandleCallback, Client, Network, Event, vars, TypeOK
  <1>1. ASSUME NEW p \in Proc, ReadConfig(p) PROVE TypeOK' /\ Room'
    <2>1. UNCHANGED <<config, cached, drained, nats, new>>
      BY <1>1 DEF ReadConfig, Return, ReturnTo
    <2>2. /\ pc[p] = "config"
          /\ \E l \in {"idle", "cache"} : pc' = [pc EXCEPT ![p] = l]
          /\ force' \in {force, [force EXCEPT ![p] = FALSE]}
          /\ \E s \in Status : entry' = [entry EXCEPT ![p] = s]
          /\ srv' \in {srv, [srv EXCEPT ![p] = None]}
          /\ failed' \in {failed, [failed EXCEPT ![p] = FALSE]}
      BY <1>1 DEF ReadConfig, Return, ReturnTo, Goto, TypeOK
    <2> HIDE DEF Proc, Status
    <2>3. pc' \in [Proc -> Places] /\ entry' \in [Proc -> Status]
      BY <2>2 DEF TypeOK, Places
    <2>4. /\ force' \in [Proc -> BOOLEAN] /\ srv' \in [Proc -> Conn \cup {None}]
          /\ failed' \in [Proc -> BOOLEAN]
      BY <2>2 DEF TypeOK
    <2>5. \A q \in Proc : (new'[q] # None) <=> (pc'[q] = "register")
      BY <2>1, <2>2 DEF TypeOK
    <2> QED BY <1>0, <2>1, <2>3, <2>4, <2>5 DEF config, nats, TypeOK, Room, Places
  <1>2. ASSUME NEW p \in Proc, ReadCache(p) PROVE TypeOK' /\ Room'
    BY <1>0, <1>2 DEF ReadCache, NeedsConnection, Goto, config, nats, local, TypeOK, Room
  <1>3. ASSUME NEW p \in Proc, Connect(p) PROVE TypeOK' /\ Room'
    BY <1>0, <1>3 DEF Connect, Forgotten, Goto, config, nats, local, TypeOK, Room
  <1>4. ASSUME NEW p \in Proc, ConnectFails(p) PROVE TypeOK' /\ Room'
    BY <1>0, <1>4 DEF ConnectFails, Finish, Goto, config, nats, local, TypeOK, Room
  <1>5. ASSUME NEW p \in Proc, Register(p) PROVE TypeOK' /\ Room'
    <2>1. UNCHANGED <<config, drained, nats, force, entry>>
      BY <1>5 DEF Register
    <2>2. pc[p] = "register" /\ new' = [new EXCEPT ![p] = None]
      BY <1>5 DEF Register
    <2>3. /\ \E l \in {"close", "report"} : pc' = [pc EXCEPT ![p] = l]
          /\ cached' \in {cached, new[p]}
          /\ srv' \in {srv, [srv EXCEPT ![p] = None]}
          /\ failed' \in {failed, [failed EXCEPT ![p] = TRUE]}
      BY <1>5 DEF Register, Finish, Goto
    <2> HIDE DEF Proc, Status
    <2>4. pc' \in [Proc -> Places]
      BY <2>3 DEF TypeOK, Places
    <2>5. /\ cached' \in Conn \cup {None} /\ srv' \in [Proc -> Conn \cup {None}]
          /\ new' \in [Proc -> Conn \cup {None}] /\ failed' \in [Proc -> BOOLEAN]
      BY <2>2, <2>3 DEF TypeOK
    <2>6. \A q \in Proc : (new'[q] # None) <=> (pc'[q] = "register")
      BY <2>2, <2>3 DEF TypeOK
    <2> QED BY <1>0, <2>1, <2>4, <2>5, <2>6 DEF config, nats, TypeOK, Room, Places
  <1>6. ASSUME NEW p \in Proc, CloseOld(p) PROVE TypeOK' /\ Room'
    <2>1. Drain(srv[p])
      BY <1>6 DEF CloseOld
    <2>2. srv[p] \in Conn \cup {None}
      BY DEF TypeOK
    <2> QED BY <1>0, <1>6, <2>1, <2>2, DrainType DEF CloseOld, Finish, Goto, config, TypeOK
  <1>7. ASSUME NEW p \in Proc, Report(p) PROVE TypeOK' /\ Room'
    <2>1. status' \in Status /\ suspend' \in BOOLEAN
      BY <1>7 DEF Report, config, TypeOK
    <2>2. ReturnTo(p, "idle") \/ ReturnTo(p, "sync")
      BY <1>7 DEF Report, Return
    <2>3. /\ pc[p] = "report"
          /\ UNCHANGED <<cached, drained, conn, callbacks, natsUp>>
      BY <1>7 DEF Report, nats
    <2> PICK l \in {"idle", "sync"} : ReturnTo(p, l)
      BY <2>2
    <2>4. /\ pc' = [pc EXCEPT ![p] = l] /\ force' = [force EXCEPT ![p] = FALSE]
          /\ entry' = [entry EXCEPT ![p] = "none"] /\ srv' = [srv EXCEPT ![p] = None]
          /\ failed' = [failed EXCEPT ![p] = FALSE] /\ new' = new
      BY DEF ReturnTo, Goto
    <2> QED BY <1>0, <2>1, <2>3, <2>4 DEF TypeOK, Room
  <1>8. ASSUME NEW h \in Caller, Ensure(h) PROVE TypeOK' /\ Room'
    BY <1>0, <1>8 DEF Ensure, Call, Goto, config, nats, local, TypeOK, Room
  <1>9. ASSUME NEW h \in Caller, SyncDone(h) PROVE TypeOK' /\ Room'
    BY <1>0, <1>9 DEF SyncDone, Goto, config, nats, local, TypeOK, Room
  <1>10. ASSUME NEW h \in Caller, SyncFails(h) PROVE TypeOK' /\ Room'
    <2>1. Drain(cached)
      BY <1>10 DEF SyncFails
    <2>2. cached \in Conn \cup {None}
      BY DEF TypeOK
    <2> QED BY <1>0, <1>10, <2>1, <2>2, DrainType DEF SyncFails, Goto, config, TypeOK
  <1>11. ASSUME NEW c \in Conn, Callback(c) PROVE TypeOK' /\ Room'
    BY <1>0, <1>11 DEF Callback, Call, Goto, config, nats, local, TypeOK, Room
  <1>12. ASSUME NEW h \in Caller, \E s, changed \in BOOLEAN : WriteConfig(h, s, changed) PROVE TypeOK' /\ Room'
    BY <1>0, <1>12 DEF WriteConfig, Call, Goto, config, nats, local, TypeOK, Room
  <1>13. ASSUME NEW h \in Caller, DeleteConfig(h) PROVE TypeOK' /\ Room'
    BY <1>0, <1>13 DEF DeleteConfig, config, nats, local, TypeOK, Room
  <1>14. ASSUME NEW h \in Caller, SuspendInTx(h) PROVE TypeOK' /\ Room'
    <2>1. Drain(cached)
      BY <1>14 DEF SuspendInTx
    <2>2. cached \in Conn \cup {None}
      BY DEF TypeOK
    <2> QED BY <1>0, <1>14, <2>1, <2>2, DrainType DEF SuspendInTx, Goto, config, TypeOK
  <1>15. ASSUME NEW h \in Caller, CommitSuspend(h) PROVE TypeOK' /\ Room'
    BY <1>0, <1>15 DEF CommitSuspend, Return, ReturnTo, Goto, config, nats, local, TypeOK, Room
  <1>16. ASSUME NEW h \in Caller, RollbackSuspend(h) PROVE TypeOK' /\ Room'
    BY <1>0, <1>16 DEF RollbackSuspend, Return, ReturnTo, Goto, config, nats, local, TypeOK, Room
  <1>17. ASSUME NEW h \in Caller, Clean(h) PROVE TypeOK' /\ Room'
    <2>1. Drain(cached)
      BY <1>17 DEF Clean
    <2>2. cached \in Conn \cup {None}
      BY DEF TypeOK
    <2> QED BY <1>0, <1>17, <2>1, <2>2, DrainType DEF Clean, Goto, config, TypeOK
  <1>18. ASSUME NEW h \in Caller, Initialize(h) PROVE TypeOK' /\ Room'
    BY <1>0, <1>18 DEF Initialize, Call, Goto, config, nats, local, TypeOK, Room
  <1>19. CASE Crash
    BY <1>0, <1>19 DEF Crash, config, nats, local, TypeOK, Room
  <1>20. CASE NatsDown \/ NatsUp
    BY <1>0, <1>20 DEF NatsDown, NatsUp, config, nats, local, TypeOK, Room
  <1>21. ASSUME NEW c \in Conn, Lose(c) PROVE TypeOK' /\ Room'
    BY <1>0, <1>21 DEF Lose, SetConn, config, nats, local, TypeOK, Room
  <1>22. ASSUME NEW c \in Conn, Reconnect(c) PROVE TypeOK' /\ Room'
    BY <1>0, <1>22 DEF Reconnect, SetConn, config, nats, local, TypeOK, Room
  <1>23. ASSUME NEW c \in Conn, GiveUp(c) PROVE TypeOK' /\ Room'
    BY <1>0, <1>23 DEF GiveUp, SetConn, config, nats, local, TypeOK, Room
  <1>24. ASSUME NEW c \in Conn, DrainDone(c) PROVE TypeOK' /\ Room'
    BY <1>0, <1>24 DEF DrainDone, SetConn, config, nats, local, TypeOK, Room
  <1>25. ASSUME NEW p \in Proc, ReadFails(p) \/ ReportFails(p) PROVE TypeOK' /\ Room'
    <2>1. /\ UNCHANGED <<config, cached, drained, nats, new>>
          /\ pc[p] \in {"config", "report"}
          /\ pc' = [pc EXCEPT ![p] = "idle"] /\ force' = [force EXCEPT ![p] = FALSE]
          /\ entry' = [entry EXCEPT ![p] = "none"] /\ srv' = [srv EXCEPT ![p] = None]
          /\ failed' = [failed EXCEPT ![p] = FALSE]
      BY <1>25 DEF ReadFails, ReportFails, Return, ReturnTo, Goto
    <2> QED BY <1>0, <2>1 DEF config, nats, TypeOK, Room
  <1>26. CASE UNCHANGED vars
    BY <1>0, <1>26 DEF vars, config, nats, local, TypeOK, Room
  <1> QED BY <1>1, <1>2, <1>3, <1>4, <1>5, <1>6, <1>7, <1>8, <1>9, <1>10, <1>11, <1>12, <1>13, <1>14, <1>15, <1>16, <1>17, <1>18, <1>19, <1>20, <1>21, <1>22, <1>23, <1>24, <1>25, <1>26
          DEF Next, Start, Periodic, EndRequest, HandleCallback, Client, Network, Event

\* Every variable has its type, and a process holds a new connection exactly
\* while it is about to cache it.
THEOREM TypeCorrect == Spec => []TypeOK
  <1>1. Init => TypeOK /\ Room
    BY InitType
  <1>2. (TypeOK /\ Room) /\ [Next]_vars => (TypeOK /\ Room)'
    BY StepType
  <1> QED BY <1>1, <1>2, PTL DEF Spec

-----------------------------------------------------------------------------
(* The cached connection is not closed by the plugin.                       *)

\* At first nothing is cached and no start is under way.
LEMMA InitSafe == Init => Private /\ Replaced /\ CachedNotDrained
  BY DEF Init, Private, Replaced, CachedNotDrained

\* Steps that open, find, cache or close no connection; a start that returns or
\* fails lets go of the one it found.
LEMMA StepOthers ==
  ASSUME TypeOK, Private, Replaced, CachedNotDrained,
         UNCHANGED <<cached, drained, new>>,
         \A p \in Proc : /\ srv'[p] \in {srv[p], None}
                         /\ pc'[p] = "close" => pc[p] = "close"
  PROVE  Private' /\ Replaced' /\ CachedNotDrained'
  BY ConnAssumption DEF TypeOK, Private, Replaced, CachedNotDrained

\* The cached connection is closed and taken from the cache.
LEMMA StepPop ==
  ASSUME TypeOK, Room, Private, Replaced, CachedNotDrained,
         Drain(cached), cached' = None, UNCHANGED <<new, srv>>,
         \A p \in Proc : pc'[p] = "close" => pc[p] = "close"
  PROVE  Private' /\ Replaced' /\ CachedNotDrained'
  <1>1. \A d \in Conn : d # cached => drained'[d] = drained[d]
    BY DrainType DEF TypeOK
  <1>2. \A p \in Proc : new[p] # None => new[p] \in Conn
    BY DEF TypeOK
  <1> QED BY <1>1, <1>2, ConnAssumption DEF TypeOK, Private, Replaced, CachedNotDrained

\* A start caches what it has opened itself, and closes what it has replaced.
LEMMA StepSafe ==
  TypeOK /\ Room /\ Private /\ Replaced /\ CachedNotDrained /\ [Next]_vars
    => Private' /\ Replaced' /\ CachedNotDrained'
  <1> SUFFICES ASSUME TypeOK, Room, Private, Replaced, CachedNotDrained, [Next]_vars
               PROVE  Private' /\ Replaced' /\ CachedNotDrained'
    OBVIOUS
  <1> USE ConnAssumption DEF Proc
  <1>1. ASSUME NEW p \in Proc, ReadCache(p) PROVE Private' /\ Replaced' /\ CachedNotDrained'
    BY <1>1 DEF ReadCache, NeedsConnection, Goto, TypeOK, Private, Replaced, CachedNotDrained
  <1>2. ASSUME NEW p \in Proc, Connect(p) PROVE Private' /\ Replaced' /\ CachedNotDrained'
    <2> PICK c \in Conn : /\ Forgotten(c)
                          /\ drained' = [drained EXCEPT ![c] = FALSE]
                          /\ new' = [new EXCEPT ![p] = c]
      BY <1>2 DEF Connect
    <2>1. pc' = [pc EXCEPT ![p] = "register"] /\ UNCHANGED <<cached, srv>>
      BY <1>2 DEF Connect, Goto
    <2> QED BY <2>1 DEF Forgotten, TypeOK, Private, Replaced, CachedNotDrained
  <1>3. ASSUME NEW p \in Proc, Register(p) PROVE Private' /\ Replaced' /\ CachedNotDrained'
    <2>1. /\ new[p] \in Conn /\ drained' = drained
          /\ new' = [new EXCEPT ![p] = None]
      BY <1>3 DEF Register, TypeOK
    <2>2. CASE conn[new[p]] # "closed"
      <3>1. /\ cached' = new[p] /\ srv' = srv
            /\ pc' = [pc EXCEPT ![p] = "close"]
        BY <1>3, <2>2 DEF Register, Goto
      <3> QED BY <2>1, <3>1 DEF TypeOK, Private, Replaced, CachedNotDrained
    <2>3. CASE conn[new[p]] = "closed"
      <3>1. /\ cached' = cached /\ srv' = [srv EXCEPT ![p] = None]
            /\ pc' = [pc EXCEPT ![p] = "report"]
        BY <1>3, <2>3 DEF Register, Finish, Goto
      <3> QED BY <2>1, <3>1 DEF TypeOK, Private, Replaced, CachedNotDrained
    <2> QED BY <2>2, <2>3
  <1>4. ASSUME NEW p \in Proc, CloseOld(p) PROVE Private' /\ Replaced' /\ CachedNotDrained'
    <2>1. \A d \in Conn : d # srv[p] => drained'[d] = drained[d]
      BY <1>4, DrainType DEF CloseOld, TypeOK
    <2>2. /\ pc[p] = "close" /\ UNCHANGED <<cached, new>>
          /\ srv' = [srv EXCEPT ![p] = None] /\ pc' = [pc EXCEPT ![p] = "report"]
      BY <1>4 DEF CloseOld, Finish, Goto
    <2> QED BY <2>1, <2>2 DEF TypeOK, Private, Replaced, CachedNotDrained
  <1>5. ASSUME NEW h \in Caller, SyncFails(h) \/ SuspendInTx(h) \/ Clean(h)
        PROVE  Private' /\ Replaced' /\ CachedNotDrained'
    BY <1>5, StepPop DEF SyncFails, SuspendInTx, Clean, Goto, TypeOK
  <1>6. CASE Crash
    BY <1>6 DEF Crash, Private, Replaced, CachedNotDrained
  <1>7. ASSUME NEW p \in Proc, ReadConfig(p) \/ ConnectFails(p) \/ Report(p) \/ ReadFails(p) \/ ReportFails(p)
        PROVE  Private' /\ Replaced' /\ CachedNotDrained'
    BY <1>7, StepOthers
       DEF ReadConfig, ConnectFails, Report, ReadFails, ReportFails, Finish, Return, ReturnTo, Goto, TypeOK
  <1>8. ASSUME NEW h \in Caller,
               \/ Ensure(h) \/ SyncDone(h) \/ DeleteConfig(h)
               \/ CommitSuspend(h) \/ RollbackSuspend(h) \/ Initialize(h)
               \/ \E s, changed \in BOOLEAN : WriteConfig(h, s, changed)
        PROVE  Private' /\ Replaced' /\ CachedNotDrained'
    BY <1>8, StepOthers
       DEF Ensure, SyncDone, DeleteConfig, CommitSuspend, RollbackSuspend, Initialize,
           WriteConfig, Call, Return, ReturnTo, Goto, local, TypeOK
  <1>9. ASSUME NEW c \in Conn, Callback(c) PROVE Private' /\ Replaced' /\ CachedNotDrained'
    BY <1>9, StepOthers DEF Callback, Call, Goto, TypeOK
  <1>10. CASE UNCHANGED <<cached, drained, new, srv, pc>>
    BY <1>10, StepOthers
  <1> QED BY <1>1, <1>2, <1>3, <1>4, <1>5, <1>6, <1>7, <1>8, <1>9, <1>10
          DEF Next, Start, Periodic, EndRequest, HandleCallback, Client, Network, Event,
              NatsDown, NatsUp, Lose, Reconnect, GiveUp, DrainDone, SetConn, vars, local

\* The cache never holds a connection that CloseConnection was called on, however
\* many starts, suspensions and callbacks overlap.
THEOREM CacheCorrect == Spec => []CachedNotDrained
  <1>1. Init => Inv
    BY InitType, InitSafe DEF Inv
  <1>2. Inv /\ [Next]_vars => Inv'
    BY StepType, StepSafe DEF Inv
  <1>3. Inv => CachedNotDrained
    BY DEF Inv
  <1> QED BY <1>1, <1>2, <1>3, PTL DEF Spec
=============================================================================
