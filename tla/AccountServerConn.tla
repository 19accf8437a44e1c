------------------------- MODULE AccountServerConn --------------------------
(***************************************************************************)
(* The connections of one operator's account server to NATS.               *)
(*                                                                         *)
(* startAccountServer runs in request handlers, in the periodic function,  *)
(* and in the callbacks of the connections it has opened: NATS delivers    *)
(* the callbacks of a connection one after the other in a goroutine of     *)
(* that connection, here the process named after it.  The configuration is *)
(* in the storage and the current connection in accServerCache; nothing    *)
(* but the mutex of the cache orders the processes.                        *)
(***************************************************************************)
EXTENDS Naturals

CONSTANTS
  Conn,          \* connections; one that is closed and forgotten is used again
  Caller,        \* goroutines of the host: request handlers and the periodic function
  None,
  GivesUp,       \* whether max_reconnects is finite (0, the default, is)
  MaxCallbacks,  \* bound: callbacks of one connection that wait
  MaxEvents      \* bound: changes, failed pushes, storage errors, unloads, crashes and outages

Proc == Conn \cup Caller

ASSUME ConnAssumption ==
  /\ None \notin Conn
  /\ GivesUp \in BOOLEAN
  /\ MaxCallbacks \in Nat \ {0, 1}  \* a drained connection calls both handlers
  /\ MaxEvents \in Nat

VARIABLES
  status,    \* the stored configuration's Status.Status, "none" without a configuration
  suspend,   \* the stored configuration's Suspend
  cached,    \* accServerCache[op]: a connection or None
  conn,      \* conn[c]: the state of connection c as NATS's client has it
  drained,   \* drained[c]: CloseConnection was called on c
  callbacks, \* callbacks[c]: calls of c's handlers that wait for its goroutine
  events,    \* how many of them there were
  natsUp,    \* whether the NATS cluster can be reached
  pc,        \* where a process is
  force,     \* its parameter reconnect
  entry,     \* the Status.Status it read
  srv,       \* the connection it found in the cache
  new,       \* the connection it opened
  failed     \* its syncErr # nil

config == <<status, suspend>>
nats == <<conn, callbacks, natsUp>>
local == <<pc, force, entry, srv, new, failed>>
vars == <<config, cached, drained, nats, events, local>>

\* "created" stands for "suspended" too: neither has run since it was written.
Status == {"none", "created", "active", "error"}

\* Every variable has its type; a process holds a new connection exactly while
\* it is about to cache it, and counts a failure only without one.
TypeOK ==
  /\ status \in Status /\ suspend \in BOOLEAN
  /\ cached \in Conn \cup {None}
  /\ conn \in [Conn -> {"open", "reconnecting", "closed"}]
  /\ drained \in [Conn -> BOOLEAN]
  /\ callbacks \in [Conn -> 0 .. MaxCallbacks]
  /\ natsUp \in BOOLEAN /\ events \in 0 .. MaxEvents
  /\ pc \in [Proc -> {"idle", "config", "cache", "connect", "register", "close", "report", "sync", "commit", "unloaded"}]
  /\ force \in [Proc -> BOOLEAN]
  /\ entry \in [Proc -> Status]
  /\ srv \in [Proc -> Conn \cup {None}]
  /\ new \in [Proc -> Conn \cup {None}]
  /\ failed \in [Proc -> BOOLEAN]
  /\ \A p \in Proc : (new[p] # None) <=> (pc[p] = "register")

Init ==
  /\ status = "none" /\ suspend = FALSE
  /\ cached = None
  /\ conn = [c \in Conn |-> "closed"]
  /\ drained = [c \in Conn |-> FALSE]
  /\ callbacks = [c \in Conn |-> 0]
  /\ natsUp = TRUE /\ events = 0
  /\ pc = [p \in Proc |-> "idle"]
  /\ force = [p \in Proc |-> FALSE]
  /\ entry = [p \in Proc |-> "none"]
  /\ srv = [p \in Proc |-> None]
  /\ new = [p \in Proc |-> None]
  /\ failed = [p \in Proc |-> FALSE]

-----------------------------------------------------------------------------
Goto(p, l) == pc' = [pc EXCEPT ![p] = l]

\* startAccountServer is called.
Call(p, reconnect) ==
  /\ Goto(p, "config")
  /\ force' = [force EXCEPT ![p] = reconnect]

\* startAccountServer returns to l, and forgets its variables.
ReturnTo(p, l) ==
  /\ Goto(p, l)
  /\ force' = [force EXCEPT ![p] = FALSE]
  /\ entry' = [entry EXCEPT ![p] = "none"]
  /\ srv' = [srv EXCEPT ![p] = None]
  /\ failed' = [failed EXCEPT ![p] = FALSE]
  /\ UNCHANGED new

Return(p) == ReturnTo(p, "idle")

\* update_status is reached, with or without syncErr.
Finish(p, err) ==
  /\ Goto(p, "report")
  /\ srv' = [srv EXCEPT ![p] = None]
  /\ failed' = [failed EXCEPT ![p] = err]

\* CloseConnection: Drain closes a connection that waits to reconnect at once,
\* and calls its closed handler; an open one is closed by DrainDone.
Drain(c) ==
  IF c = None \/ conn[c] = "closed"
  THEN UNCHANGED <<drained, conn, callbacks>>
  ELSE /\ drained' = [drained EXCEPT ![c] = TRUE]
       /\ IF conn[c] = "reconnecting"
          THEN /\ conn' = [conn EXCEPT ![c] = "closed"]
               /\ callbacks' = [callbacks EXCEPT ![c] = @ + 1]
          ELSE UNCHANGED <<conn, callbacks>>

-----------------------------------------------------------------------------
(* startAccountServer.                                                      *)

\* The configuration is read from the storage, not from the caller's
\* transaction. Without one, or with a suspended one, nothing happens.
ReadConfig(p) ==
  /\ pc[p] = "config"
  /\ IF status = "none" \/ suspend
     THEN Return(p)
     ELSE /\ entry' = [entry EXCEPT ![p] = status]
          /\ Goto(p, "cache")
          /\ UNCHANGED <<force, srv, new, failed>>
  /\ UNCHANGED <<config, cached, drained, nats>>

\* The read fails, and with it the start, whatever it was called for.
ReadFails(p) ==
  /\ pc[p] = "config"
  /\ Return(p)
  /\ UNCHANGED <<config, cached, drained, nats>>

\* The mutant of NeedsConnection never opens the first one.
NeedsOnlyIfForced(p) == force[p]

\* The cached connection will do unless the caller wants a new one.
NeedsConnection(p) == force[p] \/ cached = None

ReadCache(p) ==
  /\ pc[p] = "cache"
  /\ IF NeedsConnection(p)
     THEN srv' = [srv EXCEPT ![p] = cached] /\ Goto(p, "connect")
     ELSE Goto(p, "report") /\ UNCHANGED srv
  /\ force' = [force EXCEPT ![p] = FALSE]
  /\ UNCHANGED <<config, cached, drained, nats, entry, new, failed>>

\* A connection nobody refers to any more.
Forgotten(c) ==
  /\ conn[c] = "closed" /\ callbacks[c] = 0 /\ pc[c] = "idle" /\ cached # c
  /\ \A p \in Proc : srv[p] # c /\ new[p] # c

\* NatsConnectionFunc succeeds while NATS can be reached and the callback
\* that signs the connection in finds the configuration.
Connect(p) ==
  /\ pc[p] = "connect" /\ natsUp /\ status # "none"
  /\ \E c \in Conn :
       /\ Forgotten(c)
       /\ conn' = [conn EXCEPT ![c] = "open"]
       /\ drained' = [drained EXCEPT ![c] = FALSE]
       /\ new' = [new EXCEPT ![p] = c]
  /\ Goto(p, "register")
  /\ UNCHANGED <<config, cached, callbacks, natsUp, force, entry, srv, failed>>

\* The mutant of ConnectFails goes on without a connection.
ConnectErrorIgnored(p) ==
  /\ pc[p] = "connect"
  /\ ~natsUp \/ status = "none" \/ \A c \in Conn : ~Forgotten(c)
  /\ Goto(p, "register")
  /\ UNCHANGED <<config, cached, drained, nats, force, entry, srv, new, failed>>

\* Otherwise it fails, also when the instance has run out of connections.
ConnectFails(p) ==
  /\ pc[p] = "connect"
  /\ ~natsUp \/ status = "none" \/ \A c \in Conn : ~Forgotten(c)
  /\ Finish(p, TRUE)
  /\ UNCHANGED <<config, cached, drained, nats, force, entry, new>>

\* NewAccountServer subscribes, which fails on a closed connection, and
\* putAccountServer caches the connection.
Register(p) ==
  /\ pc[p] = "register"
  /\ new' = [new EXCEPT ![p] = None]
  /\ IF conn[new[p]] # "closed"
     THEN cached' = new[p] /\ Goto(p, "close") /\ UNCHANGED <<srv, failed>>
     ELSE Finish(p, TRUE) /\ UNCHANGED cached
  /\ UNCHANGED <<config, drained, nats, force, entry>>

\* The connection that was in the cache when it was read is closed.
CloseOld(p) ==
  /\ pc[p] = "close"
  /\ Drain(srv[p])
  /\ Finish(p, FALSE)
  /\ UNCHANGED <<config, cached, natsUp, force, entry, new>>

\* update_status: a changed status (or, after a failure, a changed error) is
\* stored with the configuration as it was read, whatever became of it since.
\* A caller may have started the server to push an account's JWT with it.
Report(p) ==
  /\ pc[p] = "report"
  /\ LET now == IF failed[p] THEN "error" ELSE "active" IN
       \/ /\ entry[p] # now \/ failed[p]
          /\ status' = now /\ suspend' = FALSE
       \/ /\ entry[p] = now
          /\ UNCHANGED config
  /\ Return(p) \/ (p \in Caller /\ ~failed[p] /\ ReturnTo(p, "sync"))
  /\ UNCHANGED <<cached, drained, nats>>

\* The changed status cannot be stored.
ReportFails(p) ==
  /\ pc[p] = "report"
  /\ failed[p] \/ entry[p] # "active"
  /\ Return(p)
  /\ UNCHANGED <<config, cached, drained, nats>>

-----------------------------------------------------------------------------
(* The callers.                                                             *)

\* No request reaches a mount between clean and initialize.
Loaded == \A h \in Caller : pc[h] # "unloaded"

\* periodicFunc and every sync of an account.
Ensure(h) ==
  /\ pc[h] = "idle" /\ Loaded
  /\ Call(h, FALSE)
  /\ UNCHANGED <<config, cached, drained, nats, entry, srv, new, failed>>

\* syncAccountUpdate's push has been answered, or nobody answered in time.
SyncDone(h) ==
  /\ pc[h] = "sync"
  /\ Goto(h, "idle")
  /\ UNCHANGED <<config, cached, drained, nats, force, entry, srv, new, failed>>

\* The push fails, on a closed connection or with an error in the answer: the
\* connection in the cache is closed, be it the one that was used or another.
SyncFails(h) ==
  /\ pc[h] = "sync"
  /\ cached' = None
  /\ Drain(cached)
  /\ Goto(h, "idle")
  /\ UNCHANGED <<config, natsUp, force, entry, srv, new, failed>>

\* DisconnectErrHandler and ClosedHandler of connection c: both start again.
Callback(c) ==
  /\ pc[c] = "idle" /\ callbacks[c] > 0
  /\ callbacks' = [callbacks EXCEPT ![c] = @ - 1]
  /\ Call(c, TRUE)
  /\ UNCHANGED <<config, cached, drained, conn, natsUp, entry, srv, new, failed>>

\* pathAccountServerCreateUpdate with suspend = s and perhaps other changes
\* that count (changed); a change of servers alone does not.
WriteConfig(h, s, changed) ==
  /\ pc[h] = "idle" /\ Loaded
  /\ suspend' = s
  /\ status' = "created"
  /\ Call(h, status = "none" \/ s # suspend \/ changed)
  /\ UNCHANGED <<cached, drained, nats, entry, srv, new, failed>>

\* pathAccountServerDelete does not touch the connection.
DeleteConfig(h) ==
  /\ pc[h] = "idle" /\ Loaded
  /\ status' = "none" /\ suspend' = FALSE
  /\ UNCHANGED <<cached, drained, nats, local>>

\* The mutant of SuspendInTx closes the connection and leaves it cached.
SuspendNoPop(h) ==
  /\ pc[h] = "idle" /\ Loaded
  /\ entry' = [entry EXCEPT ![h] = status]
  /\ Drain(cached)
  /\ Goto(h, "commit")
  /\ UNCHANGED <<config, cached, natsUp, force, srv, new, failed>>

\* suspendAccountServer in the transaction of a handler that changes the
\* operator's JWT: the connection is closed before the commit.
SuspendInTx(h) ==
  /\ pc[h] = "idle" /\ Loaded
  /\ entry' = [entry EXCEPT ![h] = status]
  /\ cached' = None
  /\ Drain(cached)
  /\ Goto(h, "commit")
  /\ UNCHANGED <<config, natsUp, force, srv, new, failed>>

CommitSuspend(h) ==
  /\ pc[h] = "commit"
  /\ IF entry[h] = "none"
     THEN UNCHANGED config
     ELSE status' = entry[h] /\ suspend' = TRUE
  /\ Return(h)
  /\ UNCHANGED <<cached, drained, nats>>

\* A later step of the handler fails, or the commit does.
RollbackSuspend(h) ==
  /\ pc[h] = "commit"
  /\ Return(h)
  /\ UNCHANGED <<config, cached, drained, nats>>

\* clean, when the mount is unloaded, and initialize, when it is loaded again.
Clean(h) ==
  /\ pc[h] = "idle" /\ Loaded
  /\ cached' = None
  /\ Drain(cached)
  /\ Goto(h, "unloaded")
  /\ UNCHANGED <<config, natsUp, force, entry, srv, new, failed>>

Initialize(h) ==
  /\ pc[h] = "unloaded"
  /\ Call(h, FALSE)
  /\ UNCHANGED <<config, cached, drained, nats, entry, srv, new, failed>>

\* The plugin process dies, and is started again with the next call.
Crash ==
  /\ cached' = None
  /\ conn' = [c \in Conn |-> "closed"]
  /\ drained' = [c \in Conn |-> FALSE]
  /\ callbacks' = [c \in Conn |-> 0]
  /\ pc' = [p \in Proc |-> "idle"]
  /\ force' = [p \in Proc |-> FALSE]
  /\ entry' = [p \in Proc |-> "none"]
  /\ srv' = [p \in Proc |-> None]
  /\ new' = [p \in Proc |-> None]
  /\ failed' = [p \in Proc |-> FALSE]
  /\ UNCHANGED <<config, natsUp>>

-----------------------------------------------------------------------------
(* NATS and its client library.                                             *)

NatsDown == natsUp /\ natsUp' = FALSE /\ UNCHANGED <<config, cached, drained, conn, callbacks, local>>
NatsUp == ~natsUp /\ natsUp' = TRUE /\ UNCHANGED <<config, cached, drained, conn, callbacks, local>>

SetConn(c, state, calls) ==
  /\ conn' = [conn EXCEPT ![c] = state]
  /\ callbacks' = [callbacks EXCEPT ![c] = @ + calls]
  /\ UNCHANGED <<config, cached, drained, natsUp, local>>

\* An open connection is lost: the disconnect handler is called, and the
\* client tries to reconnect. At most one loss per callback taken (MaxCallbacks).
Lose(c) ==
  /\ ~natsUp /\ conn[c] = "open" /\ ~drained[c] /\ callbacks[c] + 3 <= MaxCallbacks
  /\ SetConn(c, "reconnecting", 1)

Reconnect(c) ==
  /\ natsUp /\ status # "none" /\ conn[c] = "reconnecting"
  /\ SetConn(c, "open", 0)

\* After max_reconnects attempts the client closes the connection.
GiveUp(c) ==
  /\ GivesUp /\ ~natsUp /\ conn[c] = "reconnecting"
  /\ SetConn(c, "closed", 1)

\* A drained connection is closed: both handlers are called.
DrainDone(c) ==
  /\ conn[c] = "open" /\ drained[c]
  /\ SetConn(c, "closed", 2)

-----------------------------------------------------------------------------
\* What the plugin, its host and NATS's client do by themselves.
Start(p) ==
  /\ \/ ReadConfig(p)
     \/ ReadCache(p)
     \/ Connect(p)
     \/ ConnectFails(p)
     \/ Register(p)
     \/ CloseOld(p)
     \/ Report(p)
  /\ UNCHANGED events

Periodic(h) == Ensure(h) /\ UNCHANGED events

EndRequest(h) ==
  /\ SyncDone(h) \/ CommitSuspend(h) \/ RollbackSuspend(h) \/ Initialize(h)
  /\ UNCHANGED events

HandleCallback(c) == Callback(c) /\ UNCHANGED events

Client(c) ==
  /\ Reconnect(c) \/ GiveUp(c) \/ DrainDone(c)
  /\ UNCHANGED events

Network ==
  /\ NatsUp \/ \E c \in Conn : Lose(c)
  /\ UNCHANGED events

\* What operators, the host and the network do to them.
Event ==
  /\ events < MaxEvents
  /\ events' = events + 1
  /\ \/ \E h \in Caller :
          \/ \E s, changed \in BOOLEAN : WriteConfig(h, s, changed)
          \/ SyncFails(h)
          \/ DeleteConfig(h)
          \/ SuspendInTx(h)
          \/ Clean(h)
     \/ \E p \in Proc : ReadFails(p) \/ ReportFails(p)
     \/ Crash
     \/ NatsDown

Next ==
  \/ \E p \in Proc : Start(p)
  \/ \E h \in Caller : Periodic(h) \/ EndRequest(h)
  \/ \E c \in Conn : HandleCallback(c) \/ Client(c)
  \/ Network
  \/ Event

\* Go runs every goroutine that can run, the NATS client keeps reconnecting
\* and draining, and the host calls the periodic function again and again.
Fairness ==
  /\ \A p \in Proc : WF_vars(Start(p))
  /\ \A h \in Caller : WF_vars(EndRequest(h)) /\ WF_vars(Periodic(h))
  /\ \A c \in Conn : WF_vars(HandleCallback(c)) /\ WF_vars(Client(c))

Spec == Init /\ [][Next]_vars
FairSpec == Spec /\ Fairness

-----------------------------------------------------------------------------
\* A connection that answers lookups.
Serving(c) == conn[c] = "open" /\ ~drained[c] /\ \A p \in Proc : new[p] # c

\* Nothing of the plugin is under way.
Quiet == (\A p \in Proc : pc[p] = "idle") /\ (\A c \in Conn : callbacks[c] = 0)

\* The cache never holds a connection that CloseConnection was called on: a
\* start makes the new connection before it breaks the one it found, and what
\* it found cannot come back, however many starts, suspensions and callbacks
\* overlap. A caller that takes it from the cache would push into the void.
CachedNotDrained == cached # None => ~drained[cached]

\* NATS can be reached, the configuration wants the server to run, and no
\* handler is closing the connection.
Calm ==
  /\ natsUp /\ status # "none" /\ ~suspend
  /\ \A h \in Caller : pc[h] \notin {"commit", "unloaded"}

\* The client library has closed the cached connection after max_reconnects
\* attempts, and the starts of its callbacks have failed or are still to come.
GivenUp == cached # None /\ conn[cached] = "closed"

\* Once it is calm for good, some connection answers lookups for good, although
\* each one that replaces another makes the other's callbacks start again. The
\* exception is a connection that stays in the cache although the client has given
\* it up, as a start without reconnect keeps it (startAccountServer tests srv == nil
\* alone), and with max_reconnects = 0, the default, the client does give up; see
\* ActiveNotClosed.
StaysReachable == <>[]Calm => <>[](\E c \in Conn : Serving(c)) \/ <>[]GivenUp

\* docs/API.md:504: "Whether all account server operations should be paused."
\* With suspend set and nothing under way, no connection answers lookups.
SuspendedNotServing == Quiet /\ suspend => \A c \in Conn : ~Serving(c)

\* docs/API.md:579: "The server is active and not erroring." With the status
\* active and nothing under way, the cached connection has not been closed.
ActiveNotClosed == Quiet /\ status = "active" /\ cached # None => conn[cached] # "closed"
=============================================================================
