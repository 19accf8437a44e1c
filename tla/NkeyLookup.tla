----------------------------- MODULE NkeyLookup -----------------------------
(***************************************************************************)
(* Account lookups: NATS asks the account server of an operator for the JWT *)
(* of an account by its public key, and the plugin finds the account's name *)
(* in a cache that all operators share behind one RWMutex (accCacheLock).   *)
(*                                                                          *)
(* A process stands for the goroutine that delivers the lookup subscription *)
(* of one operator's connection; it handles one request at a time.  The     *)
(* storage changes under it with every account created, rotated or deleted. *)
(* TrustChain!SubjectFresh is used for the storage: the stored JWT of an    *)
(* account is the JWT of its stored key, so one number stands for both.     *)
(***************************************************************************)
EXTENDS Naturals

CONSTANTS
  Operator,   \* operators with a connected account server
  Account,    \* account names (the same names exist under every operator)
  None,       \* no account
  Bound,      \* whether a message knows its connection: with natsConn it does not
  Fails,      \* whether reads of the storage may fail
  MaxKeys     \* bound: account keys minted in a behaviour

ASSUME LookupAssumption ==
  /\ None \notin Account
  /\ Bound \in BOOLEAN /\ Fails \in BOOLEAN
  /\ MaxKeys \in Nat

VARIABLES
  key,      \* key[p][a]: the stored identity key (and JWT) of account a of operator p, 0 for none
  owner,    \* owner[k]: the operator key k was minted for
  minted,   \* how many keys were minted
  cache,    \* accNkeyToNameCache: cache[p][k] is an account name or None
  held,     \* a read lock of accCacheLock was leaked: it is held until the process ends
  waiting,  \* operators whose goroutine waits in accCacheLock.Lock()
  pc,       \* where the goroutine of an operator is
  req,      \* the key it was asked for
  todo,     \* account names the refresh has still to visit
  found,    \* the account name the cache gave, or the one the refresh is writing
  entry,    \* the key the refresh is writing
  steady,   \* whether the requested key was in storage ever since the request
  failed,   \* history: a read of the storage failed in the lookup
  answer,   \* the last answer: the key the JWT is for, 0 for the empty response
  up        \* FALSE after a panic, until the plugin process is started again

storage == <<key, owner, minted>>
local == <<req, todo, found, entry>>
vars == <<key, owner, minted, cache, held, waiting, pc, req, todo, found, entry, steady,
          failed, answer, up>>

Key == 1 .. MaxKeys
NoAnswer == MaxKeys + 1

\* Every variable has its type, and a refresh that is about to take the lock
\* (writeAccountToCache) holds the account and the key it is going to write.
TypeOK ==
  /\ key \in [Operator -> [Account -> 0 .. MaxKeys]]
  /\ owner \in [Key -> Operator \cup {None}]
  /\ minted \in 0 .. MaxKeys
  /\ cache \in [Operator -> [Key -> Account \cup {None}]]
  /\ held \in BOOLEAN
  /\ waiting = {p \in Operator : pc[p] = "wait"}
  /\ pc \in [Operator -> {"idle", "first", "list", "lock", "wait", "second", "read", "empty"}]
  /\ req \in [Operator -> 0 .. MaxKeys]
  /\ todo \in [Operator -> SUBSET Account]
  /\ found \in [Operator -> Account \cup {None}]
  /\ entry \in [Operator -> 0 .. MaxKeys]
  /\ \A p \in Operator : pc[p] \in {"lock", "wait"} => found[p] # None /\ entry[p] # 0
  /\ steady \in [Operator -> BOOLEAN]
  /\ failed \in [Operator -> BOOLEAN]
  /\ answer \in [Operator -> 0 .. NoAnswer]
  /\ up \in BOOLEAN

Init ==
  /\ key = [p \in Operator |-> [a \in Account |-> 0]]
  /\ owner = [k \in Key |-> None]
  /\ minted = 0
  /\ cache = [p \in Operator |-> [k \in Key |-> None]]
  /\ held = FALSE
  /\ waiting = {}
  /\ pc = [p \in Operator |-> "idle"]
  /\ req = [p \in Operator |-> 0]
  /\ todo = [p \in Operator |-> {}]
  /\ found = [p \in Operator |-> None]
  /\ entry = [p \in Operator |-> 0]
  /\ steady = [p \in Operator |-> FALSE]
  /\ failed = [p \in Operator |-> FALSE]
  /\ answer = [p \in Operator |-> NoAnswer]
  /\ up = TRUE

Stored(p) == {key[p][a] : a \in Account} \ {0}

-----------------------------------------------------------------------------
(* Storage: account handlers and rotations, as far as lookups see them.     *)

\* A requested key that leaves the storage is not steady any more.
Unsteady(p, k) ==
  steady' = [steady EXCEPT ![p] = steady[p] /\ req[p] # k]

\* createAccountNkeyAndJwt, pathAccountCreateUpdate (no key before) and
\* pathRotateAccount (a key before).
MintKey(p, a) ==
  /\ minted < MaxKeys
  /\ minted' = minted + 1
  /\ key' = [key EXCEPT ![p][a] = minted + 1]
  /\ owner' = [owner EXCEPT ![minted + 1] = p]
  /\ Unsteady(p, key[p][a])
  /\ UNCHANGED <<cache, held, waiting, pc, local, failed, answer, up>>

\* deleteAccount.
DeleteAccount(p, a) ==
  /\ key[p][a] # 0
  /\ key' = [key EXCEPT ![p][a] = 0]
  /\ Unsteady(p, key[p][a])
  /\ UNCHANGED <<owner, minted, cache, held, waiting, pc, local, failed, answer, up>>

-----------------------------------------------------------------------------
(* accountNameFromNkey and accountJwtLookupFunc, one step per lock section  *)
(* and per read of the storage.                                             *)

Goto(p, l) == pc' = [pc EXCEPT ![p] = l]

\* RLock succeeds while no writer holds the mutex or waits for it.
CanRead == waiting = {}

\* The answer is sent, and what the lookup held in variables is gone.
Respond(p, ans) ==
  /\ Goto(p, "idle")
  /\ answer' = [answer EXCEPT ![p] = ans]
  /\ todo' = [todo EXCEPT ![p] = {}]
  /\ found' = [found EXCEPT ![p] = None]
  /\ entry' = [entry EXCEPT ![p] = 0]
  /\ UNCHANGED req

\* accountLookupRequest for key k.
Request(p, k) ==
  /\ up /\ pc[p] = "idle"
  /\ Goto(p, "first")
  /\ req' = [req EXCEPT ![p] = k]
  /\ steady' = [steady EXCEPT ![p] = k \in Stored(p)]
  /\ failed' = [failed EXCEPT ![p] = FALSE]
  /\ answer' = [answer EXCEPT ![p] = NoAnswer]
  /\ UNCHANGED <<storage, cache, held, waiting, todo, found, entry, up>>

\* A hit in the cache. The function returns without RUnlock, in the first
\* section as in the second: the read lock stays held.
Hit(p, section) ==
  /\ up /\ pc[p] = section /\ CanRead
  /\ cache[p][req[p]] # None
  /\ held' = TRUE
  /\ found' = [found EXCEPT ![p] = cache[p][req[p]]]
  /\ Goto(p, "read")
  /\ UNCHANGED <<storage, cache, waiting, req, todo, entry, steady, failed, answer, up>>

\* A miss in the first section releases the lock, and the refresh begins. It
\* visits the accounts listed a page at a time: those stored now, and perhaps
\* some that are created while it runs.
FirstMiss(p) ==
  /\ up /\ pc[p] = "first" /\ CanRead
  /\ cache[p][req[p]] = None
  /\ \E T \in SUBSET Account : /\ {a \in Account : key[p][a] # 0} \subseteq T
                               /\ todo' = [todo EXCEPT ![p] = T]
  /\ Goto(p, "list")
  /\ UNCHANGED <<storage, cache, held, waiting, req, found, entry, steady, failed, answer, up>>

\* The mutant of VisitAccount stops the listing after the first account.
VisitOnlyOne(p) ==
  /\ up /\ pc[p] = "list"
  /\ \E a \in todo[p] :
       /\ todo' = [todo EXCEPT ![p] = {}]
       /\ IF key[p][a] # 0
          THEN /\ found' = [found EXCEPT ![p] = a]
               /\ entry' = [entry EXCEPT ![p] = key[p][a]]
               /\ Goto(p, "lock")
          ELSE UNCHANGED <<found, entry, pc>>
  /\ UNCHANGED <<storage, cache, held, waiting, req, steady, failed, answer, up>>

\* The mutant of VisitAccount takes an account without nkey for one with.
VisitUnchecked(p) ==
  /\ up /\ pc[p] = "list"
  /\ \E a \in todo[p] :
       /\ todo' = [todo EXCEPT ![p] = @ \ {a}]
       /\ found' = [found EXCEPT ![p] = a]
       /\ entry' = [entry EXCEPT ![p] = key[p][a]]
       /\ Goto(p, "lock")
  /\ UNCHANGED <<storage, cache, held, waiting, req, steady, failed, answer, up>>

\* The refresh reads the nkey of the next account; one without is skipped.
VisitAccount(p) ==
  /\ up /\ pc[p] = "list"
  /\ \E a \in todo[p] :
       /\ todo' = [todo EXCEPT ![p] = @ \ {a}]
       /\ IF key[p][a] # 0
          THEN /\ found' = [found EXCEPT ![p] = a]
               /\ entry' = [entry EXCEPT ![p] = key[p][a]]
               /\ Goto(p, "lock")
          ELSE UNCHANGED <<found, entry, pc>>
  /\ UNCHANGED <<storage, cache, held, waiting, req, steady, failed, answer, up>>

\* writeAccountToCache: Lock waits for every reader and keeps new ones out.
AwaitLock(p) ==
  /\ up /\ pc[p] = "lock"
  /\ waiting' = waiting \cup {p}
  /\ Goto(p, "wait")
  /\ UNCHANGED <<storage, cache, held, local, steady, failed, answer, up>>

\* The mutant of WriteCache keys the cache by the account key alone, so that
\* an entry of one operator is an entry of all.
WriteCacheShared(p) ==
  /\ up /\ pc[p] = "wait" /\ ~held
  /\ cache' = [q \in Operator |-> [cache[q] EXCEPT ![entry[p]] = found[p]]]
  /\ waiting' = waiting \ {p}
  /\ Goto(p, "list")
  /\ UNCHANGED <<storage, held, local, steady, failed, answer, up>>

WriteCache(p) ==
  /\ up /\ pc[p] = "wait" /\ ~held
  /\ cache' = [cache EXCEPT ![p][entry[p]] = found[p]]
  /\ waiting' = waiting \ {p}
  /\ Goto(p, "list")
  /\ UNCHANGED <<storage, held, local, steady, failed, answer, up>>

RefreshDone(p) ==
  /\ up /\ pc[p] = "list" /\ todo[p] = {}
  /\ Goto(p, "second")
  /\ UNCHANGED <<storage, cache, held, waiting, local, steady, failed, answer, up>>

\* An error ends the lookup without the key: of the refresh, when it lists a
\* page of accounts or reads a key (what it has written stays in the cache, and is
\* not looked at), and of reading the JWT.
StorageFails(p, section) ==
  /\ up /\ Fails /\ pc[p] = section
  /\ failed' = [failed EXCEPT ![p] = TRUE]
  /\ Goto(p, "empty")
  /\ UNCHANGED <<storage, cache, held, waiting, local, steady, answer, up>>

\* The empty response: an error, or not in the cache after the refresh either.
Absent(p) ==
  \/ pc[p] = "empty"
  \/ pc[p] = "second" /\ CanRead /\ cache[p][req[p]] = None

RespondEmpty(p) ==
  /\ up /\ Bound /\ Absent(p)
  /\ Respond(p, 0)
  /\ UNCHANGED <<storage, cache, held, waiting, steady, failed, up>>

\* accountJwtLookupFunc reads the account's JWT by name.
ReadJwt(p) ==
  /\ up /\ Bound /\ pc[p] = "read" /\ key[p][found[p]] # 0
  /\ Respond(p, key[p][found[p]])
  /\ UNCHANGED <<storage, cache, held, waiting, steady, failed, up>>

\* There is no JWT under the cached name: jwt.Token dereferences nil. Nor can
\* any answer be sent over natsConn: the message's subscription, made without
\* its connection, has Respond publish on a nil one.
Panics(p) ==
  IF pc[p] = "read" THEN ~Bound \/ key[p][found[p]] = 0 ELSE ~Bound /\ Absent(p)

\* A panic in the goroutine of the subscription ends the plugin's process.
Panic(p) ==
  /\ up /\ Panics(p)
  /\ up' = FALSE
  /\ UNCHANGED <<storage, cache, held, waiting, pc, local, steady, failed, answer>>

\* The host starts the plugin again: the cache and the mutex are new.
Restart ==
  /\ ~up
  /\ up' = TRUE
  /\ cache' = [p \in Operator |-> [k \in Key |-> None]]
  /\ held' = FALSE
  /\ waiting' = {}
  /\ pc' = [p \in Operator |-> "idle"]
  /\ req' = [p \in Operator |-> 0]
  /\ todo' = [p \in Operator |-> {}]
  /\ found' = [p \in Operator |-> None]
  /\ entry' = [p \in Operator |-> 0]
  /\ steady' = [p \in Operator |-> FALSE]
  /\ failed' = [p \in Operator |-> FALSE]
  /\ answer' = [p \in Operator |-> NoAnswer]
  /\ UNCHANGED storage

Step(p) ==
  \/ Hit(p, "first")
  \/ FirstMiss(p)
  \/ VisitAccount(p)
  \/ AwaitLock(p)
  \/ WriteCache(p)
  \/ RefreshDone(p)
  \/ Hit(p, "second")
  \/ StorageFails(p, "list")
  \/ StorageFails(p, "read")
  \/ RespondEmpty(p)
  \/ ReadJwt(p)
  \/ Panic(p)

Next ==
  \/ \E p \in Operator, a \in Account : MintKey(p, a) \/ DeleteAccount(p, a)
  \/ \E p \in Operator, k \in Key : Request(p, k)
  \/ \E p \in Operator : Step(p)
  \/ Restart

\* The Go scheduler runs every goroutine that can run, and the host restarts
\* a plugin that died. Nobody has to ask or to change accounts.
Fairness == WF_vars(Restart) /\ \A p \in Operator : WF_vars(Step(p))

Spec == Init /\ [][Next]_vars
FairSpec == Spec /\ Fairness

-----------------------------------------------------------------------------
\* NATS is told that an account does not exist (the empty response) only if
\* its key was missing from the storage at some moment of the lookup, whatever
\* other lookups, rotations and deletions run beside it. A client of a live
\* account would be refused otherwise. The exception is a lookup in which a read
\* of the storage failed, whose error is answered in the same way; see
\* EmptyMeansAbsent.
NoFalseAbsence ==
  \A p \in Operator : pc[p] = "idle" /\ answer[p] = 0 => ~steady[p] \/ failed[p]

\* account_server.go:79: "if the jwt is not found "" will be returned. An empty
\* response is valid to signal absence of a jwt." It signals nothing else.
EmptyMeansAbsent ==
  \A p \in Operator : pc[p] = "idle" /\ answer[p] = 0 => ~steady[p]

\* A name in an operator's cache is for a key minted for an account of that
\* operator, and the JWT an operator's account server returns is for a key of
\* that operator: the lock and the refresh are shared, the accounts are not.
OperatorsSeparate ==
  \A p \in Operator :
    /\ \A k \in Key : cache[p][k] # None => owner[k] = p
    /\ answer[p] \in Key => owner[answer[p]] = p

\* account_server.go:79: "if the jwt is not found "" will be returned. An empty
\* response is valid to signal absence of a jwt." Every lookup gets a response
\* (or dies with the process).
EveryLookupAnswered ==
  \A p \in Operator : pc[p] # "idle" ~> pc[p] = "idle"

\* docs/Home.md:263: "... as well as responding to account lookup requests."
\* Now and then a lookup is answered, if lookups keep coming.
LookupsRespondedTo ==
  \A p \in Operator : ([]<>(pc[p] # "idle")) => <>(answer[p] # NoAnswer)
=============================================================================
