# TLA+ models of the OpenBao NATS secrets plugin

The plugin is a secrets engine that keeps, in OpenBao's storage, the chain of
trust of NATS deployments (operators, accounts, users, their keys and JWTs),
hands out user credentials, and runs an *account server* per operator: a NATS
connection that pushes account JWTs to the cluster and answers its account
lookups. This directory models that system in TLA+, checks the models with TLC,
and proves what matters most about its core with TLAPS. All source paths below
are relative to `src/`.

## Inventory

| Component | State | Operations | Interacts with |
|---|---|---|---|
| Trust chain: `path_operators.go`, `path_keys.go`, `path_rotate.go`, `path_accounts.go`, `path_jwts.go` | operator entries, identity and signing keys, account entries, operator and account JWTs, all in storage | create, update, delete, rotate; each issues the JWTs it affects | suspends the account server in its transaction; syncs accounts after it |
| Account server connections: `startAccountServer`, `suspendAccountServer`, `clean`, `initialize` in `backend.go`, `path_account_servers.go` | configuration with status (storage), `accServerCache` behind a mutex, connections of the NATS client | write and delete the configuration, start, suspend, unload; disconnected and closed callbacks | called by requests, the periodic function, and its own connections' callbacks |
| Account lookups: `accountNameFromNkey`, `refreshNkeyCache`, `accountJwtLookupFunc` in `backend.go`, `pkg/accountserver` | `accNkeyToNameCache` behind `accCacheLock`, shared by all operators | lookup, refresh | read the accounts' keys and JWTs while handlers change them |
| Users, credentials, revocations: `path_users.go`, `path_creds.go`, `path_revocations.go`, pruning in `backend.go` | users, their keys, revocation entries, the list in the account JWT, what NATS was given | write, delete, rotate users; issue credentials; write, delete, prune revocations; revoke leases | issue the account JWT, in or after the transaction, and push it |
| Sync of accounts: `syncAccountUpdate`, `syncAccountRotate`, `syncAccountDelete`, `updateAccountSyncStatus` in `path_accounts.go`, `pkg/accountserver` | `Status.Sync` in the account entry, what NATS has for each account key | push an account JWT, have an account key forgotten, note the outcome | after (for a deletion: before) the commit of the handler; starts the account server; a failed push closes it |
| Account claims: `path_account_imports.go`, the signing key handlers of `path_keys.go`, `path_rotate.go`, `enrichAccountClaims` in `path_jwts.go` | raw claims, imports and signing keys, each under paths of its own; the JWT made from them | write, delete, rotate; issue the JWT and sync it | `Creds` of users and ephemeral users are signed with these keys |
| Storage transactions: `pkg/shimtx` | a log of pending writes | begin, Get, Put, Delete, List, ListPage, Commit, Rollback | every handler, through `StartTxStorageWithShim` and `EndTxStorage` |
| Ephemeral users: `path_ephemeral_users.go`, `path_ephemeral_creds.go` | an entry; keys are minted with each credential and not kept | write, delete, issue credentials | as users, without revocation |
| Mount configuration, read, list and utility handlers | one entry | write, read | parameters of the others |
| `pkg/abstractnats`, `cmd` | none | adapter to nats.go and its mock; entry point | |

What is hard in this code:

* **Consistency over many paths.** An operator or account is spread over several
  storage entries; each handler decides by its own dirty flags which tokens to
  issue again, and the handlers pick the accounts concerned by different criteria.
* **After the commit.** Handlers go on when their transaction is over: they issue
  JWTs, push them, start connections. Errors, crashes and other requests fit in.
* **Callbacks.** A connection that is replaced calls back, and its callbacks
  replace the connection that replaced it.
* **One lock for all.** Lookups of every operator share a cache and an RWMutex.
* **A push is not a transaction.** What NATS has, what is stored and what the sync
  status says are three things, written in separate steps by several requests.
* **Transactions by hand.** Over a storage without transactions the shim commits
  write by write, and weaves its log into listings that it fetches page by page.
* **Time.** Revocations expire and are pruned; credentials must not outlive them.

`PROJECT.json` lists each hazard at its line, with the property that would catch
it or the reason why none does.

## Modules

| Module | Models | Checked by |
|---|---|---|
| `TrustChain` | one operator with everything under it, a transaction per step | run `trust_chain`, `TrustChainProofs` |
| `NkeyLookup` | lookups of several operators, a step per lock section and storage read | `nkey_lookup`, `nkey_lookup_live`, `nkey_lookup_bound`, `NkeyLookupProofs` |
| `AccountServerConn` | the connections of one operator's account server, a step per read, write and call | `conn`, `conn_live`, `AccountServerConnProofs` |
| `UserRevocation` | one account and user name, a step per transaction and then per read and effect | `revocation`, `UserRevocationProofs` |
| `AccountClaims` | what the JWT of one account says and who signs credentials, a step per transaction and then per read, write and push | `claims`, `AccountClaimsProofs` |
| `AccountSync` | telling NATS about one account, a step per transaction, storage access and request to NATS | `sync`, `sync_deleted`, `AccountSyncProofs` |
| `TxStore` | what a storage transaction promises (abstract) | refined by `ShimTx` |
| `ShimTx` | the transactions of `pkg/shimtx`, a step per call to the storage | `shim`, `ShimTxProofs` |
| `ShimList` (over `ShimTx`) | `List`, `ListPage` and the caller's loop over pages, as operators | `shim`, `shim_list_pages`, `ShimListProofs` |

They share the storage but are checked one by one. `TrustChain!SubjectFresh` is
what lets `NkeyLookup` use one number for an account's key and its JWT, and
`TrustChain!Suspended` is the transaction that `AccountServerConn!SuspendInTx`
takes apart. `AccountSync!Started`, `NotStarted`, `NoConnection` and `StartFails` are
the four ways `startAccountServer` ends for a sync, which `AccountServerConn` takes
apart. `AccountClaims` and `UserRevocation` divide the claims of the account JWT:
signing keys and imports here, revocations there. `AccountClaims` and `AccountSync`
divide the sync: what is pushed and what a write-back of the entry does to the claims
here, the requests to NATS and what the status says there. Every module takes a handler's
transaction for one atomic step, which is what `TxStore` promises and `ShimTx` is
shown to keep, for one request at a time and without faults.

Some definitions are preceded by a faulty variant (`SignedBy` by `SignedByNone`,
and so on). No behaviour uses one. Replacing the definition by its variant has
to break the property that `PROJECT.json` names under `mutants`.

### TrustChain

A key is a number: `nkey[o]` is the public key stored for owner `o`, 0 for none,
and `minted` counts the keys generated. A JWT is what later steps depend on: the
issuer and subject of an account JWT; the subject, signing keys and system
account of an operator JWT. Of an operator's raw claims the model keeps whether they
declare a signing key (`raw`, `RawKey`); other claims are abstracted to the flag
`claimsChanged`, which makes the JWT dirty. `deployed` is the set of keys in the operator JWT that
an administrator installed in NATS, a manual step the documentation asks for.

Handlers run in one transaction, so each is one action; a handler that returns an
error has no effect and is a disabled action. `IssueOperator` is
`issueAndSaveOperatorJWT`, `SigningKeysOf` its signing keys as `enrichOperatorClaims`
leaves them: the stored ones, or the declared one while none is stored; `SignerOf` the key selection of
`issueAndSaveAccountJWT` (named key, default key, identity key), `Reissue` the
loops that call it. `OperatorUpdate` follows the order of
`pathOperatorCreateUpdate`: retire the old system account, create or mark the new
one, issue the operator JWT and suspend, reissue for a new default key. The
definitions from `Moved` to `ToReissue` are its intermediate values. Two details
of the code are visible on purpose: `AccountDelete` issues the operator JWT before
the key is gone, so it still names the account; `OperatorDelete` leaves the
operator signing keys.

* `SignerFresh`, the main property: an account JWT in storage is signed by the key
  its configuration resolves to now. Rotations select accounts by the issuer in
  the token, the signing key handlers by name, the operator handler by an empty
  name; the property says the three selections miss nobody.
* `SubjectFresh`, `OperatorJwtFresh`, `OneSystemAccount`: entries, keys and JWTs
  belong together. `OperatorJwtFresh` says that the operator JWT is what issuing it
  now would give, which is not what the documentation says of declared signing keys
  (`SigningKeysMerged`, which fails).
* `RunningServerTrusted`: a running account server has nothing to push that NATS
  does not trust. Keys of signing keys that were created beside a running server since
  an operator JWT was last installed (the history `created`) are an exception, as
  creating one does not suspend the server; that it should is `KeyChangeSuspends`, which
  fails. The guard of `AccountServerWrite` says that administrators resume a server
  only when NATS has the current operator JWT.

### NkeyLookup

A process is the goroutine that delivers one operator's lookup subscription.
`held` says that a read lock was leaked (`accountNameFromNkey` returns a hit
without unlocking), `waiting` who waits in `Lock()`, which keeps readers out as
Go's RWMutex does. A refresh lists the accounts (those there at its start, perhaps
later ones) and reads each key when it gets to it. With `Fails`, a read of the
refresh or of the JWT may fail (`StorageFails`), which ends the lookup with the empty
response, as an absence does. A lookup may end in a panic
that takes the process down; `Restart` brings it back with empty memory.

`Bound` says whether a message knows its connection. It does for the mock
connection of the tests. For `natsConn`, the adapter in production, it does not:
its subscription is made without the connection, and responding panics. The runs
of `NoFalseAbsence`, `OperatorsSeparate` and `EveryLookupAnswered` set `Bound` to
TRUE, as they are about the lookup and not the adapter; so the deadlock of the
leaked lock is today hidden behind the panic.

* `NoFalseAbsence`: an absent answer means the key was absent at some moment of
  the lookup, or that a read failed in it. The ghost `steady` follows the requested key
  for this, `failed` the reads. Without the exception the property is
  `EmptyMeansAbsent`, and fails.
* `OperatorsSeparate`: the shared cache never mixes operators.

### AccountServerConn

Processes are the `Caller`s (request handlers, the periodic function) and the
connections, whose goroutine runs their callbacks. `startAccountServer` is split
where another process can come between: `ReadConfig`, `ReadCache`, `Connect` or
`ConnectFails`, `Register` (subscribe and put in the cache), `CloseOld`, `Report`.
`Report` writes back the configuration *as it was read*. A caller may then push an
account JWT (`SyncDone`, `SyncFails`); a failing push closes the connection that
is cached by then. `ReadFails` and `ReportFails` are the storage's errors.
`SuspendInTx` closes the connection inside a transaction that `CommitSuspend` or
`RollbackSuspend` ends. `Event` groups what is bounded: configuration changes,
suspensions, failing pushes, reads and writes, unloads, crashes, outages.

The NATS client is external, modelled from how the plugin uses it: the disconnect
handler runs when an open connection is lost, it reconnects by itself or gives up
after `max_reconnects` (`GivesUp`), `Drain` closes a connection later and then
calls both handlers, at once on one that is reconnecting. (The plugin passes 0 when
`max_reconnects` is unset, which the client takes literally.)

* `CachedNotDrained`: the cache never holds a connection told to close.
* `StaysReachable`: when all is calm, some connection ends up serving for good. It is
  checked with a client that gives up, the default, and excepts what that leads to: a
  closed connection that stays in the cache (`GivenUp`), because a start without
  reconnect asks only whether there is one.

### UserRevocation

One account, one user name, several keys. A transaction is a step; what follows is
a step per storage read and effect: `IssueRead` and `IssueWrite` for
`issueAndSaveAccountJWT` outside a transaction, `SyncRead` and `Push` for the sync.
`Periodic` is the pruning in the transaction of `periodicFunc`, whose push reads
outside of it; it is one step only on a storage with transactions, as `periodicFunc`
does not use the shim (`backend.go:401`). With `Failures`, anything after a commit may fail or the process
end. Time is a clock of ticks, ttls are numbers of ticks.

Histories say what a property may expect: `owed` holds keys whose entry was
written and not issued, `retired` keys revoked because their user was deleted or
rotated, `confirmed` the last revocation that was pushed.

* `RevocationsListed`: an issued JWT lists all stored revocations.
* `RevokedAtNats`: what NATS was told about a revocation is not taken back.
* `RetiredRefused`: the revocation of a retired key outlives its credentials that
  expire, although `creds_max_ttl` may have been lowered since. The system's
  `MaxLeaseTTL` is a constant, while the code reads it in each request
  (`path_users.go:386`, `path_creds.go:148`): lowering it in between is not covered.

**One handler at a time.** The pass run has one `Handler`, with the periodic
function, failures and the clock beside it. With two the code does violate the
properties: `RevocationsListed` (a request reads the list, another one rotates
the user and issues, the first stores the JWT with the older list), `RevokedAtNats`
(a request reads the JWT it is going to push, the revocation is deleted and written
again, the request pushes the JWT that lacks it) and `RetiredRefused` (a credentials
request reads the key, the user is deleted or rotated, time passes, the credentials
are signed, later than the revocation). TLC finds each with `Handler = {h1, h2}`.

### AccountClaims

One account with its signing keys, imports and users. The entry keeps whether the
raw claims declare an import and a signing key of their own (`raw`), and the name of
the default signing key; an import claim is a subject and one flag that stands for
`share` and `allow_trace`; a template is absent, good or one that does not decode.
`Claims` is `enrichAccountClaims`: stored imports *replace* those of the raw claims,
stored signing keys are added to them. `Invalid` says when no JWT can be made (an
overlap of two import entries, a bad template of a scoped key): the handler then
returns an error and rolls back, so the action is disabled. `IssueAndPush(dirty, ...)`
is how most handlers end, with `dirty` computed as each handler does. Details
kept on purpose: a signing key may be written while the account does not exist;
deleting one does not push; rotating one writes a fresh entry without scope and
template; `ImportTune` takes a changed flag for no change.

Handlers interleave. A transaction is one step; what comes after its commit is a step
per access to the storage and per request to NATS, and any of them may fail, or the
process die (`Crash`). Two things there work on the storage itself. Writing a revocation
and deleting a user issue the account JWT (`ReadAccount`, `ReadParts`, `SaveJwt`), from an
entry and parts that others may have changed before it is stored. And every sync ends by
writing the whole account entry back as it was read (`ReadEntry`, `StoreStatus`), which
undoes what was committed in between, a deletion included. `overtaken[h]` says that
another handler has changed what `h` has read, `late` that such a JWT or entry was
stored and no JWT issued in a transaction since, `missed` that a push failed, was skipped
or was overtaken since NATS took the last one.

`KeyName` and `Creds` are the choice of `pathUserCredsRead` and
`pathEphemeralUserCredsRead` (key of the request, of the user, of the account, the
account's identity key), and `Accepts` the rule by which a NATS server checks
credentials against an account JWT (external).

* `JwtFresh`: the JWT is what issuing it now would give. It covers the judgement of
  each handler that its change is none; flags of imports are the exception, and `late`.
* `CredsVerify`: credentials are signed with keys, scopes and an issuer account read
  from other entries than the JWT was made from, and are accepted all the same, unless
  the JWT or the entry is `late`.
* `NatsCurrent`: when nobody has still to push and no push was missed, NATS has that JWT.
* `NoLeftovers`: a deleted account leaves nothing but signing keys, and a JWT that a
  revocation issued after the deletion (`late`).

`JwtUpToDate` is `JwtFresh` without the exception, between requests. Two handlers
violate it (`MCAccountClaimsLate.cfg`); for one at a time it is a theorem.

### AccountSync

A handler's transaction is one step and leaves it at `start` with what it is to tell
NATS. Then `startAccountServer`, reading the stored JWT or key, the request to NATS,
reading the entry and writing it back with the new status are steps; other handlers
act in between. `AccountDelete` tells NATS first and commits last (`CommitDelete`,
`CommitFails`). NATS is external: it keeps the JWT it was sent last for a key.

`Faults` says what may happen: the account server is off or cannot be started, NATS cannot
be connected to, refuses, or does not answer; a commit fails; a read or write outside
a transaction fails (`ReadFails`, `DropUnsigned`, `StatusFails`); the process dies
between any two steps (`Crash`); updates or deletions are disabled. A request that is lost is a success for the code
(`claimUpdateRequest`), and a connection that fails looks like no server at all.
The histories `attempt`, `missed` and `left` remember what really happened, `written`
what the last committed request configured.

* `NatsInStep`: when no request is served, NATS has the stored JWT unless a push was
  missed, and nothing for a rotated or deleted key unless it was not told.
* `LastWriteKept`: writing the status takes no committed configuration back.
* `OutcomeReported`: the status says how the last attempt ended of which the plugin
  has seen the end and could store it, whichever step of which sync failed.

The run has one handler: with two, TLC violates the first two at once
(`MCAccountSyncOrder.cfg`, run `sync_deleted`), and the process may die of a nil
pointer (`MCAccountSyncPanic.cfg`).

### TxStore, ShimTx, ShimList

`TxStore` is the promise of `logical.TransactionalStorage`: a transaction sees its own
writes, `Commit` makes them visible in one step, `Rollback` makes them not have
happened. `ShimTx` is `inmemTransaction`: `log[t]` its actions, `LastWrite` the
backward loop of `Get`, `Commit` the steps `BeginCommit`, `Apply` once per action, and
`EndCommit` or `ApplyFails`. A crash drops what is in memory.

`Atomic` states the refinement. The abstract store is the storage, except during a
Commit, when it is what the storage *will* hold when the rest of the log is applied
(`Overlay(store, log[t], done[t])`); the abstract writes are what an open log says of
each key. So `BeginCommit` is the abstract Commit, and `Apply` and `EndCommit` change
nothing. `Atomic` excepts the fault steps themselves (`FaultStep`), which cut a Commit
short, and is stated of one request at a time; two violate it, as `Commit` detects no
conflict and others read what is half written.

`ShimList` numbers the children of a directory in the order of their names and
translates `buildActionMap`, `List`, `ListPage` and `listPaged`; its properties are
invariants over every storage and log that `ShimTx` reaches. The loops are recursive
functions, one value per turn: `Woven` for the loop of `List`, `WeavePage` and `Fill` for
the inner and the outer one of `ListPage`, `Paged` for the caller's. `Fill` and `Paged`
take as many turns as there are children, and stand still once the loop has ended: a turn
that does not end it passes a child, which `PagesAdvance` and the proofs confirm.

* `ListAgreesWithGet`: sorted, no child twice, all that Get finds, no key it does not.
* `SparsePagesComplete`: for every page size, the pages add up to `List` while no two
  children are created in one gap between stored ones.
* `PagesShowNothingDeleted`: a page never shows a key the transaction has deleted.
* `PagesAdvance`: a page that is not empty ends behind the child it was to begin after,
  also where `ListPage` puts children in the wrong order; `listPaged` would go round for
  ever otherwise, in a handler that holds a transaction.

## Runs and bounds

| Run | Shows | Bounds |
|---|---|---|
| `trust_chain` | the six invariants of `TrustChain` | 2 accounts, 2 signing key names, 5 keys, both sets symmetric; 404,002 states |
| `nkey_lookup` | `NoFalseAbsence`, `OperatorsSeparate` | 2 operators, 2 accounts each, 3 keys, reads that fail; 2.7 million states |
| `nkey_lookup_live`, `nkey_lookup_bound` | findings 1 and 2 | 1 operator, 1 account, 2 keys |
| `conn` | `CachedNotDrained` | 3 connections, 1 caller, 3 events, 3 callbacks waiting; 4.6 million states |
| `conn_live` | `StaysReachable` | 2 connections, 3 events, client that gives up; 353,933 states |
| `revocation` | the invariants of `UserRevocation` | 2 keys, 1 credential, clock up to 3, ttls 0, 1 and 3, limits 0 and 1, system limit 2; 5.7 million states |
| `claims` | the invariants of `AccountClaims` | 2 handlers (symmetric), 5 requests, 1 signing key name, 1 import entry, 1 subject, 1 user, 3 keys; 3.2 million states |
| `sync` | `NatsInStep`, `LastWriteKept`, `OutcomeReported` | 1 handler, all faults, 3 account keys, 4 JWTs; 174,918 states |
| `sync_deleted` | finding 4 | 2 handlers, no faults, 2 keys, 3 JWTs |
| `shim` | `Atomic` and the four listing properties | 1 transaction, all contents of a directory of three keys and a folder of two, logs of up to 3 writes, pages of 1 to 4; 337,152 states |
| `shim_list_pages` | finding 3 | the same |

Why they are enough for the cases that matter: two accounts are the managed or
marked system account and another one, and five keys are an operator, two accounts,
a signing key and a rotation of any of them (the theorems cover the rest). Three
keys are a stored, a rotated and a foreign key, two accounts make a refresh that can
be overtaken, two operators make two writers of the cache. Three connections are the
cached, the new and the draining one, while each one's callbacks start again. A
credential issued under one limit, a user deleted under another, and two more ticks
let its revocation expire before or after it.
Five requests are an account, a signing key or an import, a user, and two handlers that
meet after their commits. Three keys are an account, a signing key and a rotation of
either; one subject and the one of the raw claims let an import change its target, and
its flag. What two signing keys or two import entries
add (an overlap makes the issue fail) is in the theorems, which hold for every number
of names. Three account keys and four JWTs are a rotation and an account created anew,
each with a push that was missed before it. Three writes are what it takes to create a
key, delete it and create it again, or two beside a third; four children on pages of one
to four put every boundary between any two of them.
A `MaxCallbacks` of 3 keeps a connection from being lost again while it has a
callback waiting; closing it adds two more. `CHECK_DEADLOCK FALSE` is set for
`NkeyLookup`, whose behaviours end when lookups hang or the keys of the instance are
used up, and for `AccountClaims`, whose behaviours end with the bounded requests.

**Fairness.** `NkeyLookup` and `AccountServerConn` assume weak fairness of every
goroutine's next step (Go's scheduler), of the host starting a dead plugin or
calling the periodic function, and of the client library's own work. Nothing is
assumed of requests, outages and their end. `StaysReachable` is conditional on
calm; the number of events is bounded, so it speaks of what follows the last of them.
It is checked with `GivesUp = TRUE`, and has to except that the client gives up a
connection which then stays in the cache; `ActiveNotClosed` shows what that looks like.

## Findings

The `violation` runs state what a document or comment says, and show the code doing
otherwise (details and quotations in `PROJECT.json`):

1. A cache hit leaks a read lock; later lookups hang (`EveryLookupAnswered`).
2. Lookups over the real NATS adapter panic (`LookupsRespondedTo`).
3. A listing by pages skips or repeats keys when two are created side by side before a
   stored one (`PagesComplete`).
4. The status of a sync is written to an entry read before, outside any transaction,
   and brings a deleted account back (`DeletedStaysDeleted`).

Further disagreements have a property in their module and a configuration of their own,
to be run by hand (`tlc -config <file>.cfg <module>.tla`); TLC violates each:

| Configuration, module | Property | What the code does |
|---|---|---|
| `MCTrustChainIssuer`, `MCTrustChain` | `AllIssuersTrusted` | deleting a signing key leaves accounts that name a missing key with a deleted issuer (`path_keys.go:664`, `docs/API.md:841`) |
| `MCTrustChainDelete`, `MCTrustChain` | `NothingOutlivesOperator` | deleting an operator keeps its signing keys (`path_operators.go:574`, `docs/API.md:465`) |
| `MCTrustChainNewKey`, `MCTrustChain` | `KeyChangeSuspends` | creating a signing key does not suspend the account server (`path_keys.go:552`, `docs/Home.md:254`, `docs/API.md:739`) |
| `MCTrustChainMerged`, `MCTrustChain` | `SigningKeysMerged` | signing keys declared in an operator's own claims are dropped once one is stored (`path_jwts.go:322` copies into an empty slice; `docs/Home.md:163`) |
| `MCNkeyLookupFails`, `MCNkeyLookup` | `EmptyMeansAbsent` | a read that fails is answered as an absence (`backend.go:237`, `account_server.go:79`) |
| `MCAccountServerConnSuspend`, `MCAccountServerConn` | `SuspendedNotServing` | suspending by the configuration leaves the connection serving (`backend.go:570`, `docs/API.md:504`) |
| `MCAccountServerConnActive`, `MCAccountServerConn` | `ActiveNotClosed` | a closed connection is reported active (`backend.go:654`, `docs/API.md:579`) |
| `MCUserRevocationLease`, `MCUserRevocation` | `AllRevocationsListed` | the revocation of a lease is on no account JWT (`path_creds.go:423`, `docs/Home.md:655`) |
| `MCUserRevocationPermanent`, `MCUserRevocation` | `PermanentStays` | a permanent revocation turns into one that expires (`path_revocations.go:376`, `docs/Home.md:527`) |
| `MCAccountClaimsFlags`, `MCAccountClaims` | `ImportsFresh` | `share` and `allow_trace` are assigned before they are compared, so a change is stored and not issued (`path_account_imports.go:573`, `docs/API.md:1063`) |
| `MCAccountClaimsMerged`, `MCAccountClaims` | `ImportsMerged` | the first import entry replaces the imports of the raw claims (`path_jwts.go:624`, `docs/Home.md:494`) |
| `MCAccountClaimsExact`, `MCAccountClaims` | `NatsExact` | deleting a signing key issues and does not push (`path_keys.go:913`, `docs/API.md:1415`) |
| `MCAccountClaimsScope`, `MCAccountClaims` | `ScopeByRequest` | rotating a signing key drops its scope and template (`path_rotate.go:348`, `docs/API.md:1293`) |
| `MCAccountClaimsLate`, `MCAccountClaims` | `JwtUpToDate` | a JWT issued, or a status written, outside a transaction undoes what another request committed in between (`path_revocations.go:224`, `path_accounts.go:770`, `docs/API.md:1063`) |
| `MCAccountSyncSilent`, `AccountSync` | `LastAttemptReported` | a push nobody answers is reported as synced (`account_server.go:103`, `docs/API.md:953`) |
| `MCAccountSyncDown`, `AccountSync` | `LastAttemptReported` | a push that cannot connect leaves the account synced (`backend.go:669`, `docs/API.md:953`) |
| `MCAccountSyncOrder`, `AccountSync` | `NatsInStep` | two requests push in the opposite order and NATS keeps the older JWT (`path_accounts.go:718`) |
| `MCAccountSyncPanic`, `AccountSync` | `NoPanic` | a sync that finds no entry dereferences nil (`path_accounts.go:757`) |
| `MCAccountSyncDelete`, `AccountSync` | `DeletionReported` | a deletion that NATS refuses goes through without error (`path_accounts.go:826`) |
| `MCShimTxRollback`, `ShimTx` | `RollbackPersistsNothing` | a Commit that fails midway leaves what it has written (`inmem_transaction.go:277`) |

Seen while modelling and not stated as properties: with `create_system_account` off,
the operator JWT may name a system account that no longer exists
(`path_operators.go:203`), and rotating the system account leaves it naming the old
key; credentials asked for with a ttl of 0 never expire, whatever the limits
(`path_creds.go:133`; those of ephemeral users get the limit instead,
`path_ephemeral_creds.go:152`); rotating a user does not sync the account; reading an account signing key returns its template as the
description (`path_keys.go:863`).

## Proofs

Eight modules hold proofs, one for each component that is a state machine and one for the
listings. Everything in them is checked by TLAPS for all values of the constants, under the assumptions the models
name. Theorems that need requests to be served one at a time say so: `Handler = {h}` or
`Tx = {t}` is a hypothesis, and for each of these TLC shows what two requests do.

| Module | Theorems about a run's properties | For |
|---|---|---|
| `TrustChainProofs` | all six of `trust_chain` | every instance |
| `AccountClaimsProofs` | all five of `claims` | every instance |
| | `JwtUpToDate`, which two handlers violate | one handler |
| `NkeyLookupProofs` | all three of `nkey_lookup` | every instance |
| `AccountServerConnProofs` | both of `conn` | every instance |
| `AccountSyncProofs` | `TypeOK` of `sync` | every instance |
| | the other three of `sync`, and `DeletedStaysDeleted`, which two handlers violate | one handler, every set of faults |
| `UserRevocationProofs` | `TypeOK` of `revocation` | every instance |
| | the other three of `revocation` | one handler beside the periodic function |
| `ShimTxProofs` | `TypeOK` of `shim` | every instance |
| | `Atomic` | one transaction |
| `ShimListProofs` | the other four of `shim` | every instance |

**The trust chain.** `TrustChainProofs` proves every invariant of the run `trust_chain` for all finite or
infinite sets of accounts and signing keys and any number of keys (`MaxKeys` is only
a guard). Assumed are `NamesAssumption` (the kinds of names are disjoint) and
`NoneAssumption` (`None` is no entry), both stated in `TrustChain`.

The inductive invariant is

    IInv == TypeOK /\ SubjectFresh /\ OperatorJwtFresh /\ OneSystemAccount
                   /\ SignerFresh /\ KeysDeployed

`SignerFresh` is not inductive alone. A rotation of a key reissues the accounts whose
token names it as issuer; that this is every account whose configuration resolves to
the key is `SignerFresh` itself in the state before, applied to a token that has to be
there, which is `SubjectFresh`. `SubjectFresh` in turn excludes accounts without an
operator, and accounts left behind for an operator that is created again.
`KeysDeployed` (defined with the proofs) is
the part of `RunningServerTrusted` about keys: a running server implies that NATS
trusts all stored operator keys but those in `created`. The part about issuers follows from it with
`SignerFresh`, because an issuer is one of those keys. There is one lemma per conjunct (`SubjectStep`,
`SignerStep`, ...) that `[Next]_vars` preserves it, with a step per action; lemmas about
what `IssueOperator`, `Reissue` and the definitions of `OperatorUpdate` return carry most
of it. The theorems end with a PTL step each.

**The claims.** `AccountClaimsProofs` proves the five invariants of the run
`claims`, for all sets of handlers, names, subjects and users, from `ClaimsAssumption` and
`NoneAssumption`. The inductive invariant is

    Inv == TypeOK /\ HeldCurrent /\ NoLeftovers /\ JwtFresh

The handlers meet in `HeldCurrent`: what a handler holds, the entry it has read, the JWT
it is going to store or to push, is still what is stored unless another one has overtaken
it. So a JWT that is stored after the commit, or an entry that is written back, is either
right or `late`. For transactions the heart is `StepFresh`: a handler that issues makes the
JWT say what it was made from (`IssuedSays`), and one that does not has left the list of
signing keys (`SameSigners`) and the imported subjects (`SameImports`) as they were.
`CredsVerify` follows from `Inv` (`InvVerifies`): whoever gets credentials has an entry,
so by `NoLeftovers` the account has one, so by `JwtFresh` the key that signs is listed
with its scope. For `NatsCurrent` there are two invariants more. `Distinct`: no two signing
keys are the same, because each is minted. `NatsCurrent` speaks only of moments without a
push to come (`Settled`), and every handler that changes the JWT has one to come, so the
step that matters is `SigningKeyDelete`, which issues and does not push. By `JwtFresh` before and after, the JWT loses exactly the key that
is deleted (`DeletedSigner`), and by `Distinct` what NATS still lists is no key that somebody
else uses. `AloneUpToDate` adds that with one handler nothing is ever `late`, so that
`docs/API.md:1063` holds then.

**Lookups.** `NkeyLookupProofs` has any sets of operators and accounts, from
`LookupAssumption`. `Asked` is what types need: a lookup in progress was asked for a key.
`OperatorsSeparate` speaks of the caches and the answers; it becomes inductive as
`KeysOwned`, which speaks of each place a key passes through on its way there (storage, cache,
the entry a refresh is about to write, the answer). `NoFalseAbsence` is about the end of a
lookup and says nothing of its middle. `OnTheWay` does: while the requested key has been in
storage ever since the request, there is an account that has it and that the refresh is still
to visit, or the key is about to be written, or it is in the cache. Other lookups that
write the cache in between, and rotations, which make the key leave storage and the
hypothesis false, are the cases of `StepOnTheWay`.

**Connections.** `AccountServerConnProofs` has any number of connections and callers, from
`ConnAssumption`. (That `MaxCallbacks` is at least 2 is one of its conjuncts: a drained
connection calls both handlers, and a bound of 1 would leave them no room. `Room` says that
there is.) `CachedNotDrained` is not inductive: `CloseOld` closes a connection that was found
in the cache long before. What is needed is `Replaced`, that it is not in the cache any
more, and for it `Private`: a new connection is known to nobody but the process that opened
it, so that registering it replaces whatever others are about to close and can bring none of
it back. A connection may be used again only when nobody refers to it (`Forgotten`), which
is what a fresh connection is.

**Syncs.** `AccountSyncProofs` assumes `SyncAssumption` and `NoneAssumption` (`None` is
neither an entry nor a JWT). Types hold for any number of handlers. For one handler the
inductive invariant is

    Inv(h) == Whole(h) /\ LastWriteKept /\ OutcomeIn(h) /\ PushedIn(h) /\ ForgottenIn(h)

The properties speak of the moments between requests; `OutcomeIn`, `PushedIn` and
`ForgottenIn` say what has become of them at each step of one: the status is true until the push,
then the handler's error is; NATS has the stored JWT but for the time from the transaction to
the push; NATS has nothing for another key but the one a rotation is about to take from it.
`Whole` relates what the handler has read to what is stored, which is where two handlers
would break the proof, and do break the code. A crash at any step is covered by the same
invariant: what it takes from a handler was remembered as missed or left, or not yet due.
Two theorems say what fewer faults give:
`LastAttemptCorrect`, that `docs/API.md:953` holds as it is written if no connection fails,
no request is lost, updates stay enabled, the storage works and the process lives, and `ExactWithoutFaults`, that NATS has the stored
JWT and nothing else if nothing fails. The latter also shows that the exceptions `missed` and
`left` of `NatsInStep` do not hide a failure of the protocol itself.

**Revocations.** `UserRevocationProofs` assumes `RevocationAssumption`. Types hold for any
number of handlers; the invariant for one, with the periodic function between any two of its
steps, is

    Inv(h) == Past /\ SnapIn(h) /\ RevocationsListed
              /\ AboutToConfirm(h) /\ ConfirmedIn(h) /\ Covered

`RevocationsListed` needs `SnapIn`: a list that was read still covers what is stored, since the
periodic function only removes entries. `RevokedAtNats` needs that a confirmed revocation is in
every copy that may still reach NATS (`ConfirmedIn`), and that one on its way to be confirmed
is in the JWT as soon as it is issued (`AboutToConfirm`). `RetiredRefused` is arithmetic over
time: `Covered` says that the revocation of a retired key was written no earlier than any of
its credentials and expires no earlier, which comes from the ttl of `WithUserRevoked` being at
least the system's limit (`RetireCovers`); it holds as time passes, and as entries are pruned
that have expired, with the credentials they covered. `Past` (no times in the
future, no retired key in use) keeps new credentials and new entries from undoing it.

**The shim.** `ShimTxProofs` proves `TypeOK` for any number of requests with every
fault, and the refinement for one request (`Tx = {t}`), any keys, values and length of
the log: `ShimRefinesTxStore` with the fault steps excepted, as the run checks it, and
`ShimIsTxStore`, that without faults `Spec => Abs!Spec`. It rests on facts about logs.
`LastExists` gives a set of positions its last element (from the well-foundedness of
the naturals), `LastWriteAppended` says what a log says after a write, and
`OverlayApplied` that writing the next action to the storage leaves what storage and
rest of the log say together. `StepRefines` maps each step.

**The listings.** `ShimListProofs` proves the four listing properties for any keys, store
and log, any number of transactions and every page size. Assumed is `ShimListAssumption`:
finitely many keys, children numbered from 1 (0 stands for the empty `after`), no name both a
key and a folder. Each property is about one state, so types are all that is needed of
reachability; the work is in what the loops compute.

*What is to be shown.* `Shown(t)` are the stored children that the log does not delete and
those it creates. `VisibleShown` and `ShownLeafVisible` relate it to `Get`: a key is visible
exactly if it is shown, a folder is shown if anything in it is visible. Then everything is said
with `Lists(s, A)`: `s` has the members of `A` in order, each once. Exactly one sequence
does (`ListsExists`, `ListsUnique`), so two listings are equal once they list the same set.

*The loops.* No induction theorem of the library can be used, as each takes an operator. So
`LeastExists` gives a set of naturals its least member, and induction is over a set:
`Upward` says that a set with 0 in it that is closed under the next number has every number.
`Iteration` uses it to build, turn by turn, a function that satisfies the equation of a
recursive function, so that the function the model chooses satisfies it as well
(`WovenRun`, `WeavePageRun`, `FillRun`, `PagedRun`). Each loop then has an invariant:

* `List`: what is woven before stored child number *i* lists what is to be shown up to it
  (`WovenLists`).
* `ListPage`: while it goes on, `Going`. It has shown and will weave only what is to be
  shown, the number of deletions it asks for beyond the limit is the number of those still
  to come, and unless children crowd a gap, `out` lists what there is up to `at` and `pend`
  the created children behind it. When it has ended, `Ended`: cut to the limit, `out` with
  `pend` is the page. That the count is exact is what makes a page of the storage long enough
  (`StoredPageLists`, `TurnStands`); that at most one created child fits before each stored
  one is what the code's inner loop needs to be right (`OneInGap`), and the only place
  where `~Crowded` is used.
* `listPaged`: `Walked`. The pages so far list what there is up to the last child shown.

*The ends.* Each turn of `Fill` and each page passes a child, so that the number of children
behind goes down (`FewerBehind`) and both have ended after as many turns as there are
children (`FillEnds`, `PagedEnds`): the bound in the model cuts nothing off, and the loops of the
code end.

Before each proof TLC checked the invariant on the instance of the module's run (and
`Distinct` with two signing keys), and the listing properties on that of `shim`.

Only model-checked: `StaysReachable`, as liveness under fairness is out of the prover's
reach. Every other property of a passing run is a theorem. The `violation` runs refute their
properties and leave nothing to prove.

## Not modelled

* Exports, limits and the other claims an account's raw claims may hold: they are copied
  and never interpreted. Tags and templates of users: formatting.
* The times of ephemeral credentials: computed when they are signed and kept nowhere.
* Two handlers of `UserRevocation` and of `AccountSync` in a passing run: the code
  violates the properties then, as described above. (`AccountClaims` has two, and its
  properties name what they except.)
* The periodic function on a storage without transactions, where each of its deletions
  is seen at once, and a system `MaxLeaseTTL` that is lowered, both in `UserRevocation`.
* The cache of `NkeyLookup` after the deletion of an account, beyond the panic it ends in.
* Read, list and utility handlers, field validation and formatting: no state.
* Storage errors within a transaction of a handler: it rolls back and the step did not
  happen. `ShimTx` has them where they matter, in Commit.
* `pkg/accountserver/events.go` (message types), `cmd` (entry point) and the vendored
  libraries, but for the NATS client as `AccountServerConn` sees it.

## Plan

Done: the nine modules above, and theorems for every safety property the passing runs check.
Next, in this order:

1. Theorems: which connections may serve beside the cached one in `AccountServerConn` (those
   a process has just opened or is about to close, and those that overlapping starts lose
   sight of); what `TxStore` gives its users, carried over to `ShimTx` by the refinement.
2. `AccountSync` over the connection status of `AccountServerConn`: a failed push closes
   the connection that the next sync of another account is about to use.
3. `ShimTx` with two requests: an abstract transaction weaker than `TxStore`, which says
   what the shim does promise to requests that run at once.
4. `UserRevocation` with the periodic function taken apart, for storages without
   transactions.
