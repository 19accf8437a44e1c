---------------------------- MODULE AccountSync -----------------------------
(***************************************************************************)
(* Telling NATS about one account: syncAccountUpdate, syncAccountRotate and *)
(* syncAccountDelete, which several requests may run at once, and the sync  *)
(* status they leave in the account entry.                                  *)
(*                                                                          *)
(* A handler's transaction is one step; starting the account server, each   *)
(* read outside the transaction, each request to NATS and each write of the *)
(* status is a step of its own.  updateAccountSyncStatus runs its callback  *)
(* on the storage itself (logical.WithTransaction hands it the storage, not *)
(* the transaction), so its read and its write are two steps as well.       *)
(*                                                                          *)
(* NATS keeps the JWT it was sent last for a key.  What may go wrong is the *)
(* constant Faults.  ReadJwtUnchecked, DropTakenNew, StoreStatusSynced and    *)
(* CommitDeleteKeepsEntry are faulty variants that no behaviour uses.         *)
(***************************************************************************)
EXTENDS Naturals

CONSTANTS
  Handler,  \* goroutines that serve requests
  Faults,   \* what may happen, see FaultNames
  None,     \* no entry, no JWT
  MaxKeys,  \* bound: account keys minted
  MaxVer    \* bound: account JWTs issued

\* off: no account server is configured, or it is suspended; down: NATS cannot be
\* connected to; start: the storage fails while the account server is started;
\* refuse: NATS answers with an error; silent: the request is lost and nothing is
\* answered within a second; commit: a transaction fails to commit; storage: a read
\* or write outside of one fails; crash: the process dies and is started again;
\* updates and deletes: disable_updates or disable_deletes may be set in between.
FaultNames == {"off", "down", "start", "refuse", "silent", "commit", "storage", "crash",
               "updates", "deletes"}

ASSUME SyncAssumption ==
  /\ Faults \subseteq FaultNames
  /\ MaxKeys \in Nat /\ MaxVer \in Nat

VARIABLES
  acct,     \* the stored entry: what was configured last, and Status.Sync
  key,      \* the stored identity key, 0 for none
  jwt,      \* the stored JWT: for a key, and the how-manieth that was issued
  minted,   \* how many keys were minted
  ver,      \* how many JWTs were issued
  nats,     \* nats[k]: the JWT NATS has for key k, 0 for none
  pc,       \* where a handler is
  op,       \* what it tells NATS: "update", "rotate" or "delete"
  tok,      \* the JWT it has read
  old,      \* the key NATS is to forget
  err,      \* syncErr is set
  entry,    \* the entry it has read to set the status
  written,  \* history: what the last request that was committed configured
  attempt,  \* history: how the last attempt to push the account ended; "unseen" is
            \* one that failed, or was not made, while the plugin took it for done,
            \* or of which it could not store the end
  missed,   \* history: a push was skipped or failed since the last that was taken
  left,     \* history: keys NATS was not told to forget, or did not
  panicked  \* history: a handler dereferenced nil, the process was started again

stored == <<acct, key, jwt, minted, ver>>
local == <<pc, op, tok, old, err, entry>>
history == <<written, attempt, missed, left, panicked>>
vars == <<stored, nats, local, history>>

Key == 1 .. MaxKeys
Token == [key : Key, ver : 1 .. MaxVer]
AccountEntry == [cfg : 1 .. MaxVer, synced : {"never", "yes", "no"}]

\* A nil entry is no entry, and no JWT is none.
ASSUME NoneAssumption == None \notin AccountEntry /\ None \notin Token

\* Every variable has its type, a handler that pushes has a JWT to push, and one
\* that stores a status has an entry to store it in.
TypeOK ==
  /\ acct \in AccountEntry \cup {None}
  /\ key \in 0 .. MaxKeys
  /\ jwt \in Token \cup {None}
  /\ minted \in 0 .. MaxKeys /\ ver \in 0 .. MaxVer
  /\ nats \in [Key -> 0 .. MaxVer]
  /\ pc \in [Handler -> {"idle", "start", "read", "push", "drop", "status", "store", "commit"}]
  /\ op \in [Handler -> {"update", "rotate", "delete"}]
  /\ tok \in [Handler -> Token \cup {None}]
  /\ old \in [Handler -> 0 .. MaxKeys]
  /\ err \in [Handler -> BOOLEAN]
  /\ entry \in [Handler -> AccountEntry \cup {None}]
  /\ \A h \in Handler : /\ pc[h] = "push" => tok[h] # None
                        /\ pc[h] = "drop" => old[h] # 0
                        /\ pc[h] = "store" => entry[h] # None
  /\ written \in 0 .. MaxVer
  /\ attempt \in {"none", "taken", "failed", "unseen"}
  /\ missed \in BOOLEAN /\ panicked \in BOOLEAN
  /\ left \subseteq 0 .. MaxKeys

Init ==
  /\ acct = None /\ key = 0 /\ jwt = None
  /\ minted = 0 /\ ver = 0
  /\ nats = [k \in Key |-> 0]
  /\ pc = [h \in Handler |-> "idle"]
  /\ op = [h \in Handler |-> "update"]
  /\ tok = [h \in Handler |-> None]
  /\ old = [h \in Handler |-> 0]
  /\ err = [h \in Handler |-> FALSE]
  /\ entry = [h \in Handler |-> None]
  /\ written = 0 /\ attempt = "none"
  /\ missed = FALSE /\ left = {} /\ panicked = FALSE

-----------------------------------------------------------------------------
(* Transactions of the handlers, and what they go on to tell NATS.          *)

Goto(h, l) == pc' = [pc EXCEPT ![h] = l]

\* The handler goes on to tell NATS; o is the key to be forgotten.
Tell(h, what, o) ==
  /\ Goto(h, "start")
  /\ op' = [op EXCEPT ![h] = what]
  /\ old' = [old EXCEPT ![h] = o]
  /\ UNCHANGED <<nats, tok, err, entry>>

\* issueAndSaveAccountJWT for key k.
Issue(k) ==
  /\ ver < MaxVer
  /\ ver' = ver + 1
  /\ jwt' = [key |-> k, ver |-> ver + 1]

MintKey ==
  /\ minted < MaxKeys
  /\ minted' = minted + 1
  /\ key' = minted + 1

\* pathAccountCreateUpdate. An entry without a key cannot be issued a JWT.
AccountWrite(h) ==
  /\ pc[h] = "idle"
  /\ IF acct = None THEN MintKey ELSE key # 0 /\ UNCHANGED <<key, minted>>
  /\ Issue(key')
  /\ acct' = [cfg |-> ver + 1, synced |-> IF acct = None THEN "never" ELSE acct.synced]
  /\ written' = ver + 1
  /\ Tell(h, "update", 0)
  /\ UNCHANGED <<attempt, missed, left, panicked>>

\* Handlers of imports, signing keys and revocations.
Reissue(h) ==
  /\ pc[h] = "idle" /\ acct # None /\ key # 0
  /\ Issue(key)
  /\ Tell(h, "update", 0)
  /\ UNCHANGED <<acct, key, minted, history>>

\* A write that issues nothing and still syncs: sync_now of the account server,
\* the revocation of a lease, and, without the account, a new signing key or
\* the deletion of an import.
SyncOnly(h) ==
  /\ pc[h] = "idle"
  /\ Tell(h, "update", 0)
  /\ UNCHANGED <<stored, history>>

\* pathRotateAccount.
AccountRotate(h) ==
  /\ pc[h] = "idle" /\ acct # None /\ key # 0
  /\ MintKey
  /\ Issue(key')
  /\ Tell(h, "rotate", key)
  /\ UNCHANGED <<acct, history>>

\* pathAccountDelete up to its sync, which comes before the commit.
AccountDelete(h) ==
  /\ pc[h] = "idle" /\ acct # None
  /\ Tell(h, "delete", key)
  /\ UNCHANGED <<stored, history>>

-----------------------------------------------------------------------------
(* What has gone wrong is remembered.                                       *)

Skipped(h) ==
  /\ missed' = (missed \/ op[h] # "delete")
  /\ left' = left \cup {old[h]}

Attempted(h, how) ==
  attempt' = IF op[h] = "delete" THEN attempt ELSE how

\* The handler returns.
Return(h) ==
  /\ Goto(h, "idle")
  /\ op' = [op EXCEPT ![h] = "update"]
  /\ tok' = [tok EXCEPT ![h] = None]
  /\ old' = [old EXCEPT ![h] = 0]
  /\ err' = [err EXCEPT ![h] = FALSE]
  /\ entry' = [entry EXCEPT ![h] = None]

\* Where a handler goes when the sync is done.
AfterSync(h) == IF op[h] = "delete" THEN "commit" ELSE "status"

Fail(h, how) ==
  /\ err' = [err EXCEPT ![h] = TRUE]
  /\ Attempted(h, how)
  /\ Skipped(h)
  /\ Goto(h, AfterSync(h))
  /\ UNCHANGED <<stored, nats, op, tok, old, entry, written, panicked>>

-----------------------------------------------------------------------------
(* The sync.                                                                *)

\* startAccountServer.
Started(h) ==
  /\ pc[h] = "start"
  /\ Goto(h, "read")
  /\ UNCHANGED <<stored, nats, op, tok, old, err, entry, history>>

\* There is no server to tell: the sync ends with no error, and the status stays
\* as it is.
NoServer(h) ==
  /\ pc[h] = "start"
  /\ Skipped(h)
  /\ IF op[h] = "delete"
     THEN Goto(h, "commit") /\ UNCHANGED <<op, tok, old, err, entry>>
     ELSE Return(h)
  /\ UNCHANGED <<stored, nats, written, panicked>>

NotStarted(h) == "off" \in Faults /\ NoServer(h) /\ UNCHANGED attempt

\* The connection fails: startAccountServer notes it in its own status and
\* returns no server and no error, as if there were none.
NoConnection(h) == "down" \in Faults /\ NoServer(h) /\ Attempted(h, "unseen")

StartFails(h) == pc[h] = "start" /\ "start" \in Faults /\ Fail(h, "failed")

\* The mutant of ReadJwt pushes whatever it finds.
ReadJwtUnchecked(h) ==
  /\ pc[h] = "read" /\ op[h] # "delete"
  /\ tok' = [tok EXCEPT ![h] = jwt]
  /\ Goto(h, "push")
  /\ UNCHANGED <<stored, nats, op, old, err, entry, history>>

\* The account JWT that is stored by now.
ReadJwt(h) ==
  /\ pc[h] = "read" /\ op[h] # "delete"
  /\ IF jwt # None
     THEN /\ tok' = [tok EXCEPT ![h] = jwt]
          /\ Goto(h, "push")
          /\ UNCHANGED <<stored, nats, op, old, err, entry, history>>
     ELSE Fail(h, attempt)

\* syncAccountDelete reads the key; without one the deletion is given up.
ReadKey(h) ==
  /\ pc[h] = "read" /\ op[h] = "delete"
  /\ IF key # 0
     THEN /\ old' = [old EXCEPT ![h] = key]
          /\ Goto(h, "drop")
          /\ UNCHANGED <<op, tok, err, entry>>
     ELSE Return(h)
  /\ UNCHANGED <<stored, nats, history>>

\* A read fails, which ends the sync with an error that leaves the status as it is.
\* A deletion is given up.
ReadFails(h) ==
  /\ pc[h] = "read" /\ "storage" \in Faults
  /\ IF op[h] = "delete" THEN UNCHANGED <<missed, left>> ELSE Skipped(h)
  /\ Return(h)
  /\ UNCHANGED <<stored, nats, written, attempt, panicked>>

AfterPush(h) == IF op[h] = "rotate" THEN "drop" ELSE "status"

\* UpdateAccount: NATS takes the JWT.
PushTaken(h) ==
  /\ pc[h] = "push"
  /\ nats' = [nats EXCEPT ![tok[h].key] = tok[h].ver]
  /\ attempt' = "taken" /\ missed' = FALSE
  /\ Goto(h, AfterPush(h))
  /\ UNCHANGED <<stored, op, tok, old, err, entry, written, left, panicked>>

\* Updates are disabled: nothing is sent, and nil is returned.
PushDisabled(h) ==
  /\ pc[h] = "push" /\ "updates" \in Faults
  /\ attempt' = "unseen" /\ missed' = TRUE
  /\ Goto(h, AfterPush(h))
  /\ UNCHANGED <<stored, nats, op, tok, old, err, entry, written, left, panicked>>

\* Nobody answers in time: claimUpdateRequest returns nil all the same.
PushLost(h) ==
  /\ pc[h] = "push" /\ "silent" \in Faults
  /\ attempt' = "unseen" /\ missed' = TRUE
  /\ Goto(h, AfterPush(h))
  /\ UNCHANGED <<stored, nats, op, tok, old, err, entry, written, left, panicked>>

PushRefused(h) ==
  /\ pc[h] = "push" /\ "refuse" \in Faults
  /\ Fail(h, "failed")

\* The mutant of DropTaken names the key that replaced the old one.
DropTakenNew(h) ==
  /\ pc[h] = "drop"
  /\ nats' = [nats EXCEPT ![key] = 0]
  /\ Goto(h, AfterSync(h))
  /\ UNCHANGED <<stored, op, tok, old, err, entry, history>>

\* DeleteAccount: NATS forgets the key.
DropTaken(h) ==
  /\ pc[h] = "drop"
  /\ nats' = [nats EXCEPT ![old[h]] = 0]
  /\ Goto(h, AfterSync(h))
  /\ UNCHANGED <<stored, op, tok, old, err, entry, history>>

\* Deletions are disabled, or the request is lost.
DropLost(h) ==
  /\ pc[h] = "drop" /\ Faults \cap {"deletes", "silent"} # {}
  /\ left' = left \cup {old[h]}
  /\ Goto(h, AfterSync(h))
  /\ UNCHANGED <<stored, nats, op, tok, old, err, entry, written, attempt, missed, panicked>>

\* A refused deletion is an error of the sync; the push before it was taken.
DropRefused(h) ==
  /\ pc[h] = "drop" /\ "refuse" \in Faults
  /\ err' = [err EXCEPT ![h] = TRUE]
  /\ Attempted(h, "failed")
  /\ left' = left \cup {old[h]}
  /\ Goto(h, AfterSync(h))
  /\ UNCHANGED <<stored, nats, op, tok, old, entry, written, missed, panicked>>

\* The operator's key, which signs the request, cannot be read: after the push of
\* a rotation the sync ends with an error, and its status is not written.
DropUnsigned(h) ==
  /\ pc[h] = "drop" /\ op[h] = "rotate" /\ "storage" \in Faults
  /\ left' = left \cup {old[h]}
  /\ attempt' = "unseen"
  /\ Return(h)
  /\ UNCHANGED <<stored, nats, written, missed, panicked>>

-----------------------------------------------------------------------------
(* updateAccountSyncStatus, and the end of a deletion.                      *)

ReadEntry(h) ==
  /\ pc[h] = "status" /\ acct # None
  /\ entry' = [entry EXCEPT ![h] = acct]
  /\ Goto(h, "store")
  /\ UNCHANGED <<stored, nats, op, tok, old, err, history>>

\* The process dies and is started again. What the handlers had still to push is
\* missed, and so is an account whose deletion was not committed; a key that was
\* rotated is left at NATS.
Die ==
  /\ missed' = (missed \/ \E g \in Handler :
                   \/ pc[g] = "commit"
                   \/ op[g] # "delete" /\ pc[g] \in {"start", "read", "push"})
  /\ left' = left \cup {old[g] : g \in {g \in Handler : op[g] # "delete"}}
  /\ pc' = [g \in Handler |-> "idle"]
  /\ op' = [g \in Handler |-> "update"]
  /\ tok' = [g \in Handler |-> None]
  /\ old' = [g \in Handler |-> 0]
  /\ err' = [g \in Handler |-> FALSE]
  /\ entry' = [g \in Handler |-> None]

\* There is no entry: account.Status dereferences nil in the handler.
Panic(h) ==
  /\ pc[h] = "status" /\ acct = None
  /\ panicked' = TRUE
  /\ Die
  /\ UNCHANGED <<stored, nats, written, attempt>>

\* The process dies for another reason, and with it outcomes that were not stored.
Crash ==
  /\ "crash" \in Faults /\ \E h \in Handler : pc[h] # "idle"
  /\ attempt' = IF \E h \in Handler : op[h] # "delete" /\ pc[h] \in {"drop", "status", "store"}
                THEN "unseen" ELSE attempt
  /\ Die
  /\ UNCHANGED <<stored, nats, written, panicked>>

\* The mutant of StoreStatus takes a sync that came this far for a success.
StoreStatusSynced(h) ==
  /\ pc[h] = "store"
  /\ acct' = [entry[h] EXCEPT !.synced = "yes"]
  /\ Return(h)
  /\ UNCHANGED <<key, jwt, minted, ver, nats, history>>

\* The entry is written back as it was read, with the new status.
StoreStatus(h) ==
  /\ pc[h] = "store"
  /\ acct' = [entry[h] EXCEPT !.synced = IF err[h] THEN "no" ELSE "yes"]
  /\ Return(h)
  /\ UNCHANGED <<key, jwt, minted, ver, nats, history>>

\* The entry cannot be read or written.
StatusFails(h) ==
  /\ pc[h] \in {"status", "store"} /\ "storage" \in Faults
  /\ attempt' = "unseen"
  /\ Return(h)
  /\ UNCHANGED <<stored, nats, written, missed, left, panicked>>

\* The mutant of CommitDelete keeps the entry.
CommitDeleteKeepsEntry(h) ==
  /\ pc[h] = "commit"
  /\ key' = 0 /\ jwt' = None
  /\ written' = 0 /\ attempt' = "none"
  /\ Return(h)
  /\ UNCHANGED <<acct, minted, ver, nats, missed, left, panicked>>

\* deleteAccount and the commit, whatever became of the sync.
CommitDelete(h) ==
  /\ pc[h] = "commit"
  /\ acct' = None /\ key' = 0 /\ jwt' = None
  /\ written' = 0 /\ attempt' = "none"
  /\ Return(h)
  /\ UNCHANGED <<minted, ver, nats, missed, left, panicked>>

\* The account stays, though NATS may have forgotten it.
CommitFails(h) ==
  /\ pc[h] = "commit" /\ "commit" \in Faults
  /\ missed' = TRUE
  /\ Return(h)
  /\ UNCHANGED <<stored, nats, written, attempt, left, panicked>>

Step(h) ==
  \/ AccountWrite(h)
  \/ Reissue(h)
  \/ SyncOnly(h)
  \/ AccountRotate(h)
  \/ AccountDelete(h)
  \/ Started(h)
  \/ NotStarted(h)
  \/ NoConnection(h)
  \/ StartFails(h)
  \/ ReadJwt(h)
  \/ ReadKey(h)
  \/ PushTaken(h)
  \/ PushDisabled(h)
  \/ PushLost(h)
  \/ PushRefused(h)
  \/ DropTaken(h)
  \/ DropLost(h)
  \/ DropRefused(h)
  \/ ReadEntry(h)
  \/ Panic(h)
  \/ StoreStatus(h)
  \/ CommitDelete(h)
  \/ CommitFails(h)
  \/ ReadFails(h)
  \/ DropUnsigned(h)
  \/ StatusFails(h)

Next == Crash \/ \E h \in Handler : Step(h)

Spec == Init /\ [][Next]_vars

-----------------------------------------------------------------------------
Quiet == \A h \in Handler : pc[h] = "idle"

\* docs/API.md:953: "`synced` - Whether the last push attempt for this account
\* was successful." When no request is being served, the status says how the
\* last attempt ended; an attempt is a request to NATS, or to connect to it.
LastAttemptReported ==
  Quiet /\ acct # None /\ acct.synced # "never" =>
    (acct.synced = "yes" <=> attempt = "taken")

\* The part of it that holds: an attempt of which the plugin has seen the end, and
\* could store it, is reported as it ended, whichever step of it failed, whatever
\* died in between and however earlier ones went.
OutcomeReported ==
  Quiet /\ acct # None /\ acct.synced # "never" /\ attempt # "unseen" =>
    (acct.synced = "yes" <=> attempt = "taken")

\* docs/API.md:863: "account JWT changes will be automatically pushed to the
\* NATS server." When no request is being served, NATS has the stored JWT unless
\* a push was skipped or failed since, and it has nothing for a key that was
\* rotated or deleted, unless it was not told or refused.
NatsInStep ==
  Quiet =>
    /\ acct # None /\ ~missed => jwt # None /\ nats[jwt.key] = jwt.ver
    /\ \A k \in Key \ ({key} \cup left) : nats[k] = 0

\* The entry is what the last committed request made it, and there is none after
\* a deletion: writing the status of a sync (updateAccountSyncStatus) takes
\* nothing back. It holds while requests are served one at a time.
LastWriteKept == IF acct = None THEN written = 0 ELSE written = acct.cfg

\* path_accounts.go:628: "deleteAccount removes an account and all of its
\* dependent objects from storage." Once the deletion is committed, and until the
\* account is created again, there is no entry: the status of a sync that another
\* request began before does not write it back.
DeletedStaysDeleted == written = 0 => acct = None

\* path_accounts.go:723: a sync that finds no account reports "unable to sync,
\* account jwt does not exist". It does not end the process.
NoPanic == ~panicked

\* path_accounts.go:542: "failed to delete account in nats server": a deletion
\* that NATS did not take is an error, and the account is not deleted.
DeletionReported == [][\A h \in Handler : CommitDelete(h) => ~err[h]]_vars
=============================================================================
