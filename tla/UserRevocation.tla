--------------------------- MODULE UserRevocation ---------------------------
(***************************************************************************)
(* Revocations of one account: a user of the account with its identity     *)
(* key, the credentials issued for it, the revocation entries in storage,  *)
(* the list of them in the stored account JWT, and the list in the account *)
(* JWT that NATS was given last.                                           *)
(*                                                                         *)
(* A handler's storage transaction is one step. What it does after the     *)
(* commit (issueAndSaveAccountJWT outside the transaction, then the sync)  *)
(* is a step per read of the storage and per effect. The handler of a      *)
(* creds request has no transaction: it reads the user, and signs later.   *)
(*                                                                         *)
(* CappedByUser, UserMaxTtl, RotateIssuesFirst and RevocationWriteUnissued *)
(* are faulty variants of the definitions that follow them. No behaviour   *)
(* uses them: each is a mistake that one of the properties must notice.    *)
(***************************************************************************)
EXTENDS Naturals, FiniteSets

CONSTANTS
  Handler,              \* goroutines that serve requests
  LimitTtl,             \* values of creds_max_ttl, in ticks; 0 is "0s" and sets no limit
  CredsTtl,             \* ttls given for credentials, or by default
  RevocationTtl,        \* ttls given for revocations; 0 is for good
  MaxLeaseTTL,          \* System().MaxLeaseTTL(), in ticks; it is read by each request, and
                        \* taken not to be lowered meanwhile
  Buffer,               \* revokeDurationBuffer, in ticks
  ImplicitRevocations,  \* implicit_revocations_enabled
  Failures,             \* whether steps after a commit may fail, or the process die there
  MaxKeys,              \* bound: user identity keys minted
  MaxCreds,             \* bound: credentials issued
  MaxTime               \* bound: the clock

ASSUME RevocationAssumption ==
  /\ LimitTtl \cup CredsTtl \cup RevocationTtl \subseteq Nat /\ 0 \in LimitTtl
  /\ MaxLeaseTTL \in Nat \ {0} /\ Buffer \in Nat
  /\ ImplicitRevocations \in BOOLEAN /\ Failures \in BOOLEAN
  /\ MaxKeys \in Nat /\ MaxCreds \in Nat /\ MaxTime \in Nat \ {0}

VARIABLES
  now,         \* the clock
  user,        \* the user: exists, its current key, creds_max_ttl, revoke_on_delete
  minted,      \* how many user keys were minted; keys are numbered
  creds,       \* credentials out there: subject, issued at, expires at (0: never)
  revocation,  \* the stored entry of a key: creation time (0: no entry) and ttl (0: never expires)
  jwt,         \* the stored account JWT: the time listed for a key, 0 if it is not
  pushed,      \* the same in the account JWT NATS has
  pc,          \* where a handler is
  req,         \* the user key it is about, with the ttl of credentials or the time of a revocation
  snap,        \* the list it has read
  owed,        \* history: keys whose entry was written and not yet issued
  retired,     \* history: keys revoked because their user was deleted or rotated
  confirmed    \* history: the last revocation that a finished request had pushed, while it is stored

userData == <<user, minted, creds>>
local == <<pc, req, snap>>
history == <<owed, retired, confirmed>>
vars == <<now, userData, revocation, jwt, pushed, local, history>>

Key == 1 .. MaxKeys
Time == 0 .. MaxTime
List == [Key -> Time]
NoEntry == [at |-> 0, ttl |-> 0]
NoReq == [key |-> 0, n |-> 0]

\* Every variable has its type, and no credentials outlive the system's limit
\* except those that never expire.
TypeOK ==
  /\ now \in Time \ {0}
  /\ user \in [exists : BOOLEAN, key : 0 .. MaxKeys, max : LimitTtl, revoke : BOOLEAN]
  /\ user.exists <=> user.key # 0
  /\ minted \in 0 .. MaxKeys
  /\ \A c \in creds : /\ c.sub \in Key /\ c.iat \in Time
                      /\ c.exp = 0 \/ c.exp \in c.iat + 1 .. c.iat + MaxLeaseTTL
  /\ revocation \in [Key -> [at : Time, ttl : Nat]]
  /\ jwt \in List /\ pushed \in List
  /\ pc \in [Handler -> {"idle", "sign", "issue", "write", "sync", "push"}]
  /\ req \in [Handler -> [key : 0 .. MaxKeys, n : Nat]]
  /\ snap \in [Handler -> List]
  /\ owed \subseteq Key /\ retired \subseteq Key
  /\ confirmed \in [key : 0 .. MaxKeys, n : Time]

Nobody == [exists |-> FALSE, key |-> 0, max |-> 0, revoke |-> FALSE]
NoList == [k \in Key |-> 0]

Init ==
  /\ now = 1
  /\ user = Nobody /\ minted = 0 /\ creds = {}
  /\ revocation = [k \in Key |-> NoEntry]
  /\ jwt = NoList /\ pushed = NoList
  /\ pc = [h \in Handler |-> "idle"]
  /\ req = [h \in Handler |-> NoReq]
  /\ snap = [h \in Handler |-> NoList]
  /\ owed = {} /\ retired = {}
  /\ confirmed = NoReq

-----------------------------------------------------------------------------
\* enrichAccountClaims: every stored revocation is listed with its creation time.
Listed(rev) == [k \in Key |-> rev[k].at]

\* The user's limit alone.
CappedByUser(ttl) ==
  IF user.max > 0 /\ ttl > user.max THEN user.max ELSE ttl
\* pathUserCredsRead caps what was asked for, first by the user's limit, then
\* by the system's. 0, which stands for "never expires", is under both.
Capped(ttl) ==
  LET t == IF user.max > 0 /\ ttl > user.max THEN user.max ELSE ttl
  IN IF t > MaxLeaseTTL THEN MaxLeaseTTL ELSE t

\* The user's limit alone.
UserMaxTtl == user.max

\* How long the key of a user that is deleted or rotated stays revoked.
RevokeTtl == IF user.max > MaxLeaseTTL THEN user.max ELSE MaxLeaseTTL

\* addUserToRevocationList: an entry that is already there is overwritten.
WithUserRevoked == [revocation EXCEPT ![user.key] = [at |-> now, ttl |-> RevokeTtl]]

Goto(h, l) == pc' = [pc EXCEPT ![h] = l]

\* The handler returns.
Return(h) ==
  /\ Goto(h, "idle")
  /\ req' = [req EXCEPT ![h] = NoReq]
  /\ snap' = [snap EXCEPT ![h] = NoList]

Idle(h) == pc[h] = "idle"

-----------------------------------------------------------------------------
(* Users and credentials.                                                   *)

\* pathUserCreateUpdate: a new user gets a key.
UserWrite(h, max, revoke) ==
  /\ Idle(h)
  /\ ~user.exists => minted < MaxKeys
  /\ minted' = IF user.exists THEN minted ELSE minted + 1
  /\ user' = [exists |-> TRUE, key |-> IF user.exists THEN user.key ELSE minted + 1,
              max |-> max, revoke |-> revoke]
  /\ UNCHANGED <<now, creds, revocation, jwt, pushed, local, history>>

\* pathUserCredsRead up to the user's key; a default stands for a ttl not given.
CredsRead(h, ttl) ==
  /\ Idle(h) /\ user.exists /\ Cardinality(creds) < MaxCreds
  /\ req' = [req EXCEPT ![h] = [key |-> user.key, n |-> Capped(ttl)]]
  /\ Goto(h, "sign")
  /\ UNCHANGED <<now, userData, revocation, jwt, pushed, snap, history>>

\* generateUserCreds, encodeUserJWT: without a ttl the JWT has no expiry.
CredsSign(h) ==
  /\ pc[h] = "sign"
  /\ creds' = creds \cup {[sub |-> req[h].key, iat |-> now,
                          exp |-> IF req[h].n > 0 THEN now + req[h].n ELSE 0]}
  /\ Return(h)
  /\ UNCHANGED <<now, user, minted, revocation, jwt, pushed, history>>

\* pathDeleteUserIssue with deleteUser.
UserDelete(h) ==
  /\ Idle(h) /\ user.exists
  /\ user' = Nobody
  /\ IF user.revoke
     THEN /\ revocation' = WithUserRevoked
          /\ owed' = owed \cup {user.key} /\ retired' = retired \cup {user.key}
          /\ req' = [req EXCEPT ![h] = [key |-> user.key, n |-> now]]
          /\ Goto(h, "issue")
     ELSE UNCHANGED <<revocation, owed, retired, req, pc>>
  /\ UNCHANGED <<now, minted, creds, jwt, pushed, snap, confirmed>>

\* UserRotate with the account JWT issued before the revocation is stored.
RotateIssuesFirst(h, revoke) ==
  /\ Idle(h) /\ user.exists /\ minted < MaxKeys
  /\ minted' = minted + 1
  /\ user' = [user EXCEPT !.key = minted + 1]
  /\ IF revoke
     THEN /\ revocation' = WithUserRevoked
          /\ jwt' = Listed(revocation)
          /\ owed' = {} /\ retired' = retired \cup {user.key}
     ELSE UNCHANGED <<revocation, jwt, owed, retired>>
  /\ UNCHANGED <<now, creds, pushed, local, confirmed>>

\* pathUserKeyRotate: the account JWT is issued in the transaction, and not pushed.
UserRotate(h, revoke) ==
  /\ Idle(h) /\ user.exists /\ minted < MaxKeys
  /\ minted' = minted + 1
  /\ user' = [user EXCEPT !.key = minted + 1]
  /\ IF revoke
     THEN /\ revocation' = WithUserRevoked
          /\ jwt' = Listed(WithUserRevoked)
          /\ owed' = {} /\ retired' = retired \cup {user.key}
     ELSE UNCHANGED <<revocation, jwt, owed, retired>>
  /\ UNCHANGED <<now, creds, pushed, local, confirmed>>

-----------------------------------------------------------------------------
(* Revocations.                                                             *)

\* pathAccountRevocationCreateUpdate for any key; a ttl that is not given
\* leaves the stored one, or 0.
WriteEntry(k, given, ttl) ==
  [at |-> now, ttl |-> IF given THEN ttl ELSE revocation[k].ttl]

\* RevocationWrite that pushes the account JWT without issuing it.
RevocationWriteUnissued(h, k, given, ttl) ==
  /\ Idle(h) /\ k <= minted
  /\ revocation' = [revocation EXCEPT ![k] = WriteEntry(k, given, ttl)]
  /\ owed' = owed \cup {k} /\ retired' = retired \ {k}
  /\ req' = [req EXCEPT ![h] = [key |-> k, n |-> now]]
  /\ Goto(h, "sync")
  /\ UNCHANGED <<now, userData, jwt, pushed, snap, confirmed>>

RevocationWrite(h, k, given, ttl) ==
  /\ Idle(h) /\ k <= minted
  /\ revocation' = [revocation EXCEPT ![k] = WriteEntry(k, given, ttl)]
  /\ owed' = owed \cup {k} /\ retired' = retired \ {k}
  /\ req' = [req EXCEPT ![h] = [key |-> k, n |-> now]]
  /\ Goto(h, "issue")
  /\ UNCHANGED <<now, userData, jwt, pushed, snap, confirmed>>

\* pathAccountRevocationDelete: the JWT is issued in the transaction.
RevocationDelete(h, k) ==
  /\ Idle(h) /\ revocation[k] # NoEntry
  /\ revocation' = [revocation EXCEPT ![k] = NoEntry]
  /\ jwt' = Listed(revocation')
  /\ owed' = {} /\ retired' = retired \ {k}
  /\ confirmed' = IF confirmed.key = k THEN NoReq ELSE confirmed
  /\ Goto(h, "sync")
  /\ UNCHANGED <<now, userData, pushed, req, snap>>

\* What is left of a stored entry. A permanent one has nothing left.
LeftBefore(k, exp) == revocation[k].at + revocation[k].ttl < exp

\* userCredsRevoke, when a lease is revoked long enough before the credentials
\* expire. The entry is stored and the account synced; no JWT is issued.
LeaseRevoke(h, c) ==
  /\ Idle(h) /\ ImplicitRevocations
  /\ c.exp > now + Buffer
  /\ IF LeftBefore(c.sub, c.exp)
     THEN /\ revocation' = [revocation EXCEPT ![c.sub] = [at |-> now, ttl |-> c.exp - now]]
          /\ owed' = owed \cup {c.sub}
     ELSE UNCHANGED <<revocation, owed>>
  /\ Goto(h, "sync")
  /\ UNCHANGED <<now, userData, jwt, pushed, req, snap, retired, confirmed>>

\* periodicPruneAccountRevocations: entries past their ttl.
Expired == {k \in Key : revocation[k].ttl # 0 /\ revocation[k].at + revocation[k].ttl < now}

\* periodicRefreshAccounts in the transaction of periodicFunc, which is one only
\* over a storage that has transactions: StartTxStorage is called without the
\* shim here. The sync reads outside of it, so what is pushed is the JWT before
\* the commit. When issuing fails the pruning is committed all the same
\* (issued = FALSE).
Periodic(issued, server) ==
  /\ Expired # {}
  /\ ~issued => Failures
  /\ revocation' = [k \in Key |-> IF k \in Expired THEN NoEntry ELSE revocation[k]]
  /\ IF issued THEN jwt' = Listed(revocation') /\ owed' = {} ELSE UNCHANGED <<jwt, owed>>
  /\ pushed' = IF issued /\ server THEN jwt ELSE pushed
  /\ confirmed' = IF confirmed.key \in Expired THEN NoReq ELSE confirmed
  /\ UNCHANGED <<now, userData, local, retired>>

\* The commit of periodicFunc fails: only the push has happened.
PeriodicFails ==
  /\ Failures /\ Expired # {}
  /\ pushed' = jwt
  /\ UNCHANGED <<now, userData, revocation, jwt, local, history>>

-----------------------------------------------------------------------------
(* After the commit: issueAndSaveAccountJWT and syncAccountUpdate.          *)

IssueRead(h) ==
  /\ pc[h] = "issue"
  /\ snap' = [snap EXCEPT ![h] = Listed(revocation)]
  /\ Goto(h, "write")
  /\ UNCHANGED <<now, userData, revocation, jwt, pushed, req, history>>

\* The other handlers that issue the account JWT in their transaction, and sync:
\* changes and rotations of the account, its signing keys, imports and operator.
OtherIssue(h) ==
  /\ Idle(h)
  /\ jwt' = Listed(revocation) /\ owed' = {}
  /\ Goto(h, "sync")
  /\ UNCHANGED <<now, userData, revocation, pushed, req, snap, retired, confirmed>>

\* Keys whose own handler has still to issue.
Pending(h) ==
  {k \in owed : \E g \in Handler \ {h} : pc[g] \in {"issue", "write"} /\ req[g].key = k}

IssueWrite(h) ==
  /\ pc[h] = "write"
  /\ jwt' = snap[h] /\ owed' = Pending(h)
  /\ Goto(h, "sync")
  /\ UNCHANGED <<now, userData, revocation, pushed, req, snap, retired, confirmed>>

\* There is an account server (SyncRead), or there is none.
SyncRead(h) ==
  /\ pc[h] = "sync"
  /\ snap' = [snap EXCEPT ![h] = jwt]
  /\ Goto(h, "push")
  /\ UNCHANGED <<now, userData, revocation, jwt, pushed, req, history>>

NoServer(h) ==
  /\ pc[h] = "sync"
  /\ Return(h)
  /\ UNCHANGED <<now, userData, revocation, jwt, pushed, history>>

\* NATS takes the JWT, and the request that made a revocation is answered.
\* A key whose entry was removed meanwhile is nobody's concern any more.
Push(h) ==
  /\ pc[h] = "push"
  /\ pushed' = snap[h]
  /\ confirmed' = IF req[h].key # 0 /\ revocation[req[h].key] # NoEntry THEN req[h] ELSE confirmed
  /\ Return(h)
  /\ UNCHANGED <<now, userData, revocation, jwt, owed, retired>>

\* An error of the storage or of the push, or the end of the process.
GiveUp(h) ==
  /\ Failures /\ pc[h] # "idle"
  /\ Return(h)
  /\ UNCHANGED <<now, userData, revocation, jwt, pushed, history>>

Tick ==
  /\ now < MaxTime
  /\ now' = now + 1
  /\ UNCHANGED <<userData, revocation, jwt, pushed, local, history>>

Handle(h) ==
  \/ \E max \in LimitTtl, revoke \in BOOLEAN : UserWrite(h, max, revoke)
  \/ \E ttl \in CredsTtl : CredsRead(h, ttl)
  \/ CredsSign(h)
  \/ UserDelete(h)
  \/ \E revoke \in BOOLEAN : UserRotate(h, revoke)
  \/ \E k \in Key, given \in BOOLEAN, ttl \in RevocationTtl : RevocationWrite(h, k, given, ttl)
  \/ \E k \in Key : RevocationDelete(h, k)
  \/ \E c \in creds : LeaseRevoke(h, c)
  \/ OtherIssue(h)
  \/ IssueRead(h)
  \/ IssueWrite(h)
  \/ SyncRead(h)
  \/ NoServer(h)
  \/ Push(h)
  \/ GiveUp(h)

Next ==
  \/ \E h \in Handler : Handle(h)
  \/ \E issued, server \in BOOLEAN : Periodic(issued, server)
  \/ PeriodicFails
  \/ Tick

Spec == Init /\ [][Next]_vars

-----------------------------------------------------------------------------
\* No stored revocation is missing from the stored account JWT, or listed with
\* an earlier time, once an account JWT was issued after it: whichever of the
\* handlers, the rotation and the pruning issues it, and whatever failed before.
\* (One that was pruned may still be listed.)
RevocationsListed == \A k \in Key \ owed : jwt[k] >= revocation[k].at

\* When a request that revokes a key was answered and the JWT pushed, NATS has
\* the key on its list with that time or a later one until the entry is deleted
\* or pruned, whatever is issued and pushed afterwards.
RevokedAtNats == confirmed # NoReq => pushed[confirmed.key] >= confirmed.n

\* The revocation of a deleted or rotated user outlives all its credentials
\* that expire, although creds_max_ttl may have been lowered since they were
\* issued, leases revoked, and expired revocations pruned
\* (pathDeleteUserIssue, pathUserKeyRotate: max(CredsMaxTtl, MaxLeaseTTL)).
RetiredRefused ==
  \A c \in creds : c.sub \in retired \ owed /\ c.exp >= now => jwt[c.sub] >= c.iat

\* docs/Home.md:655: "The account revocations created by lease revocations are
\* the same as those created using the `nats/revocations/` endpoint." With no
\* request under way, and none having failed, the account JWT lists them all.
AllRevocationsListed ==
  (\A h \in Handler : Idle(h)) => \A k \in Key : jwt[k] >= revocation[k].at

\* docs/Home.md:527: "If no `ttl` is specified, the revocation will never
\* expire." An entry without ttl is there, without ttl, until an administrator
\* writes or deletes it; userCredsRevoke and addUserToRevocationList leave it.
PermanentStays ==
  [][\A k \in Key :
       revocation[k] # NoEntry /\ revocation[k].ttl = 0 /\ revocation'[k] # revocation[k]
       => \E h \in Handler : \/ \E given \in BOOLEAN, ttl \in RevocationTtl : RevocationWrite(h, k, given, ttl)
                             \/ RevocationDelete(h, k)]_vars
=============================================================================
