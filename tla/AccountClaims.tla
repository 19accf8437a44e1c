--------------------------- MODULE AccountClaims ----------------------------
(***************************************************************************)
(* What the JWT of one account says, and the credentials signed under it.   *)
(* The JWT is made from the account's raw claims, its imports and its       *)
(* signing keys, which handlers of their own write under paths of their     *)
(* own; each handler decides whether its change reaches the JWT, and        *)
(* whether the JWT is pushed to NATS after the commit.                      *)
(*                                                                          *)
(* A handler's transaction is one step.  Revocations issue the JWT after the *)
(* commit, on the storage itself: reading the entry, reading the rest and    *)
(* storing the JWT are steps, and so are, for whoever syncs, reading the     *)
(* JWT, the request to NATS, and reading the entry and writing it back with  *)
(* its new status.  Other handlers commit in between, reads and writes fail, *)
(* the process dies.  What the status says, and the requests themselves, are *)
(* AccountSync's; revocations are UserRevocation's, the operator key that    *)
(* signs is TrustChain's.                                                    *)
(***************************************************************************)
EXTENDS Naturals

CONSTANTS
  Handler,      \* goroutines that serve requests
  SigningName,  \* names of account signing keys
  ImportName,   \* names of account imports
  Subject,      \* subjects that are imported
  User,         \* users and ephemeral users, which differ only in their key
  RawImport,    \* the subject of an import written in the raw claims
  RawSigner,    \* a signing key written in the raw claims
  None,         \* no entry, no name
  MaxKeys,      \* bound: account keys minted in a behaviour
  MaxRequests   \* bound: requests in a behaviour

ASSUME ClaimsAssumption ==
  /\ None \notin SigningName /\ RawImport \notin Subject
  /\ MaxKeys \in Nat /\ MaxRequests \in Nat /\ RawSigner \notin 0 .. MaxKeys

VARIABLES
  acc,     \* the account entry: [raw, default], or None
  key,     \* the account's identity key, 0 for none
  skey,    \* skey[n]: the signing key [key, scoped, template] called n, or None
  imp,     \* imp[n]: the import claims of the entry n, empty for no entry
  user,    \* user[u]: the entry [default] of u, or None
  jwt,     \* what the stored account JWT says, or None
  nats,    \* the JWT that was pushed last, or None
  minted,  \* how many keys were minted
  served,  \* how many requests were begun
  pc,      \* where a handler is
  tok,     \* the JWT it is going to store, or to push
  entry,   \* the account entry it has read
  overtaken,  \* history: another handler has changed what it has read
  late,    \* history: a JWT, or an account entry, was stored by a handler that
           \* was overtaken, and no JWT was issued from what is stored since
  missed   \* history: since the last push that was taken, one failed, was
           \* skipped or was overtaken

parts == <<acc, key, skey, imp, minted>>
local == <<pc, tok, entry, overtaken>>
vars == <<parts, user, jwt, nats, served, local, late, missed>>

Key == 1 .. MaxKeys
Name == SigningName \cup {None}

AccountEntry == [raw : BOOLEAN, default : Name]
NkeyEntry == [key : Key, scoped : BOOLEAN, template : {None, "good", "bad"}]
Claim == [subject : Subject \cup {RawImport}, share : BOOLEAN]
Signer == [key : Key \cup {RawSigner}, scoped : BOOLEAN, template : {None, "good", "bad"}]
Token == [sub : Key, imports : SUBSET Claim, signers : SUBSET Signer]

ASSUME NoneAssumption == None \notin AccountEntry \cup NkeyEntry \cup Token \cup [default : Name]

\* Every variable has its type, a handler has read what it is going to store or
\* to push, and no two claims of an import entry are for the same subject.
TypeOK ==
  /\ acc \in AccountEntry \cup {None}
  /\ key \in 0 .. MaxKeys
  /\ skey \in [SigningName -> NkeyEntry \cup {None}]
  /\ imp \in [ImportName -> SUBSET Claim]
  /\ \A n \in ImportName : \A c, d \in imp[n] : c.subject = d.subject => c = d
  /\ user \in [User -> [default : Name] \cup {None}]
  /\ jwt \in Token \cup {None}
  /\ nats \in Token \cup {None}
  /\ minted \in 0 .. MaxKeys /\ served \in 0 .. MaxRequests
  /\ pc \in [Handler -> {"idle", "issue", "read", "save", "sync", "push", "status", "store", "commit"}]
  /\ tok \in [Handler -> Token \cup {None}]
  /\ entry \in [Handler -> AccountEntry \cup {None}]
  /\ overtaken \in [Handler -> BOOLEAN]
  /\ \A h \in Handler : /\ pc[h] \in {"save", "push"} => tok[h] # None
                        /\ pc[h] \in {"read", "store"} => entry[h] # None
  /\ late \in BOOLEAN /\ missed \in BOOLEAN

Init ==
  /\ acc = None /\ key = 0
  /\ skey = [n \in SigningName |-> None]
  /\ imp = [n \in ImportName |-> {}]
  /\ user = [u \in User |-> None]
  /\ jwt = None /\ nats = None
  /\ minted = 0 /\ served = 0
  /\ pc = [h \in Handler |-> "idle"]
  /\ tok = [h \in Handler |-> None]
  /\ entry = [h \in Handler |-> None]
  /\ overtaken = [h \in Handler |-> FALSE]
  /\ late = FALSE /\ missed = FALSE

-----------------------------------------------------------------------------
(* The claims of the account JWT.                                           *)

StoredKeys(sk) == {sk[n] : n \in SigningName} \ {None}

\* An unscoped key is listed without a scope.
AsSigner(x) == [key |-> x.key, scoped |-> x.scoped, template |-> IF x.scoped THEN x.template ELSE None]

\* Imports stored under the account take the place of those in the raw claims.
ImportsOf(a, im) ==
  LET stored == UNION {im[n] : n \in ImportName}
  IN IF stored = {} /\ a.raw THEN {[subject |-> RawImport, share |-> FALSE]} ELSE stored

\* Signing keys stored under the account are added to those in the raw claims.
SignersOf(a, sk) ==
  {AsSigner(x) : x \in StoredKeys(sk)}
    \cup (IF a.raw THEN {[key |-> RawSigner, scoped |-> FALSE, template |-> None]} ELSE {})

Claims(a, k, sk, im) == [sub |-> k, imports |-> ImportsOf(a, im), signers |-> SignersOf(a, sk)]

\* Claims that cannot be made into a JWT: imports of two entries overlap, or
\* the template of a scoped key is not one.
Invalid(sk, im) ==
  \/ \E m, n \in ImportName : m # n /\ \E c \in im[m], d \in im[n] : c.subject = d.subject
  \/ \E x \in StoredKeys(sk) : x.scoped /\ x.template = "bad"

\* issueAndSaveAccountJWT in a transaction: nothing to issue without the account;
\* a handler whose issue fails returns the error and is rolled back.
Issue(a, k, sk, im) ==
  IF a = None THEN UNCHANGED <<jwt, late>>
  ELSE /\ k # 0 /\ ~Invalid(sk, im)
       /\ jwt' = Claims(a, k, sk, im)
       /\ late' = FALSE

-----------------------------------------------------------------------------
(* Handlers and what they hold.                                             *)

At(h, l, t, e) ==
  /\ pc' = [pc EXCEPT ![h] = l]
  /\ tok' = [tok EXCEPT ![h] = t]
  /\ entry' = [entry EXCEPT ![h] = e]

\* The handler goes on with nothing in hand.
Goto(h, l) == At(h, l, None, None)

Idle(h) == pc[h] = "idle"

\* The handler has let go of what it had read.
LetGo(h) == overtaken' = [overtaken EXCEPT ![h] = FALSE]

\* A step of h that stores something overtakes the others that have read it.
Overtake(h) ==
  overtaken' = [g \in Handler |->
    /\ g # h
    /\ \/ overtaken[g]
       \/ pc[g] \in {"read", "store"} /\ acc' # acc
       \/ pc[g] = "save" /\ <<acc, key, skey, imp>>' # <<acc, key, skey, imp>>
       \/ pc[g] = "push" /\ jwt' # jwt]

\* The end of a transaction: the JWT is issued if dirty, and then pushed.
IssueAndPush(h, dirty, a, k, sk, im) ==
  /\ IF dirty THEN Issue(a, k, sk, im) ELSE UNCHANGED <<jwt, late>>
  /\ Goto(h, IF dirty THEN "sync" ELSE "idle")
  /\ Overtake(h)
  /\ UNCHANGED <<nats, missed>>

Mint == minted < MaxKeys /\ minted' = minted + 1

-----------------------------------------------------------------------------
(* Transactions.                                                            *)

\* pathAccountCreateUpdate, with the claims and the default key it ends with.
AccountWrite(h, e) ==
  /\ Idle(h)
  /\ IF acc = None THEN Mint /\ key' = minted + 1 ELSE UNCHANGED <<minted, key>>
  /\ acc' = e
  /\ UNCHANGED <<skey, imp, user>>
  /\ IssueAndPush(h, acc # e, e, key', skey, imp)

\* pathAccountDelete before its commit: NATS is asked to drop the account, and may
\* not do it. Without a key there is nothing to ask for, and if there is a server
\* to ask the deletion is given up.
AccountDelete(h) ==
  /\ Idle(h) /\ acc # None
  /\ nats' = nats \/ (key # 0 /\ nats' = None)
  /\ Goto(h, "commit")
  /\ UNCHANGED <<parts, user, jwt, overtaken, late, missed>>

\* The mutant of CommitDelete leaves the imports behind.
CommitDeleteNoImports(h) ==
  /\ pc[h] = "commit"
  /\ acc' = None /\ key' = 0 /\ jwt' = None
  /\ skey' = [n \in SigningName |-> None]
  /\ user' = [u \in User |-> None]
  /\ late' = FALSE
  /\ UNCHANGED <<imp, nats, missed, minted>>
  /\ Goto(h, "idle") /\ Overtake(h)

\* deleteAccount removes all that is stored under the account.
CommitDelete(h) ==
  /\ pc[h] = "commit"
  /\ acc' = None /\ key' = 0 /\ jwt' = None
  /\ skey' = [n \in SigningName |-> None]
  /\ imp' = [n \in ImportName |-> {}]
  /\ user' = [u \in User |-> None]
  /\ late' = FALSE
  /\ UNCHANGED <<nats, missed, minted>>
  /\ Goto(h, "idle") /\ Overtake(h)

\* A later step of the deletion fails, or the commit: NATS may have dropped the
\* account all the same.
DeleteFails(h) ==
  /\ pc[h] = "commit"
  /\ missed' = TRUE
  /\ Goto(h, "idle") /\ LetGo(h)
  /\ UNCHANGED <<parts, user, jwt, nats, late>>

\* pathRotateAccount.
AccountRotate(h) ==
  /\ Idle(h) /\ key # 0
  /\ Mint /\ key' = minted + 1
  /\ UNCHANGED <<acc, skey, imp, user>>
  /\ IssueAndPush(h, TRUE, acc, key', skey, imp)

\* The JWT is issued in a transaction for other reasons. Deleted revocations and
\* operator signing keys push it, rotations of the operator's keys suspend the
\* account server instead.
Reissue(h) ==
  /\ Idle(h) /\ acc # None
  /\ Issue(acc, key, skey, imp)
  /\ \/ Goto(h, "sync") /\ UNCHANGED missed
     \/ Goto(h, "idle") /\ missed' = TRUE
  /\ UNCHANGED <<parts, user, nats>>
  /\ Overtake(h)

\* pathAccountSigningNkeyCreateUpdate. The account need not exist.
SigningKeyWrite(h, n, scoped, template) ==
  LET old == skey[n]
      dirty == \/ old = None
               \/ scoped # old.scoped
               \/ scoped /\ template # old.template
  IN /\ Idle(h)
     /\ IF old = None THEN Mint ELSE UNCHANGED minted
     /\ skey' = [skey EXCEPT ![n] = [key      |-> IF old = None THEN minted + 1 ELSE old.key,
                                     scoped   |-> scoped,
                                     template |-> template]]
     /\ UNCHANGED <<acc, key, imp, user>>
     /\ IssueAndPush(h, dirty, acc, key, skey', imp)

\* The mutant of SigningKeyDelete does not issue.
SigningKeyDeleteUnissued(h, n) ==
  /\ Idle(h) /\ skey[n] # None
  /\ skey' = [skey EXCEPT ![n] = None]
  /\ UNCHANGED <<acc, key, imp, minted, user, jwt, nats, late, missed, pc, tok, entry>>
  /\ Overtake(h)

\* pathAccountSigningNkeyDelete issues and does not push. What was stored late
\* before it has been pushed, and stays at NATS.
SigningKeyDelete(h, n) ==
  /\ Idle(h) /\ skey[n] # None
  /\ skey' = [skey EXCEPT ![n] = None]
  /\ UNCHANGED <<acc, key, imp, minted, user, nats, pc, tok, entry>>
  /\ Issue(acc, key, skey', imp)
  /\ missed' = (missed \/ late)
  /\ Overtake(h)

\* The mutant of SigningKeyRotate does not push.
SigningKeyRotateUnpushed(h, n) ==
  /\ Idle(h) /\ skey[n] # None
  /\ Mint
  /\ skey' = [skey EXCEPT ![n] = [key |-> minted + 1, scoped |-> FALSE, template |-> None]]
  /\ UNCHANGED <<acc, key, imp, user, nats, missed, pc, tok, entry>>
  /\ Issue(acc, key, skey', imp)
  /\ Overtake(h)

\* pathRotateAccountSigningKey writes a fresh entry: scope and template are
\* those of a new key.
SigningKeyRotate(h, n) ==
  /\ Idle(h) /\ skey[n] # None
  /\ Mint
  /\ skey' = [skey EXCEPT ![n] = [key |-> minted + 1, scoped |-> FALSE, template |-> None]]
  /\ UNCHANGED <<acc, key, imp, user>>
  /\ IssueAndPush(h, TRUE, acc, key, skey', imp)

\* The mutant of ImportWrite does not validate the list.
ImportWriteUnvalidated(h, n, claims) ==
  /\ Idle(h) /\ key # 0 /\ claims # {}
  /\ imp' = [imp EXCEPT ![n] = claims]
  /\ UNCHANGED <<acc, key, skey, user, minted>>
  /\ IssueAndPush(h, TRUE, acc, key, skey, imp')

\* pathAccountImportCreateUpdate with the list of imports.
ImportWrite(h, n, claims) ==
  /\ Idle(h) /\ key # 0 /\ claims # {}
  /\ \A c, d \in claims : c.subject = d.subject => c = d
  /\ imp' = [imp EXCEPT ![n] = claims]
  /\ UNCHANGED <<acc, key, skey, user, minted>>
  /\ IssueAndPush(h, TRUE, acc, key, skey, imp')

\* pathAccountImportCreateUpdate with the parameters of its only import at the
\* root. updateImportParams sets the flags share and allow_trace before it
\* compares them, so that a change of these does not count as one.
ImportTune(h, n, c) ==
  LET dirty == \A d \in imp[n] : d.subject # c.subject
  IN /\ Idle(h) /\ key # 0 /\ \A d, e \in imp[n] : d = e
     /\ imp' = [imp EXCEPT ![n] = {c}]
     /\ UNCHANGED <<acc, key, skey, user, minted>>
     /\ IssueAndPush(h, dirty, acc, key, skey, imp')

\* pathAccountImportDelete does not ask whether there is such an import.
ImportDelete(h, n) ==
  /\ Idle(h)
  /\ imp' = [imp EXCEPT ![n] = {}]
  /\ UNCHANGED <<acc, key, skey, user, minted>>
  /\ IssueAndPush(h, TRUE, acc, key, skey, imp')

\* pathUserCreateUpdate, pathEphemeralUserCreateUpdate.
UserWrite(h, u, default) ==
  /\ Idle(h) /\ acc # None
  /\ user' = [user EXCEPT ![u] = [default |-> default]]
  /\ UNCHANGED <<parts, jwt, nats, local, late, missed>>

\* pathDeleteUserIssue, which goes on to issue the JWT if the user's credentials
\* were revoked, and pathEphemeralUserDelete.
UserDelete(h, u) ==
  /\ Idle(h)
  /\ user' = [user EXCEPT ![u] = None]
  /\ Goto(h, "idle") \/ (user[u] # None /\ Goto(h, "issue"))
  /\ UNCHANGED <<parts, jwt, nats, overtaken, late, missed>>

\* pathAccountRevocationCreateUpdate.
RevocationWrite(h) ==
  /\ Idle(h) /\ acc # None
  /\ Goto(h, "issue")
  /\ UNCHANGED <<parts, user, jwt, nats, overtaken, late, missed>>

\* A write that issues nothing and still syncs: sync_now of the account server,
\* the revocation of a lease.
SyncOnly(h) ==
  /\ Idle(h)
  /\ Goto(h, "sync")
  /\ UNCHANGED <<parts, user, jwt, nats, overtaken, late, missed>>

-----------------------------------------------------------------------------
(* issueAndSaveAccountJWT after the commit, on the storage itself.           *)

ReadAccount(h) ==
  /\ pc[h] = "issue"
  /\ IF acc = None THEN Goto(h, "sync") ELSE At(h, "read", None, acc)
  /\ UNCHANGED <<parts, user, jwt, nats, overtaken, late, missed>>

\* The account's key, imports and signing keys.
ReadParts(h) ==
  /\ pc[h] = "read" /\ key # 0 /\ ~Invalid(skey, imp)
  /\ At(h, "save", Claims(entry[h], key, skey, imp), None)
  /\ UNCHANGED <<parts, user, jwt, nats, overtaken, late, missed>>

\* The JWT is late if what it was made of has changed.
SaveJwt(h) ==
  /\ pc[h] = "save"
  /\ jwt' = tok[h]
  /\ late' = overtaken[h]
  /\ UNCHANGED <<parts, user, nats, missed>>
  /\ Goto(h, "sync") /\ Overtake(h)

\* A read or the write fails, or there is no key: the JWT stays as it is, and
\* nothing is pushed.
IssueFails(h) ==
  /\ pc[h] \in {"issue", "read", "save"}
  /\ Goto(h, "idle") /\ LetGo(h)
  /\ UNCHANGED <<parts, user, jwt, nats, late, missed>>

-----------------------------------------------------------------------------
(* syncAccountUpdate after the commit. It pushes the JWT stored by then.     *)

ReadJwt(h) ==
  /\ pc[h] = "sync" /\ jwt # None
  /\ At(h, "push", jwt, None)
  /\ UNCHANGED <<parts, user, jwt, nats, overtaken, late, missed>>

\* Nothing is pushed: there is no server to push to or the read fails, or, with
\* an error for the status, the server does not start or there is no JWT.
NoPush(h) ==
  /\ pc[h] = "sync"
  /\ missed' = TRUE
  /\ Goto(h, "idle") \/ Goto(h, "status")
  /\ UNCHANGED <<parts, user, jwt, nats, overtaken, late>>

\* The request is taken: NATS has the JWT that was read.
Push(h) ==
  /\ pc[h] = "push"
  /\ nats' = tok[h]
  /\ missed' = overtaken[h]
  /\ Goto(h, "status") /\ LetGo(h)
  /\ UNCHANGED <<parts, user, jwt, late>>

\* The request is refused or lost, or not made with updates disabled.
PushFails(h) ==
  /\ pc[h] = "push"
  /\ missed' = TRUE
  /\ Goto(h, "status") /\ LetGo(h)
  /\ UNCHANGED <<parts, user, jwt, nats, late>>

\* updateAccountSyncStatus reads the entry; without one it dereferences nil, and
\* the process ends (Crash).
ReadEntry(h) ==
  /\ pc[h] = "status" /\ acc # None
  /\ At(h, "store", None, acc)
  /\ UNCHANGED <<parts, user, jwt, nats, overtaken, late, missed>>

\* The whole entry is written back as it was read, but for its status.
StoreStatus(h) ==
  /\ pc[h] = "store"
  /\ acc' = entry[h]
  /\ late' = (late \/ overtaken[h])
  /\ UNCHANGED <<key, skey, imp, minted, user, jwt, nats, missed>>
  /\ Goto(h, "idle") /\ Overtake(h)

StatusFails(h) ==
  /\ pc[h] \in {"status", "store"}
  /\ Goto(h, "idle") /\ LetGo(h)
  /\ UNCHANGED <<parts, user, jwt, nats, late, missed>>

\* The process dies with whatever it was doing, and is started again.
Crash ==
  /\ \E h \in Handler : ~Idle(h)
  /\ missed' = TRUE
  /\ pc' = [h \in Handler |-> "idle"]
  /\ tok' = [h \in Handler |-> None]
  /\ entry' = [h \in Handler |-> None]
  /\ overtaken' = [h \in Handler |-> FALSE]
  /\ UNCHANGED <<parts, user, jwt, nats, late>>

Request(h) ==
  \/ \E e \in AccountEntry : AccountWrite(h, e)
  \/ AccountDelete(h)
  \/ AccountRotate(h)
  \/ Reissue(h)
  \/ \E n \in SigningName :
       \/ \E scoped \in BOOLEAN, template \in {None, "good", "bad"} :
            SigningKeyWrite(h, n, scoped, template)
       \/ SigningKeyDelete(h, n)
       \/ SigningKeyRotate(h, n)
  \/ \E n \in ImportName :
       \/ \E claims \in SUBSET [subject : Subject, share : BOOLEAN] : ImportWrite(h, n, claims)
       \/ \E c \in [subject : Subject, share : BOOLEAN] : ImportTune(h, n, c)
       \/ ImportDelete(h, n)
  \/ \E u \in User : UserDelete(h, u) \/ \E default \in Name : UserWrite(h, u, default)
  \/ RevocationWrite(h)
  \/ SyncOnly(h)

Later(h) ==
  \/ CommitDelete(h)
  \/ DeleteFails(h)
  \/ ReadAccount(h)
  \/ ReadParts(h)
  \/ SaveJwt(h)
  \/ IssueFails(h)
  \/ ReadJwt(h)
  \/ NoPush(h)
  \/ Push(h)
  \/ PushFails(h)
  \/ ReadEntry(h)
  \/ StoreStatus(h)
  \/ StatusFails(h)

Next ==
  \/ /\ served < MaxRequests /\ served' = served + 1
     /\ \E h \in Handler : Request(h)
  \/ /\ UNCHANGED served
     /\ Crash \/ \E h \in Handler : Later(h)

Spec == Init /\ [][Next]_vars

-----------------------------------------------------------------------------
(* pathUserCredsRead and pathEphemeralUserCredsRead: the key named in the    *)
(* request signs, else the user's default, else the account's, else the     *)
(* account's identity key. A name without a key is an error.                *)

KeyName(u, req) ==
  CASE req # None             -> req
    [] user[u].default # None -> user[u].default
    [] OTHER                  -> acc.default

CredsRefused(u, req) ==
  \/ user[u] = None \/ key = 0
  \/ KeyName(u, req) # None /\ skey[KeyName(u, req)] = None

\* The mutant of Limited takes the scope for a matter of the template.
LimitedByTemplate(x) == x.scoped /\ x.template # None

\* A user signed with a scoped key gets no limits of its own.
Limited(x) == x.scoped

Creds(u, req) ==
  LET n == KeyName(u, req)
  IN IF n = None THEN [signer |-> key, issuerAccount |-> 0, bare |-> FALSE]
     ELSE [signer |-> skey[n].key, issuerAccount |-> key, bare |-> Limited(skey[n])]

\* The server takes credentials signed by the account's key, or in its name by
\* one of its signing keys: without limits exactly if the key has a scope.
Accepts(token, c) ==
  \/ c.signer = token.sub /\ c.issuerAccount = 0 /\ ~c.bare
  \/ /\ c.issuerAccount = token.sub
     /\ \E x \in token.signers : x.key = c.signer /\ x.scoped = c.bare

-----------------------------------------------------------------------------
Imported(token) == {c.subject : c \in token.imports}

\* The token says what issuing it now would say, the flags of imports aside.
SaysClaims(token) ==
  LET c == Claims(acc, key, skey, imp)
  IN token.sub = c.sub /\ token.signers = c.signers /\ Imported(token) = Imported(c)

\* The stored JWT is what issuing it now would give, whichever handlers wrote
\* the parts it is made of, in whatever order, the flags of imports aside: none
\* of them judges a change wrongly as one that need not be issued. The exception
\* is a JWT, or an account entry, stored outside a transaction by a handler that
\* another one has overtaken (late), which lasts until the next JWT is issued; with
\* one handler at a time there is none, and see JwtUpToDate for two.
JwtFresh == acc # None /\ ~late => key # 0 /\ jwt # None /\ SaysClaims(jwt)

\* docs/API.md:1063: "Modifying an accounts's claims will reissue the account
\* JWT." When no request is being served, the JWT says what the claims are.
JwtUpToDate ==
  acc # None /\ (\A h \in Handler : Idle(h)) => jwt # None /\ SaysClaims(jwt)

\* docs/API.md:1063: "Modifying an accounts's claims will reissue the account
\* JWT." The imports of the JWT are the stored ones, flags included.
ImportsFresh == acc # None /\ ~late => jwt.imports = ImportsOf(acc, imp)

\* docs/Home.md:494: "These imports are merged into the list of imports on the
\* account claim whenever the account JWT is reissued." An import of the raw
\* claims is still there.
ImportsMerged ==
  acc # None /\ ~late /\ acc.raw => \E x \in jwt.imports : x.subject = RawImport

\* Whoever asks for credentials, with whatever key name, gets an error or
\* credentials that a server with the stored account JWT accepts: the key, the
\* issuer account and the limits of credentials are read from other entries
\* than the JWT was made from. The exception is that of JwtFresh.
CredsVerify ==
  ~late => \A u \in User, req \in Name : ~CredsRefused(u, req) => Accepts(jwt, Creds(u, req))

\* No handler has still to push, or has asked NATS to drop the account.
Settled == \A h \in Handler : pc[h] \notin {"sync", "push", "commit"}

\* When every handler has pushed, and since the last push that NATS took none
\* failed and none was overtaken by another handler's JWT, NATS has the stored JWT,
\* except for flags of imports and that it may list signing keys which have been
\* deleted (pathAccountSigningNkeyDelete does not push). A JWT that is late is
\* excepted as in JwtFresh.
NatsCurrent ==
  acc # None /\ Settled /\ ~missed /\ ~late =>
    /\ nats # None /\ nats.sub = jwt.sub
    /\ Imported(nats) = Imported(jwt)
    /\ jwt.signers \subseteq nats.signers
    /\ \A x \in nats.signers \ jwt.signers : \A y \in StoredKeys(skey) : x.key # y.key

\* docs/API.md:1414: "account JWT changes will be automatically pushed to the
\* NATS server. As a consequence, all user credentials signed with this signing
\* key will immediately be invalidated." NATS has the stored JWT.
NatsExact == acc # None /\ Settled /\ ~missed /\ ~late => nats = jwt

\* Without its entry nothing of the account is left that would come back with
\* the next account of the name, nor can anything be written (path_accounts.go:628:
\* "deleteAccount removes an account and all of its dependent objects"). Signing
\* keys are an exception, since they can be written without the account, and so is
\* a JWT that a revocation issues when the account has been deleted meanwhile.
NoLeftovers ==
  acc = None =>
    /\ key = 0 /\ (jwt = None \/ late)
    /\ \A n \in ImportName : imp[n] = {}
    /\ \A u \in User : user[u] = None

\* docs/API.md:1293: "`scoped` - Whether this signing key should be scoped." A
\* key that a request made scoped stays so until a request says otherwise:
\* rotating it changes the key, not what its users may do.
ScopeByRequest ==
  [][\A h \in Handler, n \in SigningName :
       skey[n] # None /\ SigningKeyRotate(h, n) => skey'[n].scoped = skey[n].scoped]_vars
=============================================================================
