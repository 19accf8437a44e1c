----------------------------- MODULE TrustChain -----------------------------
(***************************************************************************)
(* The chain of trust the secrets engine keeps in its storage for one      *)
(* operator: the operator entry and its identity nkey, the operator        *)
(* signing keys, the accounts and their identity nkeys, and the JWTs that  *)
(* are issued from them (operator JWT, account JWTs), with the suspend     *)
(* flag of the operator's account server.  Everything below one operator   *)
(* is stored under its name, so operators do not interact.                 *)
(*                                                                         *)
(* A handler runs in one storage transaction (StartTxStorageWithShim ..    *)
(* EndTxStorage): its writes appear together or, on any error, not at all. *)
(* Each action is one whole transaction; what a handler does after its     *)
(* commit (pushing to NATS) is not in this module.                         *)
(***************************************************************************)
EXTENDS Naturals

CONSTANTS
  Account,     \* account names
  SigningKey,  \* names of operator signing keys
  Op,          \* owner of the operator identity key
  NoName,      \* the empty string in a signing_key field
  None,        \* a storage path that holds no entry
  RawKey,      \* a signing key declared in the operator's raw claims
  MaxKeys      \* bound: nkeys minted in a behaviour

ASSUME NamesAssumption ==
  /\ Op \notin SigningKey \cup Account
  /\ NoName \notin SigningKey
  /\ SigningKey \cap Account = {}
  /\ RawKey \notin Nat
  /\ MaxKeys \in Nat

ASSUME NoneAssumption ==
  /\ None \notin [default : SigningKey \cup {NoName}, sys : Account, managed : BOOLEAN, raw : BOOLEAN]
  /\ None \notin [signingKey : SigningKey \cup {NoName}, managed : BOOLEAN, isSys : BOOLEAN]
  /\ None \notin [iss : Nat, sub : Nat]
  /\ None \notin [sub : Nat, sks : SUBSET (Nat \cup {RawKey}), sys : Nat]

VARIABLES
  operator,   \* operators/<op>: default_signing_key, system_account_name, create_system_account,
              \* and whether the raw claims declare a signing key
  nkey,       \* operator-keys, operator-signing-keys, account-keys: the public key stored, 0 for none
  account,    \* accounts/<op>/<acc>
  accJwt,     \* account-jwts/<op>/<acc>: issuer and subject of the token
  opJwt,      \* operator-jwts/<op>: subject, signing keys and system account of the token
  server,     \* account-servers/<op>: "none", "running" or "suspended"
  deployed,   \* the operator keys trusted by the configuration of the NATS servers
  created,    \* history: keys of signing keys created beside a running account server
              \* since an operator JWT was last installed in NATS
  minted      \* how many nkeys were generated so far; a new one is minted + 1

vars == <<operator, nkey, account, accJwt, opJwt, server, deployed, created, minted>>

Owner == {Op} \cup SigningKey \cup Account
KeyName == SigningKey \cup {NoName}

OperatorEntry == [default : KeyName, sys : Account, managed : BOOLEAN, raw : BOOLEAN]
AccountEntry == [signingKey : KeyName, managed : BOOLEAN, isSys : BOOLEAN]
AccountToken == [iss : Nat, sub : Nat]
OperatorToken == [sub : Nat, sks : SUBSET (Nat \cup {RawKey}), sys : Nat]

TypeOK ==
  /\ operator \in OperatorEntry \cup {None}
  /\ nkey \in [Owner -> Nat]
  /\ account \in [Account -> AccountEntry \cup {None}]
  /\ accJwt \in [Account -> AccountToken \cup {None}]
  /\ opJwt \in OperatorToken \cup {None}
  /\ server \in {"none", "running", "suspended"}
  /\ deployed \in SUBSET (Nat \cup {RawKey})
  /\ created \in SUBSET Nat
  /\ minted \in Nat

-----------------------------------------------------------------------------
(* What the issuing functions compute. nk, opr and entry are the values in  *)
(* the transaction at the call.                                             *)
(*                                                                          *)
(* Some operators and actions are preceded by a faulty variant (WantedKey   *)
(* by WantedKeyOwnOnly, ...). No behaviour uses a variant: each stands for  *)
(* a plausible mistake that one of the properties must notice.              *)

\* A signing key name that is set and has a stored nkey.
Resolves(nk, name) == name # NoName /\ nk[name] # 0

\* issueAndSaveAccountJWT: the account's signing key, else the operator's
\* default signing key, else the operator identity key.
SignerOf(opr, nk, entry) ==
  IF Resolves(nk, entry.signingKey) THEN nk[entry.signingKey]
  ELSE IF Resolves(nk, opr.default) THEN nk[opr.default]
  ELSE nk[Op]

IssueAccount(opr, nk, entry, a) == [iss |-> SignerOf(opr, nk, entry), sub |-> nk[a]]

\* issueAndSaveAccountJWT for every account of S; an absent account is skipped.
Reissue(opr, nk, acc, jwts, S) ==
  [a \in Account |-> IF a \in S /\ acc[a] # None
                     THEN IssueAccount(opr, nk, acc[a], a)
                     ELSE jwts[a]]

\* listOperatorSigningKeys.
StoredSigners(nk) == {nk[n] : n \in SigningKey} \ {0}

\* enrichOperatorClaims copies the declared keys into a slice of length zero, so
\* that they stay only while no signing key is stored.
SigningKeysOf(opr, nk) ==
  IF StoredSigners(nk) # {} THEN StoredSigners(nk)
  ELSE IF opr.raw THEN {RawKey}
  ELSE {}

IssueOperatorNoKeys(opr, nk) == [sub |-> nk[Op], sks |-> {}, sys |-> nk[opr.sys]]
IssueOperatorNull(opr, nk) ==
  [sub |-> nk[Op],
   sks |-> SigningKeysOf(opr, nk),
   sys |-> IF nk[opr.sys] = 0 THEN None ELSE nk[opr.sys]]

\* issueAndSaveOperatorJWT with enrichOperatorClaims: the system account is
\* named by its key when an nkey is stored for it, and left out otherwise.
IssueOperator(opr, nk) == [sub |-> nk[Op], sks |-> SigningKeysOf(opr, nk), sys |-> nk[opr.sys]]

WantedKeyOwnOnly(opr, entry) == entry.signingKey

\* The name an account asks to be signed with, as the signing key handlers see it.
WantedKey(opr, entry) == IF entry.signingKey # NoName THEN entry.signingKey ELSE opr.default

\* The clean-up of the previous system account: a managed one is deleted, a
\* custom one is demoted.
RetireKeepsMark(acc, a) ==
  IF acc[a] # None /\ acc[a].managed THEN [acc EXCEPT ![a] = None] ELSE acc
RetireSystemAccount(acc, a) ==
  IF acc[a] = None THEN acc
  ELSE IF acc[a].managed THEN [acc EXCEPT ![a] = None]
  ELSE [acc EXCEPT ![a].isSys = FALSE]

ManagedAccount == [signingKey |-> NoName, managed |-> TRUE, isSys |-> TRUE]

\* suspendAccountServer on the stored configuration.
SuspendSkipped(s) == s
Suspended(s) == IF s = "none" THEN "none" ELSE "suspended"

\* The keys an operator JWT tells a NATS server to accept as account issuers.
TrustedBy(token) == {token.sub} \cup token.sks

Mintable(n) == minted + n <= MaxKeys

-----------------------------------------------------------------------------
Init ==
  /\ operator = None
  /\ nkey = [o \in Owner |-> 0]
  /\ account = [a \in Account |-> None]
  /\ accJwt = [a \in Account |-> None]
  /\ opJwt = None
  /\ server = "none"
  /\ deployed = {} /\ created = {}
  /\ minted = 0

\* pathOperatorCreateUpdate on a new operator: create_system_account = managed,
\* default_signing_key = default, system_account_name = sys, raw: claims with a
\* signing key.
OperatorCreate(managed, default, sys, raw) ==
  LET opr == [default |-> default, sys |-> sys, managed |-> managed, raw |-> raw]
      nk  == [o \in Owner |-> IF o = Op THEN minted + 1
                             ELSE IF managed /\ o = sys THEN minted + 2
                             ELSE nkey[o]]
      acc == [a \in Account |-> IF managed /\ a = sys THEN ManagedAccount ELSE account[a]]
  IN /\ operator = None
     /\ Mintable(IF managed THEN 2 ELSE 1)
     /\ managed => account[sys] = None
     /\ operator' = opr
     /\ nkey' = nk
     /\ account' = acc
     /\ accJwt' = Reissue(opr, nk, acc, accJwt,
                    {a \in Account : \/ managed /\ a = sys
                                    \/ /\ default # NoName
                                       /\ acc[a] # None
                                       /\ acc[a].signingKey = NoName})
     /\ opJwt' = IssueOperator(opr, nk)
     /\ minted' = IF managed THEN minted + 2 ELSE minted + 1
     /\ UNCHANGED <<server, deployed, created>>

\* pathOperatorCreateUpdate on a stored operator, with managed and sys the
\* new values. First the old system account is retired; then a managed account
\* is created under the new name, or a custom account of that name is marked.
Moved(managed, sys) == sys # operator.sys \/ managed # operator.managed

OldIsDeleted(managed, sys) ==
  Moved(managed, sys) /\ account[operator.sys] # None /\ account[operator.sys].managed

AfterRetiring(managed, sys) ==
  IF Moved(managed, sys) THEN RetireSystemAccount(account, operator.sys) ELSE account

Creates(managed, sys) ==
  Moved(managed, sys) /\ managed /\ AfterRetiring(managed, sys)[sys] = None

Marks(managed, sys) ==
  Moved(managed, sys) /\ ~managed /\ AfterRetiring(managed, sys)[sys] # None

AccountsAfter(managed, sys) ==
  [a \in Account |->
     IF a = sys /\ Creates(managed, sys) THEN ManagedAccount
     ELSE IF a = sys /\ Marks(managed, sys)
     THEN [AfterRetiring(managed, sys)[a] EXCEPT !.isSys = TRUE]
     ELSE AfterRetiring(managed, sys)[a]]

KeysAfter(managed, sys) ==
  [o \in Owner |->
     IF o = sys /\ Creates(managed, sys) THEN minted + 1
     ELSE IF o = operator.sys /\ OldIsDeleted(managed, sys) THEN 0
     ELSE nkey[o]]

\* The stored JWTs without the deleted account's.
JwtsKept(managed, sys) ==
  [a \in Account |->
     IF a = operator.sys /\ OldIsDeleted(managed, sys) THEN None ELSE accJwt[a]]

\* A managed account that is created gets its JWT; a new default signing key
\* reissues the accounts that name none.
ToReissue(managed, default, sys) ==
  {a \in Account :
     \/ a = sys /\ Creates(managed, sys)
     \/ /\ default # operator.default
        /\ AccountsAfter(managed, sys)[a] # None
        /\ AccountsAfter(managed, sys)[a].signingKey = NoName}

\* A custom account that has the new name of a managed one makes the request
\* fail. The operator JWT is reissued, and the account server suspended, only
\* when the claims (the declared key or others) or the system account name change.
OperatorUpdate(managed, default, sys, raw, claimsChanged) ==
  LET opr   == [default |-> default, sys |-> sys, managed |-> managed, raw |-> raw]
      nk    == KeysAfter(managed, sys)
      acc   == AccountsAfter(managed, sys)
      dirty == claimsChanged \/ raw # operator.raw \/ sys # operator.sys
  IN /\ operator # None
     /\ Mintable(1)
     /\ Moved(managed, sys) /\ managed /\ acc[sys] # None => acc[sys].managed
     /\ operator' = opr
     /\ nkey' = nk
     /\ account' = acc
     /\ accJwt' = Reissue(opr, nk, acc, JwtsKept(managed, sys), ToReissue(managed, default, sys))
     /\ opJwt' = IF dirty THEN IssueOperator(opr, nk) ELSE opJwt
     /\ server' = IF dirty THEN Suspended(server) ELSE server
     /\ minted' = IF Creates(managed, sys) THEN minted + 1 ELSE minted
     /\ UNCHANGED <<deployed, created>>

\* pathOperatorDelete: the entry, the account server, the identity key, the
\* JWT and every account. The operator signing keys are left in storage.
OperatorDelete ==
  /\ operator # None
  /\ operator' = None
  /\ nkey' = [o \in Owner |-> IF o \in SigningKey THEN nkey[o] ELSE 0]
  /\ account' = [a \in Account |-> None]
  /\ accJwt' = [a \in Account |-> None]
  /\ opJwt' = None
  /\ server' = "none"
  /\ UNCHANGED <<deployed, created, minted>>

\* pathOperatorSigningNkeyCreateUpdate on a new name. Issuing the operator
\* JWT fails without an operator; on a stored name the handler changes nothing.
\* The account server is not suspended.
SigningKeyCreate(n) ==
  LET nk == [nkey EXCEPT ![n] = minted + 1]
  IN /\ operator # None
     /\ nkey[n] = 0
     /\ Mintable(1)
     /\ nkey' = nk
     /\ opJwt' = IssueOperator(operator, nk)
     /\ accJwt' = Reissue(operator, nk, account, accJwt,
                    {a \in Account : account[a] # None /\ WantedKey(operator, account[a]) = n})
     /\ minted' = minted + 1
     /\ created' = IF server = "running" THEN created \cup {minted + 1} ELSE created
     /\ UNCHANGED <<operator, account, server, deployed>>

\* pathOperatorSigningNkeyDelete.
SigningKeyDelete(n) ==
  LET nk == [nkey EXCEPT ![n] = 0]
  IN /\ operator # None
     /\ nkey[n] # 0
     /\ nkey' = nk
     /\ accJwt' = Reissue(operator, nk, account, accJwt,
                    {a \in Account : account[a] # None /\ WantedKey(operator, account[a]) = n})
     /\ opJwt' = IssueOperator(operator, nk)
     /\ UNCHANGED <<operator, account, server, deployed, created, minted>>

\* A rotation that reissues no account.
SignedByNone(k) == {}

\* The accounts whose stored JWT names key k as its issuer.
SignedBy(k) == {a \in Account : accJwt[a] # None /\ accJwt[a].iss = k}

\* pathRotateOperator (o = Op) and pathRotateOperatorSigningKey (o a name).
RotateOperatorKey(o) ==
  LET nk == [nkey EXCEPT ![o] = minted + 1]
  IN /\ operator # None
     /\ nkey[o] # 0
     /\ Mintable(1)
     /\ nkey' = nk
     /\ opJwt' = IssueOperator(operator, nk)
     /\ accJwt' = Reissue(operator, nk, account, accJwt, SignedBy(nkey[o]))
     /\ server' = Suspended(server)
     /\ minted' = minted + 1
     /\ UNCHANGED <<operator, account, deployed, created>>

RotateAccountOnly(a) ==
  /\ nkey[a] # 0
  /\ Mintable(1)
  /\ nkey' = [nkey EXCEPT ![a] = minted + 1]
  /\ minted' = minted + 1
  /\ UNCHANGED <<operator, account, accJwt, opJwt, server, deployed, created>>

\* pathRotateAccount.
RotateAccount(a) ==
  LET nk == [nkey EXCEPT ![a] = minted + 1]
  IN /\ nkey[a] # 0
     /\ Mintable(1)
     /\ nkey' = nk
     /\ accJwt' = Reissue(operator, nk, account, accJwt, {a})
     /\ minted' = minted + 1
     /\ UNCHANGED <<operator, account, opJwt, server, deployed, created>>

\* pathAccountCreateUpdate on a new account.
AccountCreate(a, k) ==
  LET isSys == a = operator.sys
      acc   == [account EXCEPT ![a] = [signingKey |-> k, managed |-> FALSE, isSys |-> isSys]]
      nk    == [nkey EXCEPT ![a] = minted + 1]
  IN /\ operator # None
     /\ account[a] = None
     /\ Mintable(1)
     /\ account' = acc
     /\ nkey' = nk
     /\ opJwt' = IF isSys THEN IssueOperator(operator, nk) ELSE opJwt
     /\ accJwt' = Reissue(operator, nk, acc, accJwt, {a})
     /\ minted' = minted + 1
     /\ UNCHANGED <<operator, server, deployed, created>>

\* pathAccountCreateUpdate on a stored account.
AccountUpdate(a, k, claimsChanged) ==
  LET acc == [account EXCEPT ![a].signingKey = k]
  IN /\ operator # None
     /\ account[a] # None
     /\ ~account[a].managed
     /\ account' = acc
     /\ accJwt' = IF claimsChanged \/ k # account[a].signingKey
                  THEN Reissue(operator, nkey, acc, accJwt, {a})
                  ELSE accJwt
     /\ UNCHANGED <<operator, nkey, opJwt, server, deployed, created, minted>>

\* pathAccountDelete. The operator JWT is reissued before deleteAccount
\* removes the account's nkey.
AccountDelete(a) ==
  /\ account[a] # None
  /\ ~account[a].managed
  /\ account' = [account EXCEPT ![a] = None]
  /\ nkey' = [nkey EXCEPT ![a] = 0]
  /\ accJwt' = [accJwt EXCEPT ![a] = None]
  /\ opJwt' = IF account[a].isSys THEN IssueOperator(operator, nkey) ELSE opJwt
  /\ UNCHANGED <<operator, server, deployed, created, minted>>

\* pathAccountServerCreateUpdate. The server is resumed only once the NATS
\* servers run with the current operator JWT, as the documentation asks.
AccountServerWrite(suspend) ==
  /\ operator # None
  /\ account[operator.sys] # None
  /\ ~suspend /\ server # "running" => deployed = TrustedBy(opJwt)
  /\ server' = IF suspend THEN "suspended" ELSE "running"
  /\ UNCHANGED <<operator, nkey, account, accJwt, opJwt, deployed, created, minted>>

\* pathAccountServerDelete.
AccountServerDelete ==
  /\ server' = "none"
  /\ UNCHANGED <<operator, nkey, account, accJwt, opJwt, deployed, created, minted>>

\* An administrator installs the operator JWT of pathGenerateServerConfig in NATS.
DeployOperatorJwt ==
  /\ opJwt # None
  /\ deployed' = TrustedBy(opJwt) /\ created' = {}
  /\ UNCHANGED <<operator, nkey, account, accJwt, opJwt, server, minted>>

Next ==
  \/ \E m, r \in BOOLEAN, d \in KeyName, s \in Account : OperatorCreate(m, d, s, r)
  \/ \E m, r, c \in BOOLEAN, d \in KeyName, s \in Account : OperatorUpdate(m, d, s, r, c)
  \/ OperatorDelete
  \/ \E n \in SigningKey : SigningKeyCreate(n)
  \/ \E n \in SigningKey : SigningKeyDelete(n)
  \/ \E o \in {Op} \cup SigningKey : RotateOperatorKey(o)
  \/ \E a \in Account : RotateAccount(a)
  \/ \E a \in Account, k \in KeyName : AccountCreate(a, k)
  \/ \E a \in Account, k \in KeyName, c \in BOOLEAN : AccountUpdate(a, k, c)
  \/ \E a \in Account : AccountDelete(a)
  \/ \E s \in BOOLEAN : AccountServerWrite(s)
  \/ AccountServerDelete
  \/ DeployOperatorJwt

Spec == Init /\ [][Next]_vars

-----------------------------------------------------------------------------
\* The keys in storage that account JWTs may be signed with.
OperatorKeys(nk) == {nk[o] : o \in {Op} \cup SigningKey} \ {0}

\* An account that names a signing key no longer, or not yet, in storage.
Dangling(a) == account[a] # None /\ account[a].signingKey # NoName /\ nkey[account[a].signingKey] = 0

\* Whatever is created, deleted, rotated or set as a default, in any order, the
\* stored JWT of an account is signed by the key its configuration resolves to
\* at this moment: pathOperatorCreateUpdate and the signing key handlers pick
\* the accounts to reissue by the name they ask for, the rotations by the issuer
\* in the stored token, and the two selections have to miss no account. Accounts
\* that name an absent signing key are left out; see AllIssuersTrusted.
SignerFresh ==
  \A a \in Account : account[a] # None /\ ~Dangling(a)
                     => accJwt[a].iss = SignerOf(operator, nkey, account[a])

\* An account, its identity key and its JWT exist together, only under an
\* operator, and the JWT is the one of the current key (pathRotateAccount,
\* deleteAccount, the managed account of pathOperatorCreateUpdate).
SubjectFresh ==
  \A a \in Account :
    /\ account[a] # None <=> nkey[a] # 0
    /\ account[a] # None <=> accJwt[a] # None
    /\ account[a] # None => operator # None /\ accJwt[a].sub = nkey[a]

\* The keys token names are those of nk: every signing key that is stored, and
\* the declared one while there is none.
NamesKeys(token, opr, nk) ==
  /\ token.sub = nk[Op]
  /\ token.sks \ {RawKey} = StoredSigners(nk)
  /\ RawKey \in token.sks <=> opr.raw /\ StoredSigners(nk) = {}

\* The operator, its identity key and its JWT exist together, the JWT names
\* the current identity key and the signing keys that issuing it now would name
\* (issueAndSaveOperatorJWT at every place that touches an operator key or the
\* claims), and an account server is only configured for a stored operator.
\* That the declared key is dropped beside stored ones is SigningKeysMerged.
OperatorJwtFresh ==
  /\ operator # None <=> nkey[Op] # 0
  /\ operator # None <=> opJwt # None
  /\ operator # None => NamesKeys(opJwt, operator, nkey)
  /\ server # "none" => operator # None

\* docs/Home.md:163-164: the operator signing keys "will be merged with the list of
\* signing keys in the template claims". A declared signing key is in the JWT.
SigningKeysMerged == operator # None /\ operator.raw => RawKey \in opJwt.sks

\* The managed system account exists exactly while the operator manages one,
\* under the configured name, and only the account of that name is marked as
\* the system account, however the name and create_system_account change in
\* pathOperatorCreateUpdate.
OneSystemAccount ==
  /\ operator # None /\ operator.managed =>
       account[operator.sys] # None /\ account[operator.sys].managed
  /\ \A a \in Account : account[a] # None =>
       /\ account[a].isSys <=> a = operator.sys
       /\ account[a].managed => operator.managed /\ a = operator.sys

\* While the account server runs, NATS trusts every key accounts may be signed
\* with, and the issuer of every account JWT it may be sent; this is why the
\* rotations and pathOperatorCreateUpdate suspend it (docs/Home.md:303-307). The
\* exception are signing keys created beside it, until an operator JWT is installed:
\* pathOperatorSigningNkeyCreateUpdate does not suspend it; see KeyChangeSuspends.
RunningServerTrusted ==
  server = "running" =>
    /\ OperatorKeys(nkey) \subseteq deployed \cup created
    /\ \A a \in Account : account[a] # None /\ ~Dangling(a) => accJwt[a].iss \in deployed \cup created

\* docs/Home.md:254: "Modifying an operator's signing keys will **suspend** the
\* active account server for that operator." (docs/API.md:739 and 843 of creating and deleting one.)
KeyChangeSuspends ==
  [][\A n \in SigningKey : nkey'[n] # nkey[n] => server' # "running"]_vars

\* docs/API.md:841 (deleting an operator signing key): "All accounts that were
\* signed with this operator JWT will be reissued using the operator identity
\* key", so that no stored account JWT has an issuer its operator does not name.
AllIssuersTrusted ==
  \A a \in Account : accJwt[a] # None => accJwt[a].iss \in TrustedBy(opJwt)

\* docs/API.md:465: "Deleting an operator will also delete all of the objects
\* under the operator", 467: "all keys and jwts". Without an operator no key of
\* any kind is left, which an operator created later under the name would trust.
NothingOutlivesOperator ==
  operator = None => \A o \in Owner : nkey[o] = 0
=============================================================================
