-------------------------- MODULE TrustChainProofs --------------------------
(***************************************************************************)
(* Proofs about TrustChain, for every set of accounts and signing keys and  *)
(* every bound MaxKeys.                                                     *)
(*                                                                          *)
(* TypeOK is not inductive alone: rotating an account reissues its JWT with *)
(* the operator's entry, so it needs SubjectFresh (an account key exists    *)
(* only under an operator).  SignerFresh needs in addition that accounts    *)
(* are gone when an operator is created, and the NATS side of               *)
(* RunningServerTrusted needs only that the operator keys are deployed, the *)
(* issuers then follow from SignerFresh.                                    *)
(***************************************************************************)
EXTENDS TrustChain, TLAPS

-----------------------------------------------------------------------------
(* What the issuing operators return.                                       *)

\* An entry or a token is never the missing value.
LEMMA EntriesExist ==
  /\ \A e \in OperatorEntry : e # None
  /\ \A e \in AccountEntry : e # None
  /\ \A t \in AccountToken : t # None
  /\ \A t \in OperatorToken : t # None
  BY NoneAssumption DEF OperatorEntry, AccountEntry, AccountToken, OperatorToken, KeyName

\* The signer of an account JWT is a key of the operator that is in storage,
\* when the operator has its identity key.
LEMMA SignerIsOperatorKey ==
  ASSUME NEW opr \in OperatorEntry, NEW nk \in [Owner -> Nat], NEW entry \in AccountEntry
  PROVE  /\ SignerOf(opr, nk, entry) \in Nat
         /\ nk[Op] # 0 => SignerOf(opr, nk, entry) \in OperatorKeys(nk)
  BY DEF SignerOf, Resolves, OperatorEntry, AccountEntry, KeyName, Owner, OperatorKeys

\* issueAndSaveAccountJWT keeps the type of the stored JWTs.
LEMMA IssueAccountType ==
  ASSUME NEW opr \in OperatorEntry, NEW nk \in [Owner -> Nat],
         NEW entry \in AccountEntry, NEW a \in Account
  PROVE  IssueAccount(opr, nk, entry, a) \in AccountToken
  <1>1. nk[a] \in Nat
    BY DEF Owner
  <1>2. QED
    BY <1>1, SignerIsOperatorKey DEF IssueAccount, AccountToken

\* An issued operator JWT names the identity key and the signing keys in storage,
\* or else the declared one.
LEMMA IssueOperatorType ==
  ASSUME NEW opr \in OperatorEntry, NEW nk \in [Owner -> Nat]
  PROVE  /\ IssueOperator(opr, nk) \in OperatorToken
         /\ NamesKeys(IssueOperator(opr, nk), opr, nk)
  <1>1. /\ nk[Op] \in Nat
        /\ nk[opr.sys] \in Nat
        /\ StoredSigners(nk) \in SUBSET Nat
    BY DEF Owner, OperatorEntry, StoredSigners
  <1>2. RawKey \notin StoredSigners(nk)
    BY <1>1, NamesAssumption
  <1>3. SigningKeysOf(opr, nk) \in SUBSET (Nat \cup {RawKey})
    BY <1>1 DEF SigningKeysOf
  <1>4. IssueOperator(opr, nk) \in OperatorToken
    BY <1>1, <1>3 DEF IssueOperator, OperatorToken
  <1>5. NamesKeys(IssueOperator(opr, nk), opr, nk)
    BY <1>2 DEF IssueOperator, SigningKeysOf, NamesKeys
  <1> QED BY <1>4, <1>5

\* A server with the operator JWT trusts all keys accounts may be signed with.
LEMMA NamedAreTrusted ==
  ASSUME NEW token, NEW opr, NEW nk, NamesKeys(token, opr, nk)
  PROVE  OperatorKeys(nk) \subseteq TrustedBy(token)
  BY DEF NamesKeys, StoredSigners, OperatorKeys, TrustedBy

\* Reissue touches the JWTs of the stored accounts of S and no other.
LEMMA ReissueType ==
  ASSUME NEW opr \in OperatorEntry, NEW nk \in [Owner -> Nat],
         NEW acc \in [Account -> AccountEntry \cup {None}],
         NEW jwts \in [Account -> AccountToken \cup {None}], NEW S
  PROVE  Reissue(opr, nk, acc, jwts, S) \in [Account -> AccountToken \cup {None}]
  <1>1. ASSUME NEW a \in Account, a \in S, acc[a] # None
        PROVE  IssueAccount(opr, nk, acc[a], a) \in AccountToken
    BY <1>1, IssueAccountType
  <1>2. QED
    BY <1>1 DEF Reissue

\* Retiring a system account keeps the types of what it deletes.
LEMMA RetireType ==
  ASSUME NEW acc \in [Account -> AccountEntry \cup {None}], NEW a \in Account
  PROVE  RetireSystemAccount(acc, a) \in [Account -> AccountEntry \cup {None}]
  BY DEF RetireSystemAccount, AccountEntry

\* The parts of a stored operator's update keep the types.
LEMMA UpdateTypes ==
  ASSUME TypeOK, operator \in OperatorEntry, NEW m \in BOOLEAN, NEW s \in Account
  PROVE  /\ KeysAfter(m, s) \in [Owner -> Nat]
         /\ AccountsAfter(m, s) \in [Account -> AccountEntry \cup {None}]
         /\ JwtsKept(m, s) \in [Account -> AccountToken \cup {None}]
  <1>1. operator.sys \in Account
    BY DEF OperatorEntry
  <1>2. AfterRetiring(m, s) \in [Account -> AccountEntry \cup {None}]
    BY <1>1, RetireType DEF AfterRetiring, TypeOK
  <1>3. ManagedAccount \in AccountEntry
    BY DEF ManagedAccount, AccountEntry, KeyName
  <1>4. \A e \in AccountEntry : [e EXCEPT !.isSys = TRUE] \in AccountEntry
    BY DEF AccountEntry
  <1>5. AccountsAfter(m, s) \in [Account -> AccountEntry \cup {None}]
    BY <1>2, <1>3, <1>4 DEF AccountsAfter, Marks
  <1>6. KeysAfter(m, s) \in [Owner -> Nat]
    BY DEF KeysAfter, TypeOK
  <1>7. JwtsKept(m, s) \in [Account -> AccountToken \cup {None}]
    BY DEF JwtsKept, TypeOK
  <1>8. QED
    BY <1>5, <1>6, <1>7

\* After the previous system account is retired, the deleted account is gone and
\* the others are there as before; a demoted one only loses its mark.
LEMMA RetiredAccounts ==
  ASSUME TypeOK, operator \in OperatorEntry, NEW m \in BOOLEAN, NEW s \in Account,
         NEW a \in Account
  PROVE  /\ AfterRetiring(m, s)[a] # None
            <=> account[a] # None /\ ~(a = operator.sys /\ OldIsDeleted(m, s))
         /\ AfterRetiring(m, s)[a] # None =>
              /\ AfterRetiring(m, s)[a].signingKey = account[a].signingKey
              /\ AfterRetiring(m, s)[a].managed = account[a].managed
              /\ AfterRetiring(m, s)[a].isSys =
                   (account[a].isSys /\ ~(Moved(m, s) /\ a = operator.sys))
  <1>1. operator.sys \in Account /\ account[a] \in AccountEntry \cup {None}
    BY DEF OperatorEntry, TypeOK
  <1>2. CASE Moved(m, s) /\ a = operator.sys
    <2>1. AfterRetiring(m, s)[a] =
            IF account[a] = None THEN None
            ELSE IF account[a].managed THEN None
            ELSE [account[a] EXCEPT !.isSys = FALSE]
      BY <1>1, <1>2 DEF AfterRetiring, RetireSystemAccount, TypeOK
    <2>2. account[a] # None => [account[a] EXCEPT !.isSys = FALSE] \in AccountEntry
      BY <1>1 DEF AccountEntry
    <2> QED
      BY <1>1, <1>2, <2>1, <2>2, EntriesExist DEF OldIsDeleted, AccountEntry
  <1>3. CASE ~(Moved(m, s) /\ a = operator.sys)
    <2>1. AfterRetiring(m, s)[a] = account[a]
      BY <1>1, <1>3 DEF AfterRetiring, RetireSystemAccount, TypeOK
    <2> QED
      BY <1>1, <1>3, <2>1 DEF OldIsDeleted, AccountEntry
  <1> QED BY <1>2, <1>3

\* The accounts after the whole update: what retiring left, the managed account
\* that was created, and the mark on a custom account of the new name.
LEMMA CreatedAccounts ==
  ASSUME TypeOK, operator \in OperatorEntry, NEW m \in BOOLEAN, NEW s \in Account,
         NEW a \in Account
  PROVE  /\ AccountsAfter(m, s)[a] # None
            <=> AfterRetiring(m, s)[a] # None \/ (a = s /\ Creates(m, s))
         /\ a = s /\ Creates(m, s) => AccountsAfter(m, s)[a] = ManagedAccount
         /\ AccountsAfter(m, s)[a] # None /\ ~(a = s /\ Creates(m, s)) =>
              /\ AccountsAfter(m, s)[a].signingKey = AfterRetiring(m, s)[a].signingKey
              /\ AccountsAfter(m, s)[a].managed = AfterRetiring(m, s)[a].managed
              /\ AccountsAfter(m, s)[a].isSys =
                   (AfterRetiring(m, s)[a].isSys \/ (a = s /\ Marks(m, s)))
  <1>1. AfterRetiring(m, s)[a] \in AccountEntry \cup {None}
    <2>1. operator.sys \in Account
      BY DEF OperatorEntry
    <2> QED BY <2>1, RetireType DEF AfterRetiring, TypeOK
  <1>2. ManagedAccount # None
    BY EntriesExist DEF ManagedAccount, AccountEntry, KeyName
  <1>3. AfterRetiring(m, s)[a] # None =>
          [AfterRetiring(m, s)[a] EXCEPT !.isSys = TRUE] \in AccountEntry
    BY <1>1 DEF AccountEntry
  <1> QED
    BY <1>1, <1>2, <1>3, EntriesExist DEF AccountsAfter, Creates, Marks, AccountEntry

\* The JWT of one account after a reissue: issued anew, or as it was.
LEMMA ReissueAt ==
  ASSUME NEW opr \in OperatorEntry, NEW nk \in [Owner -> Nat],
         NEW acc \in [Account -> AccountEntry \cup {None}], NEW jwts, NEW S,
         NEW a \in Account
  PROVE  /\ a \in S /\ acc[a] # None =>
              /\ Reissue(opr, nk, acc, jwts, S)[a] # None
              /\ Reissue(opr, nk, acc, jwts, S)[a].sub = nk[a]
              /\ Reissue(opr, nk, acc, jwts, S)[a].iss = SignerOf(opr, nk, acc[a])
         /\ ~(a \in S /\ acc[a] # None) => Reissue(opr, nk, acc, jwts, S)[a] = jwts[a]
  <1>1. Reissue(opr, nk, acc, jwts, S)[a] =
          IF a \in S /\ acc[a] # None THEN IssueAccount(opr, nk, acc[a], a) ELSE jwts[a]
    BY DEF Reissue
  <1>2. acc[a] # None => IssueAccount(opr, nk, acc[a], a) # None
    BY IssueAccountType, EntriesExist
  <1>3. QED
    BY <1>1, <1>2 DEF IssueAccount

\* Only the operator's own keys matter for OperatorKeys and the operator JWT.
LEMMA SameOperatorKeys ==
  ASSUME NEW nk, NEW nk2, \A o \in {Op} \cup SigningKey : nk[o] = nk2[o]
  PROVE  /\ OperatorKeys(nk) = OperatorKeys(nk2)
         /\ \A token, opr : NamesKeys(token, opr, nk) <=> NamesKeys(token, opr, nk2)
  <1>1. OperatorKeys(nk) = OperatorKeys(nk2)
    BY DEF OperatorKeys
  <1>2. StoredSigners(nk) = StoredSigners(nk2) /\ nk[Op] = nk2[Op]
    BY DEF StoredSigners
  <1> QED BY <1>1, <1>2 DEF NamesKeys

-----------------------------------------------------------------------------
(* One step from a state with the invariant.                                *)

\* Every action keeps the types, given that an account key exists only under
\* an operator.
LEMMA TypeStep ==
  ASSUME TypeOK, SubjectFresh, [Next]_vars
  PROVE  TypeOK'
  <1> USE NamesAssumption DEF TypeOK
  <1>1. ASSUME NEW m \in BOOLEAN, NEW d \in KeyName, NEW s \in Account,
               NEW r \in BOOLEAN, OperatorCreate(m, d, s, r)
        PROVE  TypeOK'
    <2>1. operator' \in OperatorEntry /\ nkey' \in [Owner -> Nat]
      BY <1>1 DEF OperatorCreate, OperatorEntry, Owner
    <2>2. account' \in [Account -> AccountEntry \cup {None}]
      BY <1>1 DEF OperatorCreate, ManagedAccount, AccountEntry, KeyName
    <2>3. accJwt' \in [Account -> AccountToken \cup {None}]
      BY <1>1, <2>1, <2>2, ReissueType DEF OperatorCreate
    <2>4. opJwt' \in OperatorToken
      BY <1>1, <2>1, IssueOperatorType DEF OperatorCreate
    <2>5. minted' \in Nat /\ UNCHANGED <<server, deployed, created>>
      BY <1>1 DEF OperatorCreate
    <2> QED BY <2>1, <2>2, <2>3, <2>4, <2>5
  <1>2. ASSUME NEW m \in BOOLEAN, NEW d \in KeyName, NEW s \in Account,
               NEW r \in BOOLEAN, NEW c \in BOOLEAN, OperatorUpdate(m, d, s, r, c)
        PROVE  TypeOK'
    <2>1. operator \in OperatorEntry /\ operator.sys \in Account /\ operator' \in OperatorEntry
      BY <1>2 DEF OperatorUpdate, OperatorEntry
    <2>2. /\ nkey' = KeysAfter(m, s) /\ KeysAfter(m, s) \in [Owner -> Nat]
          /\ account' = AccountsAfter(m, s)
          /\ AccountsAfter(m, s) \in [Account -> AccountEntry \cup {None}]
          /\ JwtsKept(m, s) \in [Account -> AccountToken \cup {None}]
      BY <1>2, <2>1, UpdateTypes DEF OperatorUpdate
    <2>3. accJwt' \in [Account -> AccountToken \cup {None}]
      BY <1>2, <2>1, <2>2, ReissueType DEF OperatorUpdate
    <2>4. opJwt' \in OperatorToken \cup {None}
      BY <1>2, <2>1, <2>2, IssueOperatorType DEF OperatorUpdate
    <2>5. minted' \in Nat /\ server' \in {server, Suspended(server)} /\ UNCHANGED <<deployed, created>>
      BY <1>2 DEF OperatorUpdate
    <2> QED BY <2>1, <2>2, <2>3, <2>4, <2>5 DEF Suspended
  <1>3. CASE OperatorDelete
    BY <1>3 DEF OperatorDelete, Owner
  <1>4. ASSUME NEW n \in SigningKey, SigningKeyCreate(n)
        PROVE  TypeOK'
    <2>1. operator \in OperatorEntry /\ nkey' \in [Owner -> Nat]
      BY <1>4 DEF SigningKeyCreate, Owner
    <2>2. accJwt' \in [Account -> AccountToken \cup {None}]
      BY <1>4, <2>1, ReissueType DEF SigningKeyCreate
    <2>3. opJwt' \in OperatorToken
      BY <1>4, <2>1, IssueOperatorType DEF SigningKeyCreate
    <2>4. minted' \in Nat /\ created' \in SUBSET Nat /\ UNCHANGED <<operator, account, server, deployed>>
      BY <1>4 DEF SigningKeyCreate
    <2> QED BY <2>1, <2>2, <2>3, <2>4
  <1>5. ASSUME NEW n \in SigningKey, SigningKeyDelete(n)
        PROVE  TypeOK'
    <2>1. operator \in OperatorEntry /\ nkey' \in [Owner -> Nat]
      BY <1>5 DEF SigningKeyDelete, Owner
    <2>2. accJwt' \in [Account -> AccountToken \cup {None}]
      BY <1>5, <2>1, ReissueType DEF SigningKeyDelete
    <2>3. opJwt' \in OperatorToken
      BY <1>5, <2>1, IssueOperatorType DEF SigningKeyDelete
    <2>4. minted' \in Nat /\ UNCHANGED <<operator, account, server, deployed, created>>
      BY <1>5 DEF SigningKeyDelete
    <2> QED BY <2>1, <2>2, <2>3, <2>4
  <1>6. ASSUME NEW o \in {Op} \cup SigningKey, RotateOperatorKey(o)
        PROVE  TypeOK'
    <2>1. operator \in OperatorEntry /\ nkey' \in [Owner -> Nat]
      BY <1>6 DEF RotateOperatorKey, Owner
    <2>2. accJwt' \in [Account -> AccountToken \cup {None}]
      BY <1>6, <2>1, ReissueType DEF RotateOperatorKey
    <2>3. opJwt' \in OperatorToken
      BY <1>6, <2>1, IssueOperatorType DEF RotateOperatorKey
    <2>4. minted' \in Nat /\ server' = Suspended(server) /\ UNCHANGED <<operator, account, deployed, created>>
      BY <1>6 DEF RotateOperatorKey
    <2> QED BY <2>1, <2>2, <2>3, <2>4 DEF Suspended
  <1>7. ASSUME NEW a \in Account, RotateAccount(a)
        PROVE  TypeOK'
    <2>1. operator \in OperatorEntry /\ nkey' \in [Owner -> Nat]
      BY <1>7 DEF RotateAccount, SubjectFresh, Owner
    <2>2. accJwt' \in [Account -> AccountToken \cup {None}]
      BY <1>7, <2>1, ReissueType DEF RotateAccount
    <2>3. minted' \in Nat /\ UNCHANGED <<operator, account, opJwt, server, deployed, created>>
      BY <1>7 DEF RotateAccount
    <2> QED BY <2>1, <2>2, <2>3
  <1>8. ASSUME NEW a \in Account, NEW k \in KeyName, AccountCreate(a, k)
        PROVE  TypeOK'
    <2>1. operator \in OperatorEntry /\ nkey' \in [Owner -> Nat]
      BY <1>8 DEF AccountCreate, Owner
    <2>2. account' \in [Account -> AccountEntry \cup {None}]
      BY <1>8 DEF AccountCreate, AccountEntry
    <2>3. accJwt' \in [Account -> AccountToken \cup {None}]
      BY <1>8, <2>1, <2>2, ReissueType DEF AccountCreate
    <2>4. opJwt' \in OperatorToken \cup {None}
      BY <1>8, <2>1, IssueOperatorType DEF AccountCreate
    <2>5. minted' \in Nat /\ UNCHANGED <<operator, server, deployed, created>>
      BY <1>8 DEF AccountCreate
    <2> QED BY <2>1, <2>2, <2>3, <2>4, <2>5
  <1>9. ASSUME NEW a \in Account, NEW k \in KeyName, NEW c \in BOOLEAN, AccountUpdate(a, k, c)
        PROVE  TypeOK'
    <2>1. operator \in OperatorEntry
      BY <1>9 DEF AccountUpdate
    <2>2. account' \in [Account -> AccountEntry \cup {None}]
      BY <1>9 DEF AccountUpdate, AccountEntry
    <2>3. accJwt' \in [Account -> AccountToken \cup {None}]
      BY <1>9, <2>1, <2>2, ReissueType DEF AccountUpdate
    <2>4. UNCHANGED <<operator, nkey, opJwt, server, deployed, created, minted>>
      BY <1>9 DEF AccountUpdate
    <2> QED BY <2>2, <2>3, <2>4
  <1>10. ASSUME NEW a \in Account, AccountDelete(a)
         PROVE  TypeOK'
    <2>1. operator \in OperatorEntry /\ nkey' \in [Owner -> Nat]
      BY <1>10 DEF AccountDelete, SubjectFresh, Owner
    <2>2. opJwt' \in OperatorToken \cup {None}
      BY <1>10, <2>1, IssueOperatorType DEF AccountDelete
    <2> QED BY <1>10, <2>1, <2>2 DEF AccountDelete
  <1>11. ASSUME NEW s \in BOOLEAN, AccountServerWrite(s)
         PROVE  TypeOK'
    BY <1>11 DEF AccountServerWrite
  <1>12. CASE AccountServerDelete
    BY <1>12 DEF AccountServerDelete
  <1>13. CASE DeployOperatorJwt
    BY <1>13 DEF DeployOperatorJwt, TrustedBy, OperatorToken
  <1>14. CASE UNCHANGED vars
    BY <1>14 DEF vars
  <1> QED
    BY <1>1, <1>2, <1>3, <1>4, <1>5, <1>6, <1>7, <1>8, <1>9, <1>10, <1>11, <1>12, <1>13, <1>14
    DEF Next

\* The three parts of SubjectFresh for one account.
Linked(a) ==
  /\ account[a] # None <=> nkey[a] # 0
  /\ account[a] # None <=> accJwt[a] # None
  /\ account[a] # None => operator # None /\ accJwt[a].sub = nkey[a]

\* An account, its key and its JWT stay together, and the JWT names the key.
LEMMA SubjectStep ==
  ASSUME TypeOK, SubjectFresh, TypeOK', [Next]_vars, NEW b \in Account
  PROVE  Linked(b)'
  <1> USE NamesAssumption DEF Linked
  <1>a. Linked(b) /\ b \in Owner /\ b # Op /\ b \notin SigningKey
    BY DEF SubjectFresh, Owner
  <1>b. /\ operator \in OperatorEntry \cup {None} /\ operator' \in OperatorEntry \cup {None}
        /\ nkey \in [Owner -> Nat] /\ nkey' \in [Owner -> Nat]
        /\ account' \in [Account -> AccountEntry \cup {None}]
        /\ account \in [Account -> AccountEntry \cup {None}]
        /\ accJwt \in [Account -> AccountToken \cup {None}]
        /\ minted \in Nat
    BY DEF TypeOK
  <1>1. ASSUME NEW m \in BOOLEAN, NEW d \in KeyName, NEW s \in Account,
               NEW r \in BOOLEAN, OperatorCreate(m, d, s, r)
        PROVE  Linked(b)'
    <2>1. operator' # None
      BY <1>1, EntriesExist, <1>b DEF OperatorCreate, OperatorEntry
    <2>2. account[b] = None
      BY <1>1, <1>a DEF OperatorCreate
    <2>3. account'[b] = (IF m /\ b = s THEN ManagedAccount ELSE None)
          /\ nkey'[b] = (IF m /\ b = s THEN minted + 2 ELSE 0)
      BY <1>1, <1>a, <1>b, <2>2 DEF OperatorCreate
    <2>4. ManagedAccount # None
      BY EntriesExist DEF ManagedAccount, AccountEntry, KeyName
    <2>5. IF m /\ b = s THEN accJwt'[b] # None /\ accJwt'[b].sub = nkey'[b]
                        ELSE accJwt'[b] = accJwt[b]
      BY <1>1, <1>b, <2>1, <2>3, <2>4, ReissueAt DEF OperatorCreate
    <2> QED BY <1>a, <1>b, <2>1, <2>2, <2>3, <2>4, <2>5
  <1>2. ASSUME NEW m \in BOOLEAN, NEW d \in KeyName, NEW s \in Account,
               NEW r \in BOOLEAN, NEW c \in BOOLEAN, OperatorUpdate(m, d, s, r, c)
        PROVE  Linked(b)'
    <2>1. operator \in OperatorEntry /\ operator # None /\ operator.sys \in Account
      BY <1>2, <1>b DEF OperatorUpdate, OperatorEntry
    <2>2. operator' \in OperatorEntry /\ operator' # None
      BY <1>2, EntriesExist DEF OperatorUpdate, OperatorEntry
    <2>3. /\ nkey' = KeysAfter(m, s) /\ account' = AccountsAfter(m, s)
          /\ accJwt' = Reissue(operator', nkey', account', JwtsKept(m, s), ToReissue(m, d, s))
      BY <1>2 DEF OperatorUpdate
    <2>4. account'[b] # None <=> (account[b] # None /\ ~(b = operator.sys /\ OldIsDeleted(m, s)))
                                 \/ (b = s /\ Creates(m, s))
      BY <2>1, <2>3, RetiredAccounts, CreatedAccounts
    <2>5. nkey'[b] = IF b = s /\ Creates(m, s) THEN minted + 1
                     ELSE IF b = operator.sys /\ OldIsDeleted(m, s) THEN 0
                     ELSE nkey[b]
      BY <1>a, <2>3 DEF KeysAfter
    <2>6. JwtsKept(m, s)[b] = IF b = operator.sys /\ OldIsDeleted(m, s) THEN None ELSE accJwt[b]
      BY DEF JwtsKept
    <2>7. b = s /\ Creates(m, s) => b \in ToReissue(m, d, s)
      BY DEF ToReissue
    <2>8. /\ b \in ToReissue(m, d, s) /\ account'[b] # None
               => accJwt'[b] # None /\ accJwt'[b].sub = nkey'[b]
          /\ ~(b \in ToReissue(m, d, s) /\ account'[b] # None) => accJwt'[b] = JwtsKept(m, s)[b]
      BY <1>b, <2>2, <2>3, ReissueAt
    <2> QED BY <1>a, <1>b, <2>1, <2>2, <2>4, <2>5, <2>6, <2>7, <2>8
  <1>3. CASE OperatorDelete
    BY <1>3, <1>a DEF OperatorDelete
  <1>4. ASSUME NEW n \in SigningKey, SigningKeyCreate(n)
        PROVE  Linked(b)'
    <2>1. nkey'[b] = nkey[b] /\ account' = account /\ operator' = operator /\ operator # None
      BY <1>4, <1>a, <1>b DEF SigningKeyCreate
    <2>2. accJwt' = Reissue(operator', nkey', account', accJwt,
                      {a \in Account : account[a] # None /\ WantedKey(operator, account[a]) = n})
      BY <1>4 DEF SigningKeyCreate
    <2>3. accJwt'[b] = accJwt[b] \/ (account[b] # None /\ accJwt'[b] # None /\ accJwt'[b].sub = nkey'[b])
      BY <1>b, <2>1, <2>2, ReissueAt
    <2> QED BY <1>a, <2>1, <2>3
  <1>5. ASSUME NEW n \in SigningKey, SigningKeyDelete(n)
        PROVE  Linked(b)'
    <2>1. nkey'[b] = nkey[b] /\ account' = account /\ operator' = operator /\ operator # None
      BY <1>5, <1>a, <1>b DEF SigningKeyDelete
    <2>2. accJwt' = Reissue(operator', nkey', account', accJwt,
                      {a \in Account : account[a] # None /\ WantedKey(operator, account[a]) = n})
      BY <1>5 DEF SigningKeyDelete
    <2>3. accJwt'[b] = accJwt[b] \/ (account[b] # None /\ accJwt'[b] # None /\ accJwt'[b].sub = nkey'[b])
      BY <1>b, <2>1, <2>2, ReissueAt
    <2> QED BY <1>a, <2>1, <2>3
  <1>6. ASSUME NEW o \in {Op} \cup SigningKey, RotateOperatorKey(o)
        PROVE  Linked(b)'
    <2>1. nkey'[b] = nkey[b] /\ account' = account /\ operator' = operator /\ operator # None
      BY <1>6, <1>a, <1>b DEF RotateOperatorKey
    <2>2. accJwt' = Reissue(operator', nkey', account', accJwt,
                      SignedBy(nkey[o]))
      BY <1>6 DEF RotateOperatorKey
    <2>3. accJwt'[b] = accJwt[b] \/ (account[b] # None /\ accJwt'[b] # None /\ accJwt'[b].sub = nkey'[b])
      BY <1>b, <2>1, <2>2, ReissueAt
    <2> QED BY <1>a, <2>1, <2>3
  <1>7. ASSUME NEW a \in Account, RotateAccount(a)
        PROVE  Linked(b)'
    <2>1. operator # None /\ account[a] # None
      BY <1>7 DEF RotateAccount, SubjectFresh
    <2>2. /\ nkey'[b] = (IF b = a THEN minted + 1 ELSE nkey[b])
          /\ account' = account /\ operator' = operator
      BY <1>7, <1>a, <1>b DEF RotateAccount
    <2>3. accJwt' = Reissue(operator', nkey', account', accJwt, {a})
      BY <1>7 DEF RotateAccount
    <2>4. IF b = a THEN accJwt'[b] # None /\ accJwt'[b].sub = nkey'[b] ELSE accJwt'[b] = accJwt[b]
      BY <1>b, <2>1, <2>2, <2>3, ReissueAt
    <2> QED BY <1>a, <1>b, <2>1, <2>2, <2>4
  <1>8. ASSUME NEW a \in Account, NEW k \in KeyName, AccountCreate(a, k)
        PROVE  Linked(b)'
    <2>1. operator # None /\ operator' = operator /\ account[a] = None
      BY <1>8 DEF AccountCreate
    <2>2. [signingKey |-> k, managed |-> FALSE, isSys |-> a = operator.sys] # None
      BY EntriesExist DEF AccountEntry
    <2>3. /\ nkey'[b] = (IF b = a THEN minted + 1 ELSE nkey[b])
          /\ b = a => account'[b] # None
          /\ b # a => account'[b] = account[b]
      BY <1>8, <1>a, <1>b, <2>2 DEF AccountCreate
    <2>4. accJwt' = Reissue(operator', nkey', account', accJwt, {a})
      BY <1>8 DEF AccountCreate
    <2>5. IF b = a THEN accJwt'[b] # None /\ accJwt'[b].sub = nkey'[b] ELSE accJwt'[b] = accJwt[b]
      BY <1>b, <2>1, <2>3, <2>4, ReissueAt
    <2> QED BY <1>a, <1>b, <2>1, <2>3, <2>5
  <1>9. ASSUME NEW a \in Account, NEW k \in KeyName, NEW c \in BOOLEAN,
               AccountUpdate(a, k, c)
        PROVE  Linked(b)'
    <2>1. operator # None /\ operator' = operator /\ nkey' = nkey /\ account[a] # None
      BY <1>9 DEF AccountUpdate
    <2>2. [account[a] EXCEPT !.signingKey = k] \in AccountEntry
      BY <1>b, <2>1 DEF AccountEntry
    <2>3. account'[b] # None <=> account[b] # None
      BY <1>9, <1>b, <2>2, EntriesExist DEF AccountUpdate
    <2>4. accJwt' = accJwt \/ accJwt' = Reissue(operator', nkey', account', accJwt, {a})
      BY <1>9 DEF AccountUpdate
    <2>5. accJwt'[b] = accJwt[b] \/ (account'[b] # None /\ accJwt'[b] # None /\ accJwt'[b].sub = nkey'[b])
      BY <1>b, <2>1, <2>4, ReissueAt
    <2> QED BY <1>a, <2>1, <2>3, <2>5
  <1>10. ASSUME NEW a \in Account, AccountDelete(a)
         PROVE  Linked(b)'
    BY <1>10, <1>a, <1>b DEF AccountDelete
  <1>11. ASSUME NEW s \in BOOLEAN, AccountServerWrite(s)
         PROVE  Linked(b)'
    BY <1>11, <1>a DEF AccountServerWrite
  <1>12. CASE AccountServerDelete
    BY <1>12, <1>a DEF AccountServerDelete
  <1>13. CASE DeployOperatorJwt
    BY <1>13, <1>a DEF DeployOperatorJwt
  <1>14. CASE UNCHANGED vars
    BY <1>14, <1>a DEF vars
  <1> QED
    BY <1>1, <1>2, <1>3, <1>4, <1>5, <1>6, <1>7, <1>8, <1>9, <1>10, <1>11, <1>12, <1>13, <1>14
    DEF Next

\* Every action that touches an operator key reissues the operator JWT.
LEMMA OperatorJwtStep ==
  ASSUME TypeOK, SubjectFresh, OperatorJwtFresh, TypeOK', [Next]_vars
  PROVE  OperatorJwtFresh'
  <1> USE NamesAssumption
  <1>a. /\ operator \in OperatorEntry \cup {None} /\ operator' \in OperatorEntry \cup {None}
        /\ nkey \in [Owner -> Nat] /\ nkey' \in [Owner -> Nat] /\ minted \in Nat
    BY DEF TypeOK
  <1>1. ASSUME NEW m \in BOOLEAN, NEW d \in KeyName, NEW s \in Account,
               NEW r \in BOOLEAN, OperatorCreate(m, d, s, r)
        PROVE  OperatorJwtFresh'
    <2>1. operator' \in OperatorEntry /\ operator' # None
      BY <1>1, <1>a, EntriesExist DEF OperatorCreate, OperatorEntry
    <2>2. opJwt' = IssueOperator(operator', nkey') /\ nkey'[Op] # 0
      BY <1>1, <1>a DEF OperatorCreate, Owner
    <2>3. server' # "none" => server # "none"
      BY <1>1 DEF OperatorCreate, Suspended
    <2>4. opJwt' # None
      BY <1>a, <2>1, <2>2, IssueOperatorType, EntriesExist
    <2> QED BY <1>a, <2>1, <2>2, <2>3, <2>4, IssueOperatorType DEF OperatorJwtFresh
  <1>2. ASSUME NEW m \in BOOLEAN, NEW d \in KeyName, NEW s \in Account,
               NEW r \in BOOLEAN, NEW c \in BOOLEAN, OperatorUpdate(m, d, s, r, c)
        PROVE  OperatorJwtFresh'
    <2>1. operator' \in OperatorEntry /\ operator' # None /\ operator.sys \in Account
          /\ operator # None
      BY <1>2, <1>a, EntriesExist DEF OperatorUpdate, OperatorEntry
    <2>2. nkey' = KeysAfter(m, s)
      BY <1>2 DEF OperatorUpdate
    <2>3. \A o \in {Op} \cup SigningKey : nkey'[o] = nkey[o]
      BY <2>1, <2>2 DEF KeysAfter, Owner
    <2>4. \/ opJwt' = opJwt /\ operator'.raw = operator.raw
          \/ opJwt' = IssueOperator(operator', nkey')
      BY <1>2 DEF OperatorUpdate
    <2>5. opJwt' = IssueOperator(operator', nkey') => opJwt' # None /\ NamesKeys(opJwt', operator', nkey')
      BY <1>a, <2>1, IssueOperatorType, EntriesExist
    <2>6. opJwt' = opJwt /\ operator'.raw = operator.raw
            => opJwt' # None /\ NamesKeys(opJwt', operator', nkey')
      <3>1. opJwt # None /\ NamesKeys(opJwt, operator, nkey')
        BY <2>1, <2>3, SameOperatorKeys DEF OperatorJwtFresh
      <3> QED BY <3>1 DEF NamesKeys
    <2>7. nkey'[Op] # 0
      BY <2>1, <2>3 DEF OperatorJwtFresh
    <2> QED BY <2>1, <2>4, <2>5, <2>6, <2>7 DEF OperatorJwtFresh
  <1>3. CASE OperatorDelete
    BY <1>3 DEF OperatorDelete, OperatorJwtFresh, Owner
  <1>4. ASSUME NEW n \in SigningKey, SigningKeyCreate(n)
        PROVE  OperatorJwtFresh'
    <2>1. operator' \in OperatorEntry /\ operator' # None
      BY <1>4, <1>a, EntriesExist DEF SigningKeyCreate, OperatorEntry
    <2>2. opJwt' = IssueOperator(operator', nkey') /\ nkey'[Op] # 0
      BY <1>4, <1>a DEF SigningKeyCreate, OperatorJwtFresh, Owner
    <2>3. server' # "none" => server # "none"
      BY <1>4 DEF SigningKeyCreate, Suspended
    <2>4. opJwt' # None
      BY <1>a, <2>1, <2>2, IssueOperatorType, EntriesExist
    <2> QED BY <1>a, <2>1, <2>2, <2>3, <2>4, IssueOperatorType DEF OperatorJwtFresh
  <1>5. ASSUME NEW n \in SigningKey, SigningKeyDelete(n)
        PROVE  OperatorJwtFresh'
    <2>1. operator' \in OperatorEntry /\ operator' # None
      BY <1>5, <1>a, EntriesExist DEF SigningKeyDelete, OperatorEntry
    <2>2. opJwt' = IssueOperator(operator', nkey') /\ nkey'[Op] # 0
      BY <1>5, <1>a DEF SigningKeyDelete, OperatorJwtFresh, Owner
    <2>3. server' # "none" => server # "none"
      BY <1>5 DEF SigningKeyDelete, Suspended
    <2>4. opJwt' # None
      BY <1>a, <2>1, <2>2, IssueOperatorType, EntriesExist
    <2> QED BY <1>a, <2>1, <2>2, <2>3, <2>4, IssueOperatorType DEF OperatorJwtFresh
  <1>6. ASSUME NEW o \in {Op} \cup SigningKey, RotateOperatorKey(o)
        PROVE  OperatorJwtFresh'
    <2>1. operator' \in OperatorEntry /\ operator' # None
      BY <1>6, <1>a, EntriesExist DEF RotateOperatorKey, OperatorEntry
    <2>2. opJwt' = IssueOperator(operator', nkey') /\ nkey'[Op] # 0
      BY <1>6, <1>a DEF RotateOperatorKey, OperatorJwtFresh, Owner
    <2>3. server' # "none" => server # "none"
      BY <1>6 DEF RotateOperatorKey, Suspended
    <2>4. opJwt' # None
      BY <1>a, <2>1, <2>2, IssueOperatorType, EntriesExist
    <2> QED BY <1>a, <2>1, <2>2, <2>3, <2>4, IssueOperatorType DEF OperatorJwtFresh
  <1>7. ASSUME NEW a \in Account, RotateAccount(a)
        PROVE  OperatorJwtFresh'
    <2>1. /\ \A o \in {Op} \cup SigningKey : nkey'[o] = nkey[o]
          /\ UNCHANGED <<operator, server, opJwt>>
      BY <1>7, <1>a DEF RotateAccount, Owner
    <2> QED BY <2>1, SameOperatorKeys DEF OperatorJwtFresh
  <1>8. ASSUME NEW a \in Account, NEW k \in KeyName, AccountCreate(a, k)
        PROVE  OperatorJwtFresh'
    <2>1. /\ \A o \in {Op} \cup SigningKey : nkey'[o] = nkey[o]
          /\ operator' = operator /\ server' = server /\ operator # None
          /\ opJwt' = opJwt \/ opJwt' = IssueOperator(operator, nkey')
      BY <1>8, <1>a DEF AccountCreate, Owner, SubjectFresh
    <2>2. opJwt' = IssueOperator(operator, nkey') => opJwt' # None
      BY <1>a, <2>1, IssueOperatorType, EntriesExist
    <2> QED BY <1>a, <2>1, <2>2, SameOperatorKeys, IssueOperatorType DEF OperatorJwtFresh
  <1>9. ASSUME NEW a \in Account, NEW k \in KeyName, NEW c \in BOOLEAN,
               AccountUpdate(a, k, c)
        PROVE  OperatorJwtFresh'
    <2>1. /\ \A o \in {Op} \cup SigningKey : nkey'[o] = nkey[o]
          /\ UNCHANGED <<operator, server, opJwt>>
      BY <1>9, <1>a DEF AccountUpdate, Owner
    <2> QED BY <2>1, SameOperatorKeys DEF OperatorJwtFresh
  <1>10. ASSUME NEW a \in Account, AccountDelete(a)
         PROVE  OperatorJwtFresh'
    <2>1. /\ \A o \in {Op} \cup SigningKey : nkey'[o] = nkey[o]
          /\ operator' = operator /\ server' = server /\ operator # None
          /\ opJwt' = opJwt \/ opJwt' = IssueOperator(operator, nkey)
      BY <1>10, <1>a DEF AccountDelete, Owner, SubjectFresh
    <2>2. opJwt' = IssueOperator(operator, nkey) => opJwt' # None
      BY <1>a, <2>1, IssueOperatorType, EntriesExist
    <2> QED BY <1>a, <2>1, <2>2, SameOperatorKeys, IssueOperatorType DEF OperatorJwtFresh
  <1>11. ASSUME NEW s \in BOOLEAN, AccountServerWrite(s)
         PROVE  OperatorJwtFresh'
    BY <1>11, <1>a DEF AccountServerWrite, OperatorJwtFresh
  <1>12. CASE AccountServerDelete
    BY <1>12, <1>a DEF AccountServerDelete, OperatorJwtFresh
  <1>13. CASE DeployOperatorJwt
    BY <1>13, <1>a DEF DeployOperatorJwt, OperatorJwtFresh
  <1>14. CASE UNCHANGED vars
    BY <1>14 DEF vars, OperatorJwtFresh
  <1> QED
    BY <1>1, <1>2, <1>3, <1>4, <1>5, <1>6, <1>7, <1>8, <1>9, <1>10, <1>11, <1>12, <1>13, <1>14
    DEF Next

\* SignerFresh for one account.
SignedAsConfigured(a) ==
  account[a] # None /\ ~Dangling(a) => accJwt[a].iss = SignerOf(operator, nkey, account[a])

\* Every action reissues the accounts whose signer it changes. The handlers of
\* signing keys select accounts by the name they want, the rotations by issuer.
LEMMA SignerStep ==
  ASSUME TypeOK, SubjectFresh, SignerFresh, TypeOK', [Next]_vars, NEW b \in Account
  PROVE  SignedAsConfigured(b)'
  <1> USE NamesAssumption DEF SignedAsConfigured
  <1>a. /\ SignedAsConfigured(b)
        /\ account[b] # None => operator # None /\ accJwt[b] # None
    BY DEF SignerFresh, SubjectFresh
  <1>b. /\ operator \in OperatorEntry \cup {None} /\ operator' \in OperatorEntry \cup {None}
        /\ nkey \in [Owner -> Nat] /\ nkey' \in [Owner -> Nat]
        /\ account' \in [Account -> AccountEntry \cup {None}]
        /\ account \in [Account -> AccountEntry \cup {None}]
        /\ accJwt \in [Account -> AccountToken \cup {None}]
        /\ minted \in Nat
    BY DEF TypeOK
  <1>1. ASSUME NEW m \in BOOLEAN, NEW d \in KeyName, NEW s \in Account,
               NEW r \in BOOLEAN, OperatorCreate(m, d, s, r)
        PROVE  SignedAsConfigured(b)'
    <2>1. account[b] = None /\ operator' # None
      BY <1>1, <1>a, <1>b, EntriesExist DEF OperatorCreate, OperatorEntry
    <2>2. account'[b] # None => m /\ b = s
      BY <1>1, <1>b, <2>1 DEF OperatorCreate
    <2>3. m /\ b = s /\ account'[b] # None => accJwt'[b].iss = SignerOf(operator', nkey', account'[b])
      BY <1>1, <1>b, <2>1, ReissueAt DEF OperatorCreate
    <2> QED BY <2>2, <2>3
  <1>2. ASSUME NEW m \in BOOLEAN, NEW d \in KeyName, NEW s \in Account,
               NEW r \in BOOLEAN, NEW c \in BOOLEAN, OperatorUpdate(m, d, s, r, c)
        PROVE  SignedAsConfigured(b)'
    <2>1. operator \in OperatorEntry /\ operator # None /\ operator.sys \in Account
      BY <1>2, <1>b DEF OperatorUpdate, OperatorEntry
    <2>2. operator' \in OperatorEntry /\ operator'.default = d
      BY <1>2 DEF OperatorUpdate, OperatorEntry
    <2>3. /\ nkey' = KeysAfter(m, s) /\ account' = AccountsAfter(m, s)
          /\ accJwt' = Reissue(operator', nkey', account', JwtsKept(m, s), ToReissue(m, d, s))
      BY <1>2 DEF OperatorUpdate
    <2>4. account'[b] # None /\ b \in ToReissue(m, d, s)
            => accJwt'[b].iss = SignerOf(operator', nkey', account'[b])
      BY <1>b, <2>2, <2>3, ReissueAt
    <2>5. ASSUME account'[b] # None, b \notin ToReissue(m, d, s), ~Dangling(b)'
          PROVE  accJwt'[b].iss = SignerOf(operator', nkey', account'[b])
      <3>1. ~(b = s /\ Creates(m, s))
        BY <2>5 DEF ToReissue
      <3>2. /\ account[b] # None /\ ~(b = operator.sys /\ OldIsDeleted(m, s))
            /\ account'[b].signingKey = account[b].signingKey
        BY <2>1, <2>3, <2>5, <3>1, RetiredAccounts, CreatedAccounts
      <3>3. accJwt'[b] = accJwt[b]
        BY <1>b, <2>2, <2>3, <2>5, <3>2, ReissueAt DEF JwtsKept
      <3>4. \A x \in {Op} \cup SigningKey : nkey'[x] = nkey[x]
        BY <2>1, <2>3 DEF KeysAfter, Owner
      <3>5. account[b].signingKey \in KeyName /\ operator.default \in KeyName /\ d \in KeyName
        BY <1>b, <2>1, <3>2 DEF AccountEntry, OperatorEntry
      <3>6. ~Dangling(b)
        BY <2>5, <3>2, <3>4, <3>5 DEF Dangling, KeyName
      <3>7. account[b].signingKey # NoName \/ operator.default = d
        BY <2>3, <2>5, <3>2 DEF ToReissue
      <3>8. SignerOf(operator', nkey', account'[b]) = SignerOf(operator, nkey, account[b])
        BY <2>2, <3>2, <3>4, <3>5, <3>6, <3>7 DEF SignerOf, Resolves, Dangling, KeyName
      <3> QED BY <1>a, <3>2, <3>3, <3>6, <3>8
    <2> QED BY <2>4, <2>5
  <1>3. CASE OperatorDelete
    BY <1>3 DEF OperatorDelete
  <1>4. ASSUME NEW n \in SigningKey, SigningKeyCreate(n)
        PROVE  SignedAsConfigured(b)'
    <2>1. /\ operator \in OperatorEntry /\ operator' = operator /\ account' = account
          /\ \A x \in {Op} \cup SigningKey : nkey'[x] = IF x = n THEN minted + 1 ELSE nkey[x]
      BY <1>4, <1>b DEF SigningKeyCreate, Owner
    <2>2. accJwt' = Reissue(operator', nkey', account', accJwt,
                      {a \in Account : account[a] # None /\ WantedKey(operator, account[a]) = n})
      BY <1>4 DEF SigningKeyCreate
    <2>3. CASE account[b] # None /\ b \in {a \in Account : account[a] # None /\ WantedKey(operator, account[a]) = n}
      BY <1>b, <2>1, <2>2, <2>3, ReissueAt
    <2>4. ASSUME account[b] # None, b \notin {a \in Account : account[a] # None /\ WantedKey(operator, account[a]) = n}, ~Dangling(b)'
          PROVE  accJwt'[b].iss = SignerOf(operator', nkey', account'[b])
      <3>1. accJwt'[b] = accJwt[b]
        BY <1>b, <2>1, <2>2, <2>4, ReissueAt
      <3>2. account[b].signingKey \in KeyName /\ operator.default \in KeyName
        BY <1>b, <2>1, <2>4 DEF AccountEntry, OperatorEntry
      <3>3. ~Dangling(b)
        BY <2>1, <2>4, <3>2 DEF Dangling, WantedKey, KeyName
      <3>4. SignerOf(operator', nkey', account'[b]) = SignerOf(operator, nkey, account[b])
        BY <2>1, <2>4, <3>2, <3>3 DEF SignerOf, Resolves, WantedKey, Dangling, KeyName
      <3> QED BY <1>a, <2>4, <3>1, <3>3, <3>4
    <2> QED BY <2>1, <2>3, <2>4
  <1>5. ASSUME NEW n \in SigningKey, SigningKeyDelete(n)
        PROVE  SignedAsConfigured(b)'
    <2>1. /\ operator \in OperatorEntry /\ operator' = operator /\ account' = account
          /\ \A x \in {Op} \cup SigningKey : nkey'[x] = IF x = n THEN 0 ELSE nkey[x]
      BY <1>5, <1>b DEF SigningKeyDelete, Owner
    <2>2. accJwt' = Reissue(operator', nkey', account', accJwt,
                      {a \in Account : account[a] # None /\ WantedKey(operator, account[a]) = n})
      BY <1>5 DEF SigningKeyDelete
    <2>3. CASE account[b] # None /\ b \in {a \in Account : account[a] # None /\ WantedKey(operator, account[a]) = n}
      BY <1>b, <2>1, <2>2, <2>3, ReissueAt
    <2>4. ASSUME account[b] # None, b \notin {a \in Account : account[a] # None /\ WantedKey(operator, account[a]) = n}, ~Dangling(b)'
          PROVE  accJwt'[b].iss = SignerOf(operator', nkey', account'[b])
      <3>1. accJwt'[b] = accJwt[b]
        BY <1>b, <2>1, <2>2, <2>4, ReissueAt
      <3>2. account[b].signingKey \in KeyName /\ operator.default \in KeyName
        BY <1>b, <2>1, <2>4 DEF AccountEntry, OperatorEntry
      <3>3. ~Dangling(b)
        BY <2>1, <2>4, <3>2 DEF Dangling, WantedKey, KeyName
      <3>4. SignerOf(operator', nkey', account'[b]) = SignerOf(operator, nkey, account[b])
        BY <2>1, <2>4, <3>2, <3>3 DEF SignerOf, Resolves, WantedKey, Dangling, KeyName
      <3> QED BY <1>a, <2>4, <3>1, <3>3, <3>4
    <2> QED BY <2>1, <2>3, <2>4
  <1>6. ASSUME NEW o \in {Op} \cup SigningKey, RotateOperatorKey(o)
        PROVE  SignedAsConfigured(b)'
    <2>1. /\ operator \in OperatorEntry /\ operator' = operator /\ account' = account
          /\ \A x \in {Op} \cup SigningKey : nkey'[x] = IF x = o THEN minted + 1 ELSE nkey[x]
      BY <1>6, <1>b DEF RotateOperatorKey, Owner
    <2>2. accJwt' = Reissue(operator', nkey', account', accJwt,
                      SignedBy(nkey[o]))
      BY <1>6 DEF RotateOperatorKey
    <2>3. CASE account[b] # None /\ b \in SignedBy(nkey[o])
      BY <1>b, <2>1, <2>2, <2>3, ReissueAt
    <2>4. ASSUME account[b] # None, b \notin SignedBy(nkey[o]), ~Dangling(b)'
          PROVE  accJwt'[b].iss = SignerOf(operator', nkey', account'[b])
      <3>1. accJwt'[b] = accJwt[b]
        BY <1>b, <2>1, <2>2, <2>4, ReissueAt
      <3>2. account[b].signingKey \in KeyName /\ operator.default \in KeyName
        BY <1>b, <2>1, <2>4 DEF AccountEntry, OperatorEntry
      <3>3. nkey[o] # 0 /\ nkey'[o] # 0
        BY <1>6, <1>b, <2>1 DEF RotateOperatorKey
      <3>4. ~Dangling(b)
        BY <2>1, <2>4, <3>2, <3>3 DEF Dangling, KeyName
      <3>5. accJwt[b].iss # nkey[o] /\ accJwt[b].iss = SignerOf(operator, nkey, account[b])
        BY <1>a, <2>4, <3>4 DEF SignedBy
      <3>6. SignerOf(operator', nkey', account'[b]) = SignerOf(operator, nkey, account[b])
        BY <2>1, <2>4, <3>2, <3>3, <3>5 DEF SignerOf, Resolves, KeyName
      <3> QED BY <3>1, <3>5, <3>6
    <2> QED BY <2>1, <2>3, <2>4
  <1>7. ASSUME NEW a \in Account, RotateAccount(a)
        PROVE  SignedAsConfigured(b)'
    <2>1. /\ operator \in OperatorEntry /\ operator' = operator
          /\ \A x \in {Op} \cup SigningKey : nkey'[x] = nkey[x]
          /\ b # a => account'[b] = account[b]
      BY <1>7, <1>b DEF RotateAccount, SubjectFresh, Owner
    <2>2. account' = account /\ account[a] # None /\ accJwt' = Reissue(operator', nkey', account', accJwt, {a})
      BY <1>7 DEF RotateAccount, SubjectFresh
    <2>3. CASE account'[b] # None /\ b = a
      BY <1>b, <2>1, <2>2, <2>3, ReissueAt
    <2>4. CASE account'[b] # None /\ b # a
      <3>1. accJwt'[b] = accJwt[b]
        BY <1>b, <2>1, <2>2, <2>4, ReissueAt
      <3>2. account[b].signingKey \in KeyName /\ operator.default \in KeyName
        BY <1>b, <2>1, <2>4 DEF AccountEntry, OperatorEntry
      <3> QED
        BY <1>a, <2>1, <2>4, <3>1, <3>2 DEF SignerOf, Resolves, Dangling, KeyName
    <2> QED BY <2>3, <2>4
  <1>8. ASSUME NEW a \in Account, NEW k \in KeyName, AccountCreate(a, k)
        PROVE  SignedAsConfigured(b)'
    <2>1. /\ operator \in OperatorEntry /\ operator' = operator
          /\ \A x \in {Op} \cup SigningKey : nkey'[x] = nkey[x]
          /\ b # a => account'[b] = account[b]
      BY <1>8, <1>b DEF AccountCreate, SubjectFresh, Owner
    <2>2. accJwt' = Reissue(operator', nkey', account', accJwt, {a})
      BY <1>8 DEF AccountCreate
    <2>3. CASE account'[b] # None /\ b = a
      BY <1>b, <2>1, <2>2, <2>3, ReissueAt
    <2>4. CASE account'[b] # None /\ b # a
      <3>1. accJwt'[b] = accJwt[b]
        BY <1>b, <2>1, <2>2, <2>4, ReissueAt
      <3>2. account[b].signingKey \in KeyName /\ operator.default \in KeyName
        BY <1>b, <2>1, <2>4 DEF AccountEntry, OperatorEntry
      <3> QED
        BY <1>a, <2>1, <2>4, <3>1, <3>2 DEF SignerOf, Resolves, Dangling, KeyName
    <2> QED BY <2>3, <2>4
  <1>9. ASSUME NEW a \in Account, NEW k \in KeyName, NEW c \in BOOLEAN,
               AccountUpdate(a, k, c)
        PROVE  SignedAsConfigured(b)'
    <2>1. operator \in OperatorEntry /\ operator' = operator /\ nkey' = nkey /\ account[a] # None
      BY <1>9, <1>b DEF AccountUpdate
    <2>2. b # a => account'[b] = account[b]
      BY <1>9, <1>b DEF AccountUpdate
    <2>3. accJwt' = Reissue(operator', nkey', account', accJwt, {a}) \/ (accJwt' = accJwt /\ account' = account)
      <3>1. [account[a] EXCEPT !.signingKey = account[a].signingKey] = account[a]
        BY <1>b, <2>1 DEF AccountEntry
      <3> QED BY <1>9, <1>b, <3>1 DEF AccountUpdate
    <2>4. CASE accJwt' = Reissue(operator', nkey', account', accJwt, {a})
      <3>1. account'[b] # None /\ b = a => accJwt'[b].iss = SignerOf(operator', nkey', account'[b])
        BY <1>b, <2>1, <2>4, ReissueAt
      <3>2. b # a => accJwt'[b] = accJwt[b]
        BY <1>b, <2>1, <2>4, ReissueAt
      <3> QED BY <1>a, <2>1, <2>2, <3>1, <3>2 DEF Dangling
    <2>5. CASE accJwt' = accJwt /\ account' = account
      BY <1>a, <2>1, <2>5 DEF Dangling
    <2> QED BY <2>3, <2>4, <2>5
  <1>10. ASSUME NEW a \in Account, AccountDelete(a)
         PROVE  SignedAsConfigured(b)'
    <2>1. /\ b # a => account'[b] = account[b] /\ accJwt'[b] = accJwt[b]
          /\ account'[a] = None /\ operator' = operator
          /\ operator \in OperatorEntry
          /\ \A x \in {Op} \cup SigningKey : nkey'[x] = nkey[x]
      BY <1>10, <1>b DEF AccountDelete, SubjectFresh, Owner
    <2>2. account[b] # None => account[b].signingKey \in KeyName /\ operator.default \in KeyName
      BY <1>b, <2>1 DEF AccountEntry, OperatorEntry
    <2> QED BY <1>a, <2>1, <2>2 DEF SignerOf, Resolves, Dangling, KeyName
  <1>11. ASSUME NEW s \in BOOLEAN, AccountServerWrite(s)
         PROVE  SignedAsConfigured(b)'
    BY <1>11, <1>a DEF AccountServerWrite, Dangling
  <1>12. CASE AccountServerDelete
    BY <1>12, <1>a DEF AccountServerDelete, Dangling
  <1>13. CASE DeployOperatorJwt
    BY <1>13, <1>a DEF DeployOperatorJwt, Dangling
  <1>14. CASE UNCHANGED vars
    BY <1>14, <1>a DEF vars, Dangling
  <1> QED
    BY <1>1, <1>2, <1>3, <1>4, <1>5, <1>6, <1>7, <1>8, <1>9, <1>10, <1>11, <1>12, <1>13, <1>14
    DEF Next

\* The managed account and the system account mark follow the configured name.
LEMMA SystemAccountStep ==
  ASSUME TypeOK, SubjectFresh, OneSystemAccount, TypeOK', [Next]_vars
  PROVE  OneSystemAccount'
  <1> USE NamesAssumption
  <1>b. /\ operator \in OperatorEntry \cup {None}
        /\ account \in [Account -> AccountEntry \cup {None}]
        /\ account' \in [Account -> AccountEntry \cup {None}]
    BY DEF TypeOK
  <1>1. ASSUME NEW m \in BOOLEAN, NEW d \in KeyName, NEW s \in Account,
               NEW r \in BOOLEAN, OperatorCreate(m, d, s, r)
        PROVE  OneSystemAccount'
    <2>1. \A a \in Account : account[a] = None
      BY <1>1 DEF OperatorCreate, SubjectFresh
    <2>2. \A a \in Account : account'[a] = IF m /\ a = s THEN ManagedAccount ELSE None
      BY <1>1, <2>1 DEF OperatorCreate
    <2>3. operator'.sys = s /\ operator'.managed = m
      BY <1>1 DEF OperatorCreate
    <2>4. ManagedAccount # None
      BY EntriesExist DEF ManagedAccount, AccountEntry, KeyName
    <2> QED BY <2>2, <2>3, <2>4 DEF OneSystemAccount, ManagedAccount
  <1>2. ASSUME NEW m \in BOOLEAN, NEW d \in KeyName, NEW s \in Account,
               NEW r \in BOOLEAN, NEW c \in BOOLEAN, OperatorUpdate(m, d, s, r, c)
        PROVE  OneSystemAccount'
    <2>1. operator \in OperatorEntry /\ operator # None /\ operator.sys \in Account
      BY <1>2, <1>b DEF OperatorUpdate, OperatorEntry
    <2>2. /\ account' = AccountsAfter(m, s) /\ operator'.sys = s /\ operator'.managed = m
          /\ Moved(m, s) /\ m /\ account'[s] # None => account'[s].managed
      BY <1>2 DEF OperatorUpdate
    <2>3. ManagedAccount # None
      BY EntriesExist DEF ManagedAccount, AccountEntry, KeyName
    <2>4. \A a \in Account :
             account[a] # None => /\ account[a].isSys <=> a = operator.sys
                                  /\ account[a].managed => operator.managed /\ a = operator.sys
      BY <2>1 DEF OneSystemAccount
    <2>5. ASSUME NEW a \in Account, account'[a] # None, ~(a = s /\ Creates(m, s))
          PROVE  /\ account[a] # None /\ ~(a = operator.sys /\ OldIsDeleted(m, s))
                 /\ account'[a].managed = account[a].managed
                 /\ account'[a].isSys = ((account[a].isSys /\ ~(Moved(m, s) /\ a = operator.sys))
                                        \/ (a = s /\ Marks(m, s)))
                 /\ AfterRetiring(m, s)[a] # None
      <3>1. /\ AfterRetiring(m, s)[a] # None
            /\ account'[a].managed = AfterRetiring(m, s)[a].managed
            /\ account'[a].isSys = (AfterRetiring(m, s)[a].isSys \/ (a = s /\ Marks(m, s)))
        BY <2>1, <2>2, <2>5, CreatedAccounts
      <3>2. /\ account[a] # None /\ ~(a = operator.sys /\ OldIsDeleted(m, s))
            /\ AfterRetiring(m, s)[a].managed = account[a].managed
            /\ AfterRetiring(m, s)[a].isSys =
                 (account[a].isSys /\ ~(Moved(m, s) /\ a = operator.sys))
        BY <2>1, <3>1, RetiredAccounts
      <3> QED BY <3>1, <3>2
    <2>6. Creates(m, s) => m /\ account'[s] = ManagedAccount
      <3>1. Creates(m, s) => m
        BY DEF Creates
      <3>2. Creates(m, s) => account'[s] = ManagedAccount
        BY <2>1, <2>2, CreatedAccounts
      <3> QED BY <3>1, <3>2
    <2>7. ASSUME Moved(m, s), NEW a \in Account, account'[a] # None, ~(a = s /\ Creates(m, s))
          PROVE  ~account'[a].managed
      <3>1. account[a].managed => OldIsDeleted(m, s) /\ a = operator.sys
        BY <2>4, <2>5, <2>7 DEF OldIsDeleted
      <3>2. account'[a].managed \in BOOLEAN
        BY <1>b, <2>5, <2>7 DEF AccountEntry
      <3> QED BY <2>5, <2>7, <3>1, <3>2
    <2>8. CASE Moved(m, s)
      <3>1. ASSUME NEW a \in Account, account'[a] # None
            PROVE  /\ account'[a].isSys <=> a = s
                   /\ account'[a].managed => m /\ a = s
        <4>1. CASE a = s /\ Creates(m, s)
          BY <2>6, <4>1 DEF ManagedAccount
        <4>2. CASE ~(a = s /\ Creates(m, s))
          <5>1. ~account'[a].managed
            BY <2>7, <2>8, <3>1, <4>2
          <5>2. a = s => ~m /\ Marks(m, s)
            BY <2>2, <2>5, <2>8, <3>1, <4>2, <5>1 DEF Marks
          <5>3. account'[a].isSys = (a = s /\ Marks(m, s))
            BY <1>b, <2>4, <2>5, <2>8, <3>1, <4>2 DEF AccountEntry
          <5> QED BY <5>1, <5>2, <5>3
        <4> QED BY <4>1, <4>2
      <3>2. m => account'[s] # None /\ account'[s].managed
        <4>1. m /\ ~Creates(m, s) => account'[s] # None
          BY <2>1, <2>2, <2>8, CreatedAccounts DEF Creates
        <4>2. Creates(m, s) => account'[s] # None /\ account'[s].managed
          BY <2>3, <2>6 DEF ManagedAccount
        <4> QED BY <2>2, <2>8, <4>1, <4>2
      <3> QED BY <2>2, <3>1, <3>2 DEF OneSystemAccount
    <2>9. CASE ~Moved(m, s)
      <3>1. account' = account /\ s = operator.sys /\ m = operator.managed
        BY <1>b, <2>1, <2>2, <2>9
        DEF AccountsAfter, AfterRetiring, Creates, Marks, Moved, OperatorEntry
      <3> QED BY <2>1, <2>2, <3>1 DEF OneSystemAccount
    <2> QED BY <2>8, <2>9
  <1>3. CASE OperatorDelete
    BY <1>3 DEF OperatorDelete, OneSystemAccount
  <1>4. ASSUME NEW n \in SigningKey, SigningKeyCreate(n)
        PROVE  OneSystemAccount'
    BY <1>4 DEF SigningKeyCreate, OneSystemAccount
  <1>5. ASSUME NEW n \in SigningKey, SigningKeyDelete(n)
        PROVE  OneSystemAccount'
    BY <1>5 DEF SigningKeyDelete, OneSystemAccount
  <1>6. ASSUME NEW o \in {Op} \cup SigningKey, RotateOperatorKey(o)
        PROVE  OneSystemAccount'
    BY <1>6 DEF RotateOperatorKey, OneSystemAccount
  <1>7. ASSUME NEW a \in Account, RotateAccount(a)
        PROVE  OneSystemAccount'
    BY <1>7 DEF RotateAccount, OneSystemAccount
  <1>8. ASSUME NEW a \in Account, NEW k \in KeyName, AccountCreate(a, k)
        PROVE  OneSystemAccount'
    <2>1. operator # None /\ operator' = operator /\ account[a] = None
      BY <1>8 DEF AccountCreate
    <2>2. /\ account'[a] = [signingKey |-> k, managed |-> FALSE, isSys |-> a = operator.sys]
          /\ \A c \in Account \ {a} : account'[c] = account[c]
      BY <1>8, <1>b DEF AccountCreate
    <2>3. operator.managed => operator.sys # a /\ operator.sys \in Account
      BY <1>b, <2>1 DEF OneSystemAccount, OperatorEntry
    <2>4. operator.managed => account'[operator.sys] # None /\ account'[operator.sys].managed
      BY <2>1, <2>2, <2>3 DEF OneSystemAccount
    <2>5. ASSUME NEW c \in Account, account'[c] # None
          PROVE  /\ account'[c].isSys <=> c = operator.sys
                 /\ account'[c].managed => operator.managed /\ c = operator.sys
      <3>1. CASE c = a
        <4>1. account'[c].isSys = (a = operator.sys) /\ account'[c].managed = FALSE
          BY <2>2, <3>1
        <4> QED BY <3>1, <4>1
      <3>2. CASE c # a
        BY <2>2, <2>5, <3>2 DEF OneSystemAccount
      <3> QED BY <3>1, <3>2
    <2> QED BY <2>1, <2>4, <2>5 DEF OneSystemAccount
  <1>9. ASSUME NEW a \in Account, NEW k \in KeyName, NEW c \in BOOLEAN,
               AccountUpdate(a, k, c)
        PROVE  OneSystemAccount'
    <2>1. /\ operator # None /\ operator' = operator
          /\ account[a] \in AccountEntry
          /\ account' = [account EXCEPT ![a] = [account[a] EXCEPT !.signingKey = k]]
      BY <1>9, <1>b DEF AccountUpdate
    <2>2. /\ [account[a] EXCEPT !.signingKey = k] # None
          /\ [account[a] EXCEPT !.signingKey = k].managed = account[a].managed
          /\ [account[a] EXCEPT !.signingKey = k].isSys = account[a].isSys
      BY <2>1, EntriesExist DEF AccountEntry
    <2>3. \A e \in Account :
             /\ account'[e] # None <=> account[e] # None
             /\ account[e] # None => /\ account'[e].managed = account[e].managed
                                     /\ account'[e].isSys = account[e].isSys
      BY <1>b, <2>1, <2>2, EntriesExist
    <2>4. operator.sys \in Account
      BY <1>b, <2>1 DEF OperatorEntry
    <2> QED BY <2>1, <2>3, <2>4 DEF OneSystemAccount
  <1>10. ASSUME NEW a \in Account, AccountDelete(a)
         PROVE  OneSystemAccount'
    <2>1. /\ account' = [account EXCEPT ![a] = None] /\ operator' = operator
          /\ ~account[a].managed /\ account[a] # None
      BY <1>10 DEF AccountDelete
    <2>2. operator # None => operator.sys \in Account
      BY <1>b DEF OperatorEntry
    <2> QED BY <1>b, <2>1, <2>2 DEF OneSystemAccount
  <1>11. ASSUME NEW s \in BOOLEAN, AccountServerWrite(s)
         PROVE  OneSystemAccount'
    BY <1>11 DEF AccountServerWrite, OneSystemAccount
  <1>12. CASE AccountServerDelete
    BY <1>12 DEF AccountServerDelete, OneSystemAccount
  <1>13. CASE DeployOperatorJwt
    BY <1>13 DEF DeployOperatorJwt, OneSystemAccount
  <1>14. CASE UNCHANGED vars
    BY <1>14 DEF vars, OneSystemAccount
  <1> QED
    BY <1>1, <1>2, <1>3, <1>4, <1>5, <1>6, <1>7, <1>8, <1>9, <1>10, <1>11, <1>12, <1>13, <1>14
    DEF Next

\* The part of RunningServerTrusted that is inductive.
KeysDeployed == server = "running" => OperatorKeys(nkey) \subseteq deployed \cup created

\* A key that NATS does not trust yet comes with a suspended server, which resumes
\* after deployment, or is a signing key created beside the running server.
LEMMA DeployedStep ==
  ASSUME TypeOK, OperatorJwtFresh, KeysDeployed, [Next]_vars
  PROVE  KeysDeployed'
  <1> USE NamesAssumption
  <1>1. ASSUME NEW m \in BOOLEAN, NEW d \in KeyName, NEW s \in Account,
               NEW r \in BOOLEAN, OperatorCreate(m, d, s, r)
        PROVE  KeysDeployed'
    BY <1>1 DEF OperatorCreate, KeysDeployed, OperatorJwtFresh
  <1>2. ASSUME NEW m \in BOOLEAN, NEW d \in KeyName, NEW s \in Account,
               NEW r \in BOOLEAN, NEW c \in BOOLEAN, OperatorUpdate(m, d, s, r, c)
        PROVE  KeysDeployed'
    <2>1. operator.sys \in Account
      BY <1>2 DEF OperatorUpdate, OperatorEntry, TypeOK
    <2>2. \A o \in {Op} \cup SigningKey : nkey'[o] = nkey[o]
      BY <1>2, <2>1 DEF OperatorUpdate, KeysAfter, Owner
    <2>3. (server' = "running" => server = "running") /\ UNCHANGED <<deployed, created>>
      BY <1>2 DEF OperatorUpdate, Suspended
    <2> QED BY <2>2, <2>3, SameOperatorKeys DEF KeysDeployed
  <1>3. CASE OperatorDelete
    BY <1>3 DEF OperatorDelete, KeysDeployed
  <1>4. ASSUME NEW n \in SigningKey, SigningKeyCreate(n)
        PROVE  KeysDeployed'
    <2>1. OperatorKeys(nkey') \subseteq OperatorKeys(nkey) \cup {minted + 1}
      BY <1>4 DEF SigningKeyCreate, OperatorKeys, TypeOK, Owner
    <2> QED BY <1>4, <2>1 DEF SigningKeyCreate, KeysDeployed
  <1>5. ASSUME NEW n \in SigningKey, SigningKeyDelete(n)
        PROVE  KeysDeployed'
    <2>1. OperatorKeys(nkey') \subseteq OperatorKeys(nkey)
      BY <1>5 DEF SigningKeyDelete, OperatorKeys, TypeOK, Owner
    <2> QED BY <1>5, <2>1 DEF SigningKeyDelete, KeysDeployed
  <1>6. ASSUME NEW o \in {Op} \cup SigningKey, RotateOperatorKey(o)
        PROVE  KeysDeployed'
    BY <1>6 DEF RotateOperatorKey, Suspended, KeysDeployed
  <1>7. ASSUME NEW a \in Account, RotateAccount(a)
        PROVE  KeysDeployed'
    <2>1. \A o \in {Op} \cup SigningKey : nkey'[o] = nkey[o]
      BY <1>7 DEF RotateAccount, TypeOK, Owner
    <2> QED BY <1>7, <2>1, SameOperatorKeys DEF RotateAccount, KeysDeployed
  <1>8. ASSUME NEW a \in Account, NEW k \in KeyName, AccountCreate(a, k)
        PROVE  KeysDeployed'
    <2>1. \A o \in {Op} \cup SigningKey : nkey'[o] = nkey[o]
      BY <1>8 DEF AccountCreate, TypeOK, Owner
    <2> QED BY <1>8, <2>1, SameOperatorKeys DEF AccountCreate, KeysDeployed
  <1>9. ASSUME NEW a \in Account, NEW k \in KeyName, NEW c \in BOOLEAN,
               AccountUpdate(a, k, c)
        PROVE  KeysDeployed'
    BY <1>9 DEF AccountUpdate, KeysDeployed
  <1>10. ASSUME NEW a \in Account, AccountDelete(a)
         PROVE  KeysDeployed'
    <2>1. \A o \in {Op} \cup SigningKey : nkey'[o] = nkey[o]
      BY <1>10 DEF AccountDelete, TypeOK, Owner
    <2> QED BY <1>10, <2>1, SameOperatorKeys DEF AccountDelete, KeysDeployed
  <1>11. ASSUME NEW s \in BOOLEAN, AccountServerWrite(s)
         PROVE  KeysDeployed'
    BY <1>11, NamedAreTrusted DEF AccountServerWrite, KeysDeployed, OperatorJwtFresh
  <1>12. CASE AccountServerDelete
    BY <1>12 DEF AccountServerDelete, KeysDeployed
  <1>13. CASE DeployOperatorJwt
    BY <1>13, NamedAreTrusted DEF DeployOperatorJwt, KeysDeployed, OperatorJwtFresh
  <1>14. CASE UNCHANGED vars
    BY <1>14 DEF vars, KeysDeployed
  <1> QED
    BY <1>1, <1>2, <1>3, <1>4, <1>5, <1>6, <1>7, <1>8, <1>9, <1>10, <1>11, <1>12, <1>13, <1>14
    DEF Next

-----------------------------------------------------------------------------
IInv ==
  /\ TypeOK
  /\ SubjectFresh
  /\ OperatorJwtFresh
  /\ OneSystemAccount
  /\ SignerFresh
  /\ KeysDeployed

\* Nothing is stored at first.
LEMMA InitIInv == Init => IInv
  BY NamesAssumption
  DEF Init, IInv, TypeOK, SubjectFresh, OperatorJwtFresh, OneSystemAccount, SignerFresh,
      KeysDeployed, Owner

\* Every handler keeps the inductive invariant.
LEMMA NextIInv == IInv /\ [Next]_vars => IInv'
  <1> SUFFICES ASSUME IInv, [Next]_vars
               PROVE  IInv'
    OBVIOUS
  <1>1. TypeOK'
    BY TypeStep DEF IInv
  <1>2. SubjectFresh'
    BY <1>1, SubjectStep DEF IInv, SubjectFresh, Linked
  <1>3. OperatorJwtFresh'
    BY <1>1, OperatorJwtStep DEF IInv
  <1>4. OneSystemAccount'
    BY <1>1, SystemAccountStep DEF IInv
  <1>5. SignerFresh'
    BY <1>1, SignerStep DEF IInv, SignerFresh, SignedAsConfigured
  <1>6. KeysDeployed'
    BY DeployedStep DEF IInv
  <1> QED BY <1>1, <1>2, <1>3, <1>4, <1>5, <1>6 DEF IInv

\* Every reachable state of the chain of trust satisfies the inductive invariant.
THEOREM Invariance == Spec => []IInv
  BY InitIInv, NextIInv, PTL DEF Spec

\* What the handlers store has the stated types.
THEOREM TypeCorrect == Spec => []TypeOK
  BY Invariance, PTL DEF IInv

\* Account, identity key and JWT appear and disappear together, and the JWT is
\* of the current key.
THEOREM SubjectsFresh == Spec => []SubjectFresh
  BY Invariance, PTL DEF IInv

\* The stored operator JWT names the current operator keys.
THEOREM OperatorJwtsFresh == Spec => []OperatorJwtFresh
  BY Invariance, PTL DEF IInv

\* The managed account exists exactly while it is configured, and one name is
\* the system account.
THEOREM SystemAccountUnique == Spec => []OneSystemAccount
  BY Invariance, PTL DEF IInv

\* No order of operations leaves an account JWT signed by another key than the
\* one its configuration resolves to.
THEOREM SignersFresh == Spec => []SignerFresh
  BY Invariance, PTL DEF IInv

\* NATS trusts the issuer of every account JWT a running account server may send,
\* but for signing keys created while it runs, until the operator JWT is installed.
THEOREM RunningServersTrusted == Spec => []RunningServerTrusted
  <1>1. IInv => RunningServerTrusted
    <2> SUFFICES ASSUME IInv, server = "running"
                 PROVE  RunningServerTrusted
      BY DEF RunningServerTrusted
    <2>1. OperatorKeys(nkey) \subseteq deployed \cup created
      BY DEF IInv, KeysDeployed
    <2>2. ASSUME NEW a \in Account, account[a] # None, ~Dangling(a)
          PROVE  accJwt[a].iss \in deployed \cup created
      <3>1. operator \in OperatorEntry /\ account[a] \in AccountEntry /\ nkey[Op] # 0
        BY <2>2 DEF IInv, TypeOK, SubjectFresh, OperatorJwtFresh
      <3>2. accJwt[a].iss = SignerOf(operator, nkey, account[a])
        BY <2>2 DEF IInv, SignerFresh
      <3>3. SignerOf(operator, nkey, account[a]) \in OperatorKeys(nkey)
        BY <3>1, SignerIsOperatorKey DEF IInv, TypeOK
      <3> QED BY <2>1, <3>2, <3>3
    <2> QED BY <2>1, <2>2 DEF RunningServerTrusted
  <1> QED BY <1>1, Invariance, PTL
=============================================================================
