------------------------ MODULE AccountClaimsProofs --------------------------
(***************************************************************************)
(* Proofs about AccountClaims, for every set of handlers, names, subjects   *)
(* and users and every bound.                                               *)
(*                                                                          *)
(* What a handler holds between two of its steps is what is stored, unless   *)
(* another one has overtaken it (HeldCurrent).  With it, the types and        *)
(* NoLeftovers, JwtFresh is inductive: an account that is created over what  *)
(* is left of an earlier one is issued a JWT at once, a change of a signing   *)
(* key or of an import that is not issued leaves the claims as they were,     *)
(* and a JWT or an entry that is stored outside a transaction is late or       *)
(* changes nothing.  CredsVerify is not inductive; it follows from these,     *)
(* because whatever signs credentials is in the claims.  NatsCurrent is      *)
(* inductive with these and Distinct: a key that is deleted without a push   *)
(* stays listed at NATS, and is not another signing key.                    *)
(***************************************************************************)
EXTENDS AccountClaims, TLAPS

-----------------------------------------------------------------------------
(* Types.                                                                   *)

\* What a JWT is made of is of the types of its claims.
LEMMA ClaimsType ==
  ASSUME NEW a \in AccountEntry, NEW k \in Key,
         NEW sk \in [SigningName -> NkeyEntry \cup {None}], NEW im \in [ImportName -> SUBSET Claim]
  PROVE  Claims(a, k, sk, im) \in Token
  <1>1. ImportsOf(a, im) \in SUBSET Claim
    <2>1. [subject |-> RawImport, share |-> FALSE] \in Claim
      BY DEF Claim
    <2>2. UNION {im[n] : n \in ImportName} \in SUBSET Claim
      OBVIOUS
    <2> QED BY <2>1, <2>2 DEF ImportsOf
  <1>2. SignersOf(a, sk) \in SUBSET Signer
    <2>1. \A x \in StoredKeys(sk) : x \in NkeyEntry
      BY DEF StoredKeys
    <2>2. \A x \in NkeyEntry : AsSigner(x) \in Signer
      BY DEF NkeyEntry, AsSigner, Signer
    <2>3. [key |-> RawSigner, scoped |-> FALSE, template |-> None] \in Signer
      BY DEF Signer
    <2> QED BY <2>1, <2>2, <2>3 DEF SignersOf
  <1> QED BY <1>1, <1>2 DEF Claims, Token

\* No entry and no JWT is None.
LEMMA EntriesExist ==
  /\ \A e \in AccountEntry : e # None
  /\ \A e \in NkeyEntry : e # None
  /\ \A e \in Token : e # None
  /\ \A e \in [default : Name] : e # None
  BY NoneAssumption

\* Issuing leaves a JWT of its type, and none is made up for a missing account.
LEMMA IssueType ==
  ASSUME jwt \in Token \cup {None}, late \in BOOLEAN,
         NEW a \in AccountEntry \cup {None}, NEW k \in 0 .. MaxKeys,
         NEW sk \in [SigningName -> NkeyEntry \cup {None}], NEW im \in [ImportName -> SUBSET Claim],
         Issue(a, k, sk, im)
  PROVE  jwt' \in Token \cup {None} /\ late' \in BOOLEAN
  <1>1. CASE a = None
    <2>1. jwt' = jwt /\ late' = late
      BY <1>1 DEF Issue
    <2> QED BY <2>1
  <1>2. CASE a # None
    <2>1. k # 0 /\ jwt' = Claims(a, k, sk, im) /\ late' = FALSE
      BY <1>2 DEF Issue
    <2>2. k \in Key
      BY <2>1, ClaimsAssumption DEF Key
    <2> QED BY <1>2, <2>1, <2>2, ClaimsType
  <1> QED BY <1>1, <1>2

\* What the end of a transaction does, dirty or not.
LEMMA Pushes ==
  ASSUME NEW h, NEW dirty, NEW a, NEW k, NEW sk, NEW im, IssueAndPush(h, dirty, a, k, sk, im)
  PROVE  /\ dirty => Issue(a, k, sk, im) /\ Goto(h, "sync")
         /\ ~dirty => UNCHANGED <<jwt, late>> /\ Goto(h, "idle")
         /\ Overtake(h) /\ UNCHANGED <<nats, missed>>
  <1>1. CASE dirty
    BY <1>1, Zenon DEF IssueAndPush
  <1>2. CASE ~dirty
    BY <1>2, Zenon DEF IssueAndPush
  <1> QED BY <1>1, <1>2

\* The same with the types of what it leaves.
LEMMA PushesType ==
  ASSUME jwt \in Token \cup {None}, late \in BOOLEAN,
         NEW h, NEW dirty, NEW a \in AccountEntry \cup {None}, NEW k \in 0 .. MaxKeys,
         NEW sk \in [SigningName -> NkeyEntry \cup {None}], NEW im \in [ImportName -> SUBSET Claim],
         IssueAndPush(h, dirty, a, k, sk, im)
  PROVE  /\ jwt' \in Token \cup {None} /\ late' \in BOOLEAN
         /\ UNCHANGED <<nats, missed>>
         /\ Goto(h, "sync") \/ Goto(h, "idle")
         /\ Overtake(h)
  <1>1. CASE dirty
    <2>1. Issue(a, k, sk, im) /\ Goto(h, "sync") /\ Overtake(h) /\ UNCHANGED <<nats, missed>>
      BY <1>1, Pushes
    <2> QED BY <2>1, IssueType
  <1>2. CASE ~dirty
    <2>1. jwt' = jwt /\ late' = late
      BY <1>2, Pushes
    <2> QED BY <1>2, <2>1, Pushes
  <1> QED BY <1>1, <1>2

\* The part of TypeOK about what is stored, and the part about the handlers.
DataOK ==
  /\ acc \in AccountEntry \cup {None}
  /\ key \in 0 .. MaxKeys
  /\ skey \in [SigningName -> NkeyEntry \cup {None}]
  /\ imp \in [ImportName -> SUBSET Claim]
  /\ \A n \in ImportName : \A c, d \in imp[n] : c.subject = d.subject => c = d
  /\ user \in [User -> [default : Name] \cup {None}]
  /\ jwt \in Token \cup {None}
  /\ nats \in Token \cup {None}
  /\ minted \in 0 .. MaxKeys
  /\ late \in BOOLEAN /\ missed \in BOOLEAN

Place == {"idle", "issue", "read", "save", "sync", "push", "status", "store", "commit"}

LocalOK ==
  /\ pc \in [Handler -> Place]
  /\ tok \in [Handler -> Token \cup {None}]
  /\ entry \in [Handler -> AccountEntry \cup {None}]
  /\ overtaken \in [Handler -> BOOLEAN]
  /\ \A h \in Handler : /\ pc[h] \in {"save", "push"} => tok[h] # None
                        /\ pc[h] \in {"read", "store"} => entry[h] # None

LEMMA TypeParts ==
  /\ TypeOK <=> DataOK /\ LocalOK /\ served \in 0 .. MaxRequests
  /\ TypeOK' <=> DataOK' /\ LocalOK' /\ served' \in 0 .. MaxRequests
  BY DEF TypeOK, DataOK, LocalOK, Place

\* Nothing is stored at first.
LEMMA InitType == Init => TypeOK
  <1> SUFFICES ASSUME Init PROVE TypeOK
    OBVIOUS
  <1>1. key \in 0 .. MaxKeys /\ minted \in 0 .. MaxKeys /\ served \in 0 .. MaxRequests
    BY ClaimsAssumption DEF Init
  <1>2. DataOK
    <2>1. \A n \in ImportName : imp[n] = {}
      BY DEF Init
    <2>2. late \in BOOLEAN /\ missed \in BOOLEAN
      BY DEF Init
    <2> QED BY <1>1, <2>1, <2>2 DEF Init, DataOK
  <1>3. LocalOK
    BY DEF Init, LocalOK, Place
  <1> QED BY <1>1, <1>2, <1>3, TypeParts

\* A handler that moves on has in hand what its place asks for.
LEMMA AtType ==
  ASSUME LocalOK, NEW h \in Handler, NEW l \in Place,
         NEW t \in Token \cup {None}, NEW e \in AccountEntry \cup {None},
         l \in {"save", "push"} => t # None, l \in {"read", "store"} => e # None,
         At(h, l, t, e), overtaken' \in [Handler -> BOOLEAN]
  PROVE  LocalOK'
  <1>1. \A g \in Handler : /\ pc'[g] = (IF g = h THEN l ELSE pc[g])
                           /\ tok'[g] = (IF g = h THEN t ELSE tok[g])
                           /\ entry'[g] = (IF g = h THEN e ELSE entry[g])
    BY DEF At, LocalOK
  <1>2. /\ pc' \in [Handler -> Place]
        /\ tok' \in [Handler -> Token \cup {None}]
        /\ entry' \in [Handler -> AccountEntry \cup {None}]
    BY DEF At, LocalOK
  <1> QED BY <1>1, <1>2 DEF LocalOK

\* The flags of the handlers stay flags.
LEMMA OvertakenType ==
  ASSUME LocalOK, NEW h \in Handler, Overtake(h) \/ LetGo(h) \/ UNCHANGED overtaken
  PROVE  overtaken' \in [Handler -> BOOLEAN]
  <1>1. CASE Overtake(h)
    <2>1. \A g \in Handler : overtaken[g] \in BOOLEAN
      BY DEF LocalOK
    <2> QED BY <1>1, <2>1, Zenon DEF Overtake
  <1>2. CASE LetGo(h)
    BY <1>2 DEF LetGo, LocalOK
  <1>3. CASE UNCHANGED overtaken
    BY <1>3 DEF LocalOK
  <1> QED BY <1>1, <1>2, <1>3

\* Most steps leave the handler with nothing in hand, or where it was.
LEMMA GotoType ==
  ASSUME LocalOK, NEW h \in Handler,
         \/ \E l \in {"idle", "issue", "sync", "status", "commit"} : Goto(h, l)
         \/ UNCHANGED <<pc, tok, entry>>,
         Overtake(h) \/ LetGo(h) \/ UNCHANGED overtaken
  PROVE  LocalOK'
  <1>1. overtaken' \in [Handler -> BOOLEAN]
    BY OvertakenType
  <1>2. ASSUME NEW l \in {"idle", "issue", "sync", "status", "commit"}, Goto(h, l) PROVE LocalOK'
    BY <1>1, <1>2, AtType DEF Goto, Place
  <1>3. CASE UNCHANGED <<pc, tok, entry>>
    BY <1>1, <1>3 DEF LocalOK
  <1> QED BY <1>2, <1>3

\* Each request stores entries of their types, and imports only if validated.
LEMMA RequestType ==
  ASSUME DataOK, LocalOK, NEW h \in Handler, Request(h)
  PROVE  DataOK' /\ LocalOK'
  <1> USE DEF DataOK
  <1>1. ASSUME NEW e \in AccountEntry, AccountWrite(h, e) PROVE DataOK' /\ LocalOK'
    <2>1. key' \in 0 .. MaxKeys /\ minted' \in 0 .. MaxKeys /\ acc' = e
      BY <1>1, ClaimsAssumption DEF AccountWrite, Mint
    <2>2. IssueAndPush(h, acc # e, e, key', skey, imp)
      BY <1>1 DEF AccountWrite
    <2>3. /\ jwt' \in Token \cup {None} /\ late' \in BOOLEAN /\ UNCHANGED <<nats, missed>>
          /\ Goto(h, "sync") \/ Goto(h, "idle")
          /\ Overtake(h)
      BY <2>1, <2>2, PushesType
    <2> QED BY <1>1, <2>1, <2>3, GotoType DEF AccountWrite
  <1>2. CASE AccountDelete(h)
    <2>1. UNCHANGED <<parts, user, jwt, overtaken, late, missed>> /\ Goto(h, "commit")
      BY <1>2 DEF AccountDelete
    <2>2. nats' \in Token \cup {None}
      BY <1>2 DEF AccountDelete
    <2> QED BY <2>1, <2>2, GotoType DEF parts
  <1>3. CASE AccountRotate(h)
    <2>1. key' \in 0 .. MaxKeys /\ minted' \in 0 .. MaxKeys
      BY <1>3, ClaimsAssumption DEF AccountRotate, Mint
    <2>2. IssueAndPush(h, TRUE, acc, key', skey, imp)
      BY <1>3 DEF AccountRotate
    <2>3. /\ jwt' \in Token \cup {None} /\ late' \in BOOLEAN /\ UNCHANGED <<nats, missed>>
          /\ Goto(h, "sync") \/ Goto(h, "idle")
          /\ Overtake(h)
      BY <2>1, <2>2, PushesType
    <2> QED BY <1>3, <2>1, <2>3, GotoType DEF AccountRotate
  <1>4. CASE Reissue(h)
    <2>1. jwt' \in Token \cup {None} /\ late' \in BOOLEAN
      BY <1>4, IssueType DEF Reissue
    <2>2. missed' \in BOOLEAN /\ (Goto(h, "sync") \/ Goto(h, "idle")) /\ Overtake(h)
      BY <1>4 DEF Reissue
    <2> QED BY <1>4, <2>1, <2>2, GotoType DEF Reissue, parts
  <1>5. ASSUME NEW n \in SigningName, NEW scoped \in BOOLEAN, NEW template \in {None, "good", "bad"},
               SigningKeyWrite(h, n, scoped, template)
        PROVE  DataOK' /\ LocalOK'
    <2> DEFINE old == skey[n]
               dirty == \/ old = None
                        \/ scoped # old.scoped
                        \/ scoped /\ template # old.template
    <2>1. minted' \in 0 .. MaxKeys
      BY <1>5, ClaimsAssumption DEF SigningKeyWrite, Mint
    <2>2. skey' \in [SigningName -> NkeyEntry \cup {None}]
      <3>1. (IF skey[n] = None THEN minted + 1 ELSE skey[n].key) \in Key
        BY <1>5, ClaimsAssumption DEF SigningKeyWrite, Mint, NkeyEntry, Key
      <3> QED BY <1>5, <3>1 DEF SigningKeyWrite, NkeyEntry
    <2>3. IssueAndPush(h, dirty, acc, key, skey', imp) /\ UNCHANGED <<acc, key, imp, user>>
      BY <1>5 DEF SigningKeyWrite
    <2> HIDE DEF dirty
    <2>4. /\ jwt' \in Token \cup {None} /\ late' \in BOOLEAN /\ UNCHANGED <<nats, missed>>
          /\ Goto(h, "sync") \/ Goto(h, "idle")
          /\ Overtake(h)
      BY <2>2, <2>3, PushesType
    <2> QED BY <2>1, <2>2, <2>3, <2>4, GotoType
  <1>6. ASSUME NEW n \in SigningName, SigningKeyDelete(h, n) PROVE DataOK' /\ LocalOK'
    <2>1. skey' \in [SigningName -> NkeyEntry \cup {None}]
      BY <1>6 DEF SigningKeyDelete
    <2>2. jwt' \in Token \cup {None} /\ late' \in BOOLEAN
      BY <1>6, <2>1, IssueType DEF SigningKeyDelete
    <2>3. missed' \in BOOLEAN
      BY <1>6 DEF SigningKeyDelete
    <2> QED BY <1>6, <2>1, <2>2, <2>3, GotoType DEF SigningKeyDelete
  <1>7. ASSUME NEW n \in SigningName, SigningKeyRotate(h, n) PROVE DataOK' /\ LocalOK'
    <2>1. minted' \in 0 .. MaxKeys /\ minted + 1 \in Key
      BY <1>7, ClaimsAssumption DEF SigningKeyRotate, Mint, Key
    <2>2. skey' \in [SigningName -> NkeyEntry \cup {None}]
      BY <1>7, <2>1 DEF SigningKeyRotate, NkeyEntry
    <2>3. IssueAndPush(h, TRUE, acc, key, skey', imp) /\ UNCHANGED <<acc, key, imp, user>>
      BY <1>7 DEF SigningKeyRotate
    <2>4. /\ jwt' \in Token \cup {None} /\ late' \in BOOLEAN /\ UNCHANGED <<nats, missed>>
          /\ Goto(h, "sync") \/ Goto(h, "idle")
          /\ Overtake(h)
      BY <2>2, <2>3, PushesType
    <2> QED BY <2>1, <2>2, <2>3, <2>4, GotoType
  <1>8. ASSUME NEW n \in ImportName, NEW claims \in SUBSET [subject : Subject, share : BOOLEAN],
               ImportWrite(h, n, claims)
        PROVE  DataOK' /\ LocalOK'
    <2>1. claims \in SUBSET Claim
      BY DEF Claim
    <2>2. /\ imp' \in [ImportName -> SUBSET Claim]
          /\ \A m \in ImportName : \A c, d \in imp'[m] : c.subject = d.subject => c = d
      BY <1>8, <2>1 DEF ImportWrite
    <2>3. IssueAndPush(h, TRUE, acc, key, skey, imp') /\ UNCHANGED <<acc, key, skey, user, minted>>
      BY <1>8 DEF ImportWrite
    <2>4. /\ jwt' \in Token \cup {None} /\ late' \in BOOLEAN /\ UNCHANGED <<nats, missed>>
          /\ Goto(h, "sync") \/ Goto(h, "idle")
          /\ Overtake(h)
      BY <2>2, <2>3, PushesType
    <2> QED BY <2>2, <2>3, <2>4, GotoType
  <1>9. ASSUME NEW n \in ImportName, NEW c \in [subject : Subject, share : BOOLEAN], ImportTune(h, n, c)
        PROVE  DataOK' /\ LocalOK'
    <2> DEFINE dirty == \A d \in imp[n] : d.subject # c.subject
    <2>1. c \in Claim
      BY DEF Claim
    <2>2. /\ imp' \in [ImportName -> SUBSET Claim]
          /\ \A m \in ImportName : \A d, e \in imp'[m] : d.subject = e.subject => d = e
      BY <1>9, <2>1 DEF ImportTune
    <2>3. IssueAndPush(h, dirty, acc, key, skey, imp') /\ UNCHANGED <<acc, key, skey, user, minted>>
      BY <1>9 DEF ImportTune
    <2> HIDE DEF dirty
    <2>4. /\ jwt' \in Token \cup {None} /\ late' \in BOOLEAN /\ UNCHANGED <<nats, missed>>
          /\ Goto(h, "sync") \/ Goto(h, "idle")
          /\ Overtake(h)
      BY <2>2, <2>3, PushesType
    <2> QED BY <2>2, <2>3, <2>4, GotoType
  <1>10. ASSUME NEW n \in ImportName, ImportDelete(h, n) PROVE DataOK' /\ LocalOK'
    <2>2. /\ imp' \in [ImportName -> SUBSET Claim]
          /\ \A m \in ImportName : \A c, d \in imp'[m] : c.subject = d.subject => c = d
      BY <1>10 DEF ImportDelete
    <2>3. IssueAndPush(h, TRUE, acc, key, skey, imp') /\ UNCHANGED <<acc, key, skey, user, minted>>
      BY <1>10 DEF ImportDelete
    <2>4. /\ jwt' \in Token \cup {None} /\ late' \in BOOLEAN /\ UNCHANGED <<nats, missed>>
          /\ Goto(h, "sync") \/ Goto(h, "idle")
          /\ Overtake(h)
      BY <2>2, <2>3, PushesType
    <2> QED BY <2>2, <2>3, <2>4, GotoType
  <1>11. ASSUME NEW u \in User, NEW default \in Name, UserWrite(h, u, default) PROVE DataOK' /\ LocalOK'
    BY <1>11, GotoType DEF UserWrite, parts, local
  <1>12. ASSUME NEW u \in User, UserDelete(h, u) PROVE DataOK' /\ LocalOK'
    BY <1>12, GotoType DEF UserDelete, parts
  <1>13. CASE RevocationWrite(h) \/ SyncOnly(h)
    BY <1>13, GotoType DEF RevocationWrite, SyncOnly, parts
  <1> HIDE DEF DataOK
  <1> QED
    BY <1>1, <1>2, <1>3, <1>4, <1>5, <1>6, <1>7, <1>8, <1>9, <1>10, <1>11, <1>12, <1>13 DEF Request

\* So does each later step, with what the handler has in hand.
LEMMA LaterType ==
  ASSUME DataOK, LocalOK, NEW h \in Handler, Later(h)
  PROVE  DataOK' /\ LocalOK'
  <1>0. /\ pc[h] \in {"save", "push"} => tok[h] \in Token
        /\ pc[h] \in {"read", "store"} => entry[h] \in AccountEntry
        /\ overtaken[h] \in BOOLEAN
    BY DEF LocalOK
  <1>1. CASE CommitDelete(h)
    <2>1. DataOK'
      <3>1. /\ acc' = None /\ key' = 0 /\ jwt' = None /\ UNCHANGED <<nats, missed, minted>>
            /\ skey' = [n \in SigningName |-> None] /\ imp' = [n \in ImportName |-> {}]
            /\ user' = [u \in User |-> None] /\ late' \in BOOLEAN
        BY <1>1 DEF CommitDelete
      <3>2. 0 \in 0 .. MaxKeys
        BY ClaimsAssumption
      <3>3. \A n \in ImportName : imp'[n] = {}
        BY <3>1
      <3> QED BY <3>1, <3>2, <3>3 DEF DataOK
    <2> QED BY <1>1, <2>1, GotoType DEF CommitDelete
  <1>2. CASE DeleteFails(h) \/ IssueFails(h) \/ StatusFails(h) \/ PushFails(h)
    <2>1. DataOK'
      BY <1>2 DEF DeleteFails, IssueFails, StatusFails, PushFails, DataOK, parts
    <2> QED BY <1>2, <2>1, GotoType DEF DeleteFails, IssueFails, StatusFails, PushFails
  <1>3. CASE ReadAccount(h)
    <2>1. DataOK'
      BY <1>3 DEF ReadAccount, DataOK, parts
    <2>2. CASE acc = None
      BY <1>3, <2>1, <2>2, GotoType DEF ReadAccount
    <2>3. CASE acc # None
      BY <1>3, <2>1, <2>3, OvertakenType, AtType DEF ReadAccount, DataOK, Place
    <2> QED BY <2>2, <2>3
  <1>4. CASE ReadParts(h)
    <2>1. DataOK'
      BY <1>4 DEF ReadParts, DataOK, parts
    <2>2. Claims(entry[h], key, skey, imp) \in Token
      <3>1. key \in Key
        BY <1>4, ClaimsAssumption DEF ReadParts, DataOK, Key
      <3> QED BY <1>0, <1>4, <3>1, ClaimsType DEF ReadParts, DataOK
    <2> QED BY <1>4, <2>1, <2>2, EntriesExist, OvertakenType, AtType DEF ReadParts, Place
  <1>5. CASE SaveJwt(h)
    <2>1. DataOK'
      BY <1>0, <1>5 DEF SaveJwt, DataOK, parts
    <2> QED BY <1>5, <2>1, GotoType DEF SaveJwt
  <1>6. CASE ReadJwt(h)
    <2>1. DataOK'
      BY <1>6 DEF ReadJwt, DataOK, parts
    <2> QED BY <1>6, <2>1, OvertakenType, AtType DEF ReadJwt, DataOK, Place
  <1>7. CASE NoPush(h)
    <2>1. DataOK'
      BY <1>7 DEF NoPush, DataOK, parts
    <2> QED BY <1>7, <2>1, GotoType DEF NoPush
  <1>8. CASE Push(h)
    <2>1. DataOK'
      BY <1>0, <1>8 DEF Push, DataOK, parts
    <2> QED BY <1>8, <2>1, GotoType DEF Push
  <1>9. CASE ReadEntry(h)
    <2>1. DataOK'
      BY <1>9 DEF ReadEntry, DataOK, parts
    <2> QED BY <1>9, <2>1, OvertakenType, AtType DEF ReadEntry, DataOK, Place
  <1>10. CASE StoreStatus(h)
    <2>1. DataOK'
      <3>1. (late \/ overtaken[h]) \in BOOLEAN
        OBVIOUS
      <3> QED BY <1>0, <1>10, <3>1 DEF StoreStatus, DataOK
    <2> QED BY <1>10, <2>1, GotoType DEF StoreStatus
  <1> QED
    BY <1>1, <1>2, <1>3, <1>4, <1>5, <1>6, <1>7, <1>8, <1>9, <1>10 DEF Later

\* Every step keeps the types.
LEMMA StepType == TypeOK /\ [Next]_vars => TypeOK'
  <1> SUFFICES ASSUME TypeOK, [Next]_vars PROVE TypeOK'
    OBVIOUS
  <1>0. DataOK /\ LocalOK /\ served \in 0 .. MaxRequests
    BY TypeParts
  <1>1. CASE Next
    <2>1. served' \in 0 .. MaxRequests
      BY <1>0, <1>1, ClaimsAssumption DEF Next
    <2>2. ASSUME NEW h \in Handler, Request(h) \/ Later(h) PROVE DataOK' /\ LocalOK'
      BY <1>0, <2>2, RequestType, LaterType
    <2>3. ASSUME Crash PROVE DataOK' /\ LocalOK'
      <3>1. DataOK'
        BY <1>0, <2>3 DEF Crash, DataOK, parts
      <3>2. LocalOK'
        BY <2>3 DEF Crash, LocalOK, Place
      <3> QED BY <3>1, <3>2
    <2> QED BY <1>1, <2>1, <2>2, <2>3, TypeParts DEF Next
  <1>2. CASE UNCHANGED vars
    BY <1>0, <1>2, TypeParts DEF vars, parts, local, DataOK, LocalOK
  <1> QED BY <1>1, <1>2

-----------------------------------------------------------------------------
(* What handlers hold.                                                      *)

\* What h holds between two steps is what is stored, unless it was overtaken.
Held(h) ==
  ~overtaken[h] =>
    /\ pc[h] \in {"read", "store"} => entry[h] = acc
    /\ pc[h] = "save" => acc # None /\ key # 0 /\ tok[h] = Claims(acc, key, skey, imp)
    /\ pc[h] = "push" => tok[h] = jwt

HeldCurrent == \A h \in Handler : Held(h)

\* The places of a handler that holds nothing that was stored.
Free == {"idle", "issue", "sync", "status", "commit"}

\* The other handlers stay where they are.
Apart(h) ==
  \A g \in Handler \ {h} : pc'[g] = pc[g] /\ tok'[g] = tok[g] /\ entry'[g] = entry[g]

LEMMA AtApart ==
  ASSUME LocalOK, NEW h \in Handler, NEW l, NEW t, NEW e, At(h, l, t, e)
  PROVE  Apart(h) /\ pc'[h] = l /\ tok'[h] = t /\ entry'[h] = e
  BY DEF At, LocalOK, Apart

LEMMA GotoApart ==
  ASSUME LocalOK, NEW h \in Handler, NEW l, Goto(h, l)
  PROVE  Apart(h) /\ pc'[h] = l
  BY AtApart DEF Goto

\* A handler that stores something marks those whose hands are out of date.
LEMMA OvertakeHeld ==
  ASSUME LocalOK, HeldCurrent, NEW h \in Handler, Overtake(h), Apart(h), pc'[h] \in Free
  PROVE  HeldCurrent'
  <1> SUFFICES ASSUME NEW g \in Handler, ~overtaken'[g] PROVE Held(g)'
    BY DEF HeldCurrent, Held
  <1>1. CASE g = h
    BY <1>1 DEF Held, Free
  <1>2. CASE g # h
    <2>1. /\ ~overtaken[g]
          /\ ~(pc[g] \in {"read", "store"} /\ acc' # acc)
          /\ ~(pc[g] = "save" /\ <<acc, key, skey, imp>>' # <<acc, key, skey, imp>>)
          /\ ~(pc[g] = "push" /\ jwt' # jwt)
      <3>1. overtaken'[g] = (/\ g # h
                             /\ \/ overtaken[g]
                                \/ pc[g] \in {"read", "store"} /\ acc' # acc
                                \/ pc[g] = "save" /\ <<acc, key, skey, imp>>' # <<acc, key, skey, imp>>
                                \/ pc[g] = "push" /\ jwt' # jwt)
        BY Zenon DEF Overtake
      <3> QED BY <1>2, <3>1, Zenon
    <2>2. pc'[g] = pc[g] /\ tok'[g] = tok[g] /\ entry'[g] = entry[g]
      BY <1>2 DEF Apart
    <2>3. Held(g)
      BY DEF HeldCurrent
    <2> QED BY <2>1, <2>2, <2>3 DEF Held
  <1> QED BY <1>1, <1>2

\* A step that stores nothing of this leaves the others as they are.
LEMMA ApartHeld ==
  ASSUME LocalOK, HeldCurrent, NEW h \in Handler, UNCHANGED parts, UNCHANGED jwt, Apart(h),
         UNCHANGED overtaken \/ LetGo(h), Held(h)'
  PROVE  HeldCurrent'
  <1> SUFFICES ASSUME NEW g \in Handler, g # h PROVE Held(g)'
    BY DEF HeldCurrent
  <1>1. overtaken'[g] = overtaken[g]
    BY DEF LetGo, LocalOK
  <1>2. pc'[g] = pc[g] /\ tok'[g] = tok[g] /\ entry'[g] = entry[g]
    BY DEF Apart
  <1>3. Held(g)
    BY DEF HeldCurrent
  <1> QED BY <1>1, <1>2, <1>3 DEF Held, parts

\* A request holds nothing, and a transaction overtakes the others.
LEMMA RequestHeld ==
  ASSUME TypeOK, HeldCurrent, NEW h \in Handler, Request(h)
  PROVE  HeldCurrent'
  <1>0. LocalOK
    BY TypeParts
  <1>1. ASSUME NEW dirty, NEW a, NEW k, NEW sk, NEW im, IssueAndPush(h, dirty, a, k, sk, im)
        PROVE  HeldCurrent'
    <2>1. Overtake(h) /\ (Goto(h, "sync") \/ Goto(h, "idle"))
      <3>1. CASE dirty
        BY <1>1, <3>1, Pushes
      <3>2. CASE ~dirty
        BY <1>1, <3>2, Pushes
      <3> QED BY <3>1, <3>2
    <2> QED BY <1>0, <2>1, GotoApart, OvertakeHeld DEF Free
  <1>2. ASSUME NEW l \in Free, Goto(h, l), UNCHANGED <<parts, jwt, overtaken>> PROVE HeldCurrent'
    <2>1. Held(h)' /\ Apart(h)
      BY <1>0, <1>2, GotoApart DEF Held, Free
    <2> QED BY <1>0, <1>2, <2>1, ApartHeld
  <1>3. ASSUME Idle(h), UNCHANGED <<pc, tok, entry>>, Overtake(h) PROVE HeldCurrent'
    <2>1. Apart(h) /\ pc'[h] \in Free
      BY <1>3 DEF Apart, Idle, Free
    <2> QED BY <1>0, <1>3, <2>1, OvertakeHeld
  <1>4. CASE AccountDelete(h) \/ RevocationWrite(h) \/ SyncOnly(h)
    BY <1>2, <1>4 DEF AccountDelete, RevocationWrite, SyncOnly, Free
  <1>5. CASE Reissue(h)
    <2>1. Overtake(h) /\ (Goto(h, "sync") \/ Goto(h, "idle"))
      BY <1>5 DEF Reissue
    <2> QED BY <1>0, <2>1, GotoApart, OvertakeHeld DEF Free
  <1>6. ASSUME NEW n \in SigningName, SigningKeyDelete(h, n) PROVE HeldCurrent'
    BY <1>3, <1>6 DEF SigningKeyDelete
  <1>7. ASSUME NEW u \in User, UserDelete(h, u) PROVE HeldCurrent'
    BY <1>2, <1>7 DEF UserDelete, Free
  <1>8. ASSUME NEW u \in User, NEW default \in Name, UserWrite(h, u, default) PROVE HeldCurrent'
    BY <1>8 DEF UserWrite, parts, local, HeldCurrent, Held
  <1>9. ASSUME NEW e \in AccountEntry, AccountWrite(h, e) PROVE HeldCurrent'
    BY <1>1, <1>9 DEF AccountWrite
  <1>10. CASE AccountRotate(h)
    BY <1>1, <1>10 DEF AccountRotate
  <1>11. ASSUME NEW n \in SigningName, NEW scoped \in BOOLEAN, NEW template \in {None, "good", "bad"},
                SigningKeyWrite(h, n, scoped, template)
         PROVE  HeldCurrent'
    <2> DEFINE dirty == \/ skey[n] = None
                        \/ scoped # skey[n].scoped
                        \/ scoped /\ template # skey[n].template
    <2>1. IssueAndPush(h, dirty, acc, key, skey', imp)
      BY <1>11 DEF SigningKeyWrite
    <2> HIDE DEF dirty
    <2> QED BY <1>1, <2>1
  <1>12. ASSUME NEW n \in SigningName, SigningKeyRotate(h, n) PROVE HeldCurrent'
    BY <1>1, <1>12 DEF SigningKeyRotate
  <1>13. ASSUME NEW n \in ImportName, NEW claims, ImportWrite(h, n, claims) PROVE HeldCurrent'
    BY <1>1, <1>13 DEF ImportWrite
  <1>14. ASSUME NEW n \in ImportName, NEW c, ImportTune(h, n, c) PROVE HeldCurrent'
    <2> DEFINE dirty == \A d \in imp[n] : d.subject # c.subject
    <2>1. IssueAndPush(h, dirty, acc, key, skey, imp')
      BY <1>14 DEF ImportTune
    <2> HIDE DEF dirty
    <2> QED BY <1>1, <2>1
  <1>15. ASSUME NEW n \in ImportName, ImportDelete(h, n) PROVE HeldCurrent'
    BY <1>1, <1>15 DEF ImportDelete
  <1> QED
    BY <1>4, <1>5, <1>6, <1>7, <1>8, <1>9, <1>10, <1>11, <1>12, <1>13, <1>14, <1>15 DEF Request

\* What is read is what is stored, and what is made of it is what is issued.
LEMMA LaterHeld ==
  ASSUME TypeOK, HeldCurrent, NEW h \in Handler, Later(h)
  PROVE  HeldCurrent'
  <1>0. LocalOK /\ Held(h)
    BY TypeParts DEF HeldCurrent
  <1>1. CASE CommitDelete(h) \/ SaveJwt(h) \/ StoreStatus(h)
    <2>1. Overtake(h) /\ (Goto(h, "sync") \/ Goto(h, "idle"))
      BY <1>1 DEF CommitDelete, SaveJwt, StoreStatus
    <2> QED BY <1>0, <2>1, GotoApart, OvertakeHeld DEF Free
  <1>2. ASSUME NEW l \in Free, Goto(h, l), UNCHANGED <<parts, jwt>>, UNCHANGED overtaken \/ LetGo(h)
        PROVE  HeldCurrent'
    <2>1. Held(h)' /\ Apart(h)
      BY <1>0, <1>2, GotoApart DEF Held, Free
    <2> QED BY <1>0, <1>2, <2>1, ApartHeld
  <1>3. CASE DeleteFails(h) \/ IssueFails(h) \/ StatusFails(h) \/ Push(h) \/ PushFails(h) \/ NoPush(h)
    BY <1>2, <1>3 DEF DeleteFails, IssueFails, StatusFails, Push, PushFails, NoPush, Free
  <1>4. CASE ReadAccount(h)
    <2>1. UNCHANGED <<parts, jwt, overtaken>>
      BY <1>4 DEF ReadAccount
    <2>2. CASE acc = None
      BY <1>2, <1>4, <2>1, <2>2 DEF ReadAccount, Free
    <2>3. CASE acc # None
      <3>1. Apart(h) /\ pc'[h] = "read" /\ entry'[h] = acc
        BY <1>0, <1>4, <2>3, AtApart DEF ReadAccount
      <3>2. Held(h)'
        BY <2>1, <3>1 DEF Held, parts
      <3> QED BY <1>0, <2>1, <3>1, <3>2, ApartHeld
    <2> QED BY <2>2, <2>3
  <1>5. CASE ReadParts(h)
    <2>1. UNCHANGED <<parts, jwt, overtaken>> /\ pc[h] = "read" /\ key # 0
      BY <1>5 DEF ReadParts
    <2>2. Apart(h) /\ pc'[h] = "save" /\ tok'[h] = Claims(entry[h], key, skey, imp)
      BY <1>0, <1>5, AtApart DEF ReadParts
    <2>3. entry[h] # None
      BY <1>0, <2>1 DEF LocalOK
    <2>4. Held(h)'
      <3>1. ~overtaken[h] => entry[h] = acc
        BY <1>0, <2>1 DEF Held
      <3> QED BY <2>1, <2>2, <2>3, <3>1 DEF Held, parts
    <2> QED BY <1>0, <2>1, <2>2, <2>4, ApartHeld
  <1>6. CASE ReadJwt(h)
    <2>1. UNCHANGED <<parts, jwt, overtaken>>
      BY <1>6 DEF ReadJwt
    <2>2. Apart(h) /\ pc'[h] = "push" /\ tok'[h] = jwt
      BY <1>0, <1>6, AtApart DEF ReadJwt
    <2>3. Held(h)'
      BY <2>1, <2>2 DEF Held
    <2> QED BY <1>0, <2>1, <2>2, <2>3, ApartHeld
  <1>7. CASE ReadEntry(h)
    <2>1. UNCHANGED <<parts, jwt, overtaken>>
      BY <1>7 DEF ReadEntry
    <2>2. Apart(h) /\ pc'[h] = "store" /\ entry'[h] = acc
      BY <1>0, <1>7, AtApart DEF ReadEntry
    <2>3. Held(h)'
      BY <2>1, <2>2 DEF Held, parts
    <2> QED BY <1>0, <2>1, <2>2, <2>3, ApartHeld
  <1> QED BY <1>1, <1>3, <1>4, <1>5, <1>6, <1>7 DEF Later

\* What a handler holds stays current, or it is known to be overtaken.
LEMMA StepHeld == TypeOK /\ HeldCurrent /\ [Next]_vars => HeldCurrent'
  <1> SUFFICES ASSUME TypeOK, HeldCurrent, [Next]_vars PROVE HeldCurrent'
    OBVIOUS
  <1>1. CASE Crash
    BY <1>1 DEF Crash, HeldCurrent, Held
  <1>2. CASE UNCHANGED vars
    BY <1>2 DEF vars, parts, local, HeldCurrent, Held
  <1> QED BY <1>1, <1>2, RequestHeld, LaterHeld DEF Next

-----------------------------------------------------------------------------
(* What is left of an account, and what its JWT says.                       *)

\* deleteAccount leaves nothing that the properties of the next account see, and
\* nothing but a JWT, which is late, is written without the account.
LEMMA StepNoLeftovers == TypeOK /\ HeldCurrent /\ NoLeftovers /\ [Next]_vars => NoLeftovers'
  <1> SUFFICES ASSUME TypeOK, HeldCurrent, NoLeftovers, [Next]_vars, acc' = None
               PROVE  /\ key' = 0 /\ (jwt' = None \/ late')
                      /\ \A n \in ImportName : imp'[n] = {}
                      /\ \A u \in User : user'[u] = None
    BY DEF NoLeftovers
  <1> DEFINE Empty == /\ key' = 0 /\ (jwt' = None \/ late')
                      /\ \A n \in ImportName : imp'[n] = {}
                      /\ \A u \in User : user'[u] = None
  <1>0. acc = None =>
          /\ key = 0 /\ (jwt = None \/ late)
          /\ \A n \in ImportName : imp[n] = {}
          /\ \A u \in User : user[u] = None
    BY DEF NoLeftovers
  <1>1. ASSUME NEW h \in Handler, Request(h) PROVE Empty
    <2>1. ASSUME NEW e \in AccountEntry, AccountWrite(h, e) PROVE Empty
      BY <2>1, EntriesExist DEF AccountWrite
    <2>2. CASE AccountRotate(h) \/ Reissue(h)
      BY <1>0, <2>2 DEF AccountRotate, Reissue, parts
    <2>3. ASSUME NEW dirty, NEW sk, NEW im, IssueAndPush(h, dirty, acc, key, sk, im), acc = None
          PROVE  UNCHANGED <<jwt, late>>
      <3>1. CASE dirty
        BY <2>3, <3>1, Pushes DEF Issue
      <3>2. CASE ~dirty
        BY <2>3, <3>2, Pushes
      <3> QED BY <3>1, <3>2
    <2>4. ASSUME NEW n \in SigningName, NEW scoped \in BOOLEAN, NEW template \in {None, "good", "bad"},
                 SigningKeyWrite(h, n, scoped, template)
          PROVE  Empty
      <3> DEFINE dirty == \/ skey[n] = None
                          \/ scoped # skey[n].scoped
                          \/ scoped /\ template # skey[n].template
      <3>1. IssueAndPush(h, dirty, acc, key, skey', imp) /\ UNCHANGED <<acc, key, imp, user>>
        BY <2>4 DEF SigningKeyWrite
      <3> HIDE DEF dirty
      <3> QED BY <1>0, <2>3, <3>1
    <2>5. ASSUME NEW n \in SigningName, SigningKeyDelete(h, n) PROVE Empty
      BY <1>0, <2>5 DEF SigningKeyDelete, Issue
    <2>6. ASSUME NEW n \in SigningName, SigningKeyRotate(h, n) PROVE Empty
      BY <1>0, <2>3, <2>6 DEF SigningKeyRotate
    <2>7. ASSUME NEW n \in ImportName, NEW claims, ImportWrite(h, n, claims) PROVE Empty
      BY <1>0, <2>7 DEF ImportWrite
    <2>8. ASSUME NEW n \in ImportName, NEW c, ImportTune(h, n, c) PROVE Empty
      BY <1>0, <2>8 DEF ImportTune
    <2>9. ASSUME NEW n \in ImportName, ImportDelete(h, n) PROVE Empty
      BY <1>0, <2>3, <2>9 DEF ImportDelete, TypeOK
    <2>10. ASSUME NEW u \in User, UserDelete(h, u) \/ \E default \in Name : UserWrite(h, u, default)
           PROVE  Empty
      BY <1>0, <2>10 DEF UserDelete, UserWrite, TypeOK, parts
    <2>11. CASE AccountDelete(h) \/ RevocationWrite(h) \/ SyncOnly(h)
      BY <1>0, <2>11 DEF AccountDelete, RevocationWrite, SyncOnly, parts
    <2> QED
      BY <1>1, <2>1, <2>2, <2>4, <2>5, <2>6, <2>7, <2>8, <2>9, <2>10, <2>11 DEF Request
  <1>2. ASSUME NEW h \in Handler, Later(h) PROVE Empty
    <2>1. CASE CommitDelete(h)
      BY <2>1 DEF CommitDelete
    <2>2. CASE SaveJwt(h)
      <3>1. overtaken[h]
        BY <2>2 DEF SaveJwt, HeldCurrent, Held, parts
      <3> QED BY <1>0, <2>2, <3>1 DEF SaveJwt, parts
    <2>3. CASE StoreStatus(h)
      BY <2>3 DEF StoreStatus, TypeOK
    <2>4. CASE UNCHANGED <<parts, user, jwt, late>>
      BY <1>0, <2>4 DEF parts
    <2> QED
      BY <1>2, <2>1, <2>2, <2>3, <2>4
      DEF Later, DeleteFails, ReadAccount, ReadParts, IssueFails, ReadJwt, NoPush, Push,
          PushFails, ReadEntry, StatusFails
  <1>3. CASE Crash \/ UNCHANGED vars
    BY <1>0, <1>3 DEF Crash, vars, parts
  <1> QED BY <1>1, <1>2, <1>3 DEF Next

Subjects(claims) == {c.subject : c \in claims}

\* The claims a JWT is compared with, flags of imports aside.
Says(token, a, k, sk, im) ==
  /\ k # 0 /\ token # None
  /\ token.sub = k
  /\ token.signers = SignersOf(a, sk)
  /\ Imported(token) = Subjects(ImportsOf(a, im))

\* JwtFresh in terms of Says.
LEMMA JwtFreshDef ==
  /\ JwtFresh <=> (acc # None /\ ~late => Says(jwt, acc, key, skey, imp))
  /\ JwtFresh' <=> (acc' # None /\ ~late' => Says(jwt', acc', key', skey', imp'))
  BY DEF JwtFresh, SaysClaims, Says, Claims, Imported, Subjects

\* Claims say what they were made from.
LEMMA ClaimsSay ==
  ASSUME NEW a \in AccountEntry, NEW k \in 0 .. MaxKeys, k # 0,
         NEW sk \in [SigningName -> NkeyEntry \cup {None}], NEW im \in [ImportName -> SUBSET Claim]
  PROVE  Says(Claims(a, k, sk, im), a, k, sk, im)
  <1>1. k \in Key
    BY ClaimsAssumption DEF Key
  <1>2. Claims(a, k, sk, im) # None
    BY <1>1, ClaimsType, EntriesExist
  <1> QED BY <1>2 DEF Says, Claims, Imported, Subjects

\* A JWT that has just been issued says what it was made from.
LEMMA IssuedSays ==
  ASSUME NEW a \in AccountEntry, NEW k \in 0 .. MaxKeys,
         NEW sk \in [SigningName -> NkeyEntry \cup {None}], NEW im \in [ImportName -> SUBSET Claim],
         Issue(a, k, sk, im)
  PROVE  Says(jwt', a, k, sk, im)
  <1>1. k # 0 /\ jwt' = Claims(a, k, sk, im)
    BY EntriesExist DEF Issue
  <1> QED BY <1>1, ClaimsSay

\* A transaction that ends with IssueAndPush leaves what is issued, if it is dirty.
LEMMA PushesSay ==
  ASSUME NEW h, NEW dirty, NEW a \in AccountEntry, NEW k \in 0 .. MaxKeys,
         NEW sk \in [SigningName -> NkeyEntry \cup {None}], NEW im \in [ImportName -> SUBSET Claim],
         IssueAndPush(h, dirty, a, k, sk, im)
  PROVE  /\ dirty => Says(jwt', a, k, sk, im)
         /\ ~dirty => UNCHANGED <<jwt, late>>
  <1>1. CASE dirty
    <2>1. Issue(a, k, sk, im)
      BY <1>1, Pushes
    <2> QED BY <1>1, <2>1, IssuedSays
  <1>2. CASE ~dirty
    BY <1>2, Pushes
  <1> QED BY <1>1, <1>2

\* A signing key that keeps its key, its scope and, if it has one, its template
\* is listed as it was.
LEMMA SameSigners ==
  ASSUME NEW a, NEW sk \in [SigningName -> NkeyEntry \cup {None}], NEW n \in SigningName, sk[n] # None,
         NEW x \in NkeyEntry, AsSigner(x) = AsSigner(sk[n])
  PROVE  SignersOf(a, [sk EXCEPT ![n] = x]) = SignersOf(a, sk)
  <1> DEFINE r == [sk EXCEPT ![n] = x]
  <1>1. {AsSigner(y) : y \in StoredKeys(r)} = {AsSigner(y) : y \in StoredKeys(sk)}
    <2>1. x \in StoredKeys(r) /\ sk[n] \in StoredKeys(sk)
      BY EntriesExist DEF StoredKeys
    <2>2. \A y \in StoredKeys(r) : y = x \/ y \in StoredKeys(sk)
      BY DEF StoredKeys
    <2>3. \A y \in StoredKeys(sk) : y = sk[n] \/ y \in StoredKeys(r)
      BY DEF StoredKeys
    <2> HIDE DEF r
    <2> QED BY <2>1, <2>2, <2>3
  <1> QED BY <1>1 DEF SignersOf

\* An import whose only claim keeps its subject is imported as it was.
LEMMA SameImports ==
  ASSUME NEW a, NEW im \in [ImportName -> SUBSET Claim], NEW n \in ImportName,
         NEW c, NEW d, im[n] = {d}, d.subject = c.subject
  PROVE  Subjects(ImportsOf(a, [im EXCEPT ![n] = {c}])) = Subjects(ImportsOf(a, im))
  <1> DEFINE r == [im EXCEPT ![n] = {c}]
             S == UNION {im[m] : m \in ImportName}
             R == UNION {r[m] : m \in ImportName}
  <1>1. r[n] = {c} /\ \A m \in ImportName \ {n} : r[m] = im[m]
    OBVIOUS
  <1>2. c \in R /\ d \in S
    BY <1>1
  <1>3. \A e \in R : e = c \/ e \in S
    BY <1>1
  <1>4. \A e \in S : e = d \/ e \in R
    BY <1>1
  <1>5. Subjects(R) = Subjects(S)
    <2> HIDE DEF R, S
    <2> QED BY <1>2, <1>3, <1>4 DEF Subjects
  <1>6. ImportsOf(a, r) = R /\ ImportsOf(a, im) = S
    BY <1>2 DEF ImportsOf
  <1> QED BY <1>5, <1>6

\* A request issues the JWT, or leaves its claims as they were.
LEMMA RequestFresh ==
  ASSUME TypeOK, TypeOK', JwtFresh, NEW h \in Handler, Request(h)
  PROVE  JwtFresh'
  <1> SUFFICES ASSUME acc' # None, ~late' PROVE Says(jwt', acc', key', skey', imp')
    BY JwtFreshDef
  <1>0. acc # None /\ ~late => Says(jwt, acc, key, skey, imp)
    BY JwtFreshDef
  <1>00. acc' \in AccountEntry /\ key' \in 0 .. MaxKeys /\ DataOK /\ DataOK'
    BY TypeParts DEF DataOK
  <1> DEFINE Fresh == Says(jwt', acc', key', skey', imp')
  <1>1. ASSUME NEW dirty, IssueAndPush(h, dirty, acc', key', skey', imp'),
               ~dirty => acc # None /\ (Says(jwt, acc, key, skey, imp) => Says(jwt, acc', key', skey', imp'))
        PROVE  Fresh
    <2>1. /\ dirty => Says(jwt', acc', key', skey', imp')
          /\ ~dirty => UNCHANGED <<jwt, late>>
      BY <1>00, <1>1, PushesSay DEF DataOK
    <2> QED BY <1>0, <1>1, <2>1
  <1>2. ASSUME NEW e \in AccountEntry, AccountWrite(h, e) PROVE Fresh
    <2>1. IssueAndPush(h, acc # e, acc', key', skey', imp')
      BY <1>2 DEF AccountWrite
    <2>2. acc = e => UNCHANGED <<acc, key, skey, imp>> /\ acc # None
      BY <1>2, EntriesExist DEF AccountWrite
    <2> QED BY <1>1, <2>1, <2>2
  <1>3. CASE AccountRotate(h)
    <2>1. IssueAndPush(h, TRUE, acc', key', skey', imp')
      BY <1>3 DEF AccountRotate
    <2> QED BY <1>1, <2>1
  <1>4. CASE Reissue(h)
    <2>1. Issue(acc', key', skey', imp')
      BY <1>4 DEF Reissue, parts
    <2> QED BY <1>00, <2>1, IssuedSays DEF DataOK
  <1>5. ASSUME NEW n \in SigningName, NEW scoped \in BOOLEAN, NEW template \in {None, "good", "bad"},
               SigningKeyWrite(h, n, scoped, template)
        PROVE  Fresh
    <2> DEFINE old == skey[n]
               dirty == \/ old = None
                        \/ scoped # old.scoped
                        \/ scoped /\ template # old.template
               x == [key |-> IF old = None THEN minted + 1 ELSE old.key, scoped |-> scoped, template |-> template]
    <2>1. /\ skey' = [skey EXCEPT ![n] = x] /\ UNCHANGED <<acc, key, imp>>
          /\ IssueAndPush(h, dirty, acc', key', skey', imp')
      BY <1>5 DEF SigningKeyWrite
    <2>2. ASSUME ~dirty PROVE SignersOf(acc, skey') = SignersOf(acc, skey)
      <3>1. old \in NkeyEntry /\ old # None
        BY <1>00, <2>2 DEF DataOK
      <3>2. x \in NkeyEntry /\ AsSigner(x) = AsSigner(old)
        BY <2>2, <3>1 DEF NkeyEntry, AsSigner
      <3>3. skey \in [SigningName -> NkeyEntry \cup {None}]
        BY <1>00 DEF DataOK
      <3> HIDE DEF x, dirty
      <3>4. SignersOf(acc, [skey EXCEPT ![n] = x]) = SignersOf(acc, skey)
        BY <3>1, <3>2, <3>3, SameSigners
      <3> QED BY <2>1, <3>4
    <2> HIDE DEF dirty, x, old
    <2>3. ~dirty => (Says(jwt, acc, key, skey, imp) => Says(jwt, acc', key', skey', imp'))
      BY <2>1, <2>2 DEF Says
    <2> QED BY <1>1, <2>1, <2>3
  <1>6. ASSUME NEW n \in SigningName, SigningKeyDelete(h, n) PROVE Fresh
    <2>1. Issue(acc', key', skey', imp')
      BY <1>6 DEF SigningKeyDelete
    <2> QED BY <1>00, <2>1, IssuedSays DEF DataOK
  <1>7. ASSUME NEW n \in SigningName, SigningKeyRotate(h, n) PROVE Fresh
    <2>1. IssueAndPush(h, TRUE, acc', key', skey', imp')
      BY <1>7 DEF SigningKeyRotate
    <2> QED BY <1>1, <2>1
  <1>8. ASSUME NEW n \in ImportName, NEW claims, ImportWrite(h, n, claims) PROVE Fresh
    <2>1. IssueAndPush(h, TRUE, acc', key', skey', imp')
      BY <1>8 DEF ImportWrite
    <2> QED BY <1>1, <2>1
  <1>9. ASSUME NEW n \in ImportName, NEW c, ImportTune(h, n, c) PROVE Fresh
    <2> DEFINE dirty == \A d \in imp[n] : d.subject # c.subject
    <2>1. /\ \A d, e \in imp[n] : d = e
          /\ imp' = [imp EXCEPT ![n] = {c}] /\ UNCHANGED <<acc, key, skey>>
          /\ IssueAndPush(h, dirty, acc', key', skey', imp')
      BY <1>9 DEF ImportTune
    <2>2. ASSUME ~dirty PROVE Subjects(ImportsOf(acc, imp')) = Subjects(ImportsOf(acc, imp))
      <3>1. PICK d \in imp[n] : d.subject = c.subject
        BY <2>2
      <3>2. imp[n] = {d}
        BY <2>1, <3>1
      <3>3. imp \in [ImportName -> SUBSET Claim]
        BY <1>00 DEF DataOK
      <3>4. Subjects(ImportsOf(acc, [imp EXCEPT ![n] = {c}])) = Subjects(ImportsOf(acc, imp))
        BY <3>1, <3>2, <3>3, SameImports, Zenon
      <3> QED BY <2>1, <3>4
    <2> HIDE DEF dirty
    <2>3. ~dirty => (Says(jwt, acc, key, skey, imp) => Says(jwt, acc', key', skey', imp'))
      BY <2>1, <2>2 DEF Says
    <2> QED BY <1>1, <2>1, <2>3
  <1>10. ASSUME NEW n \in ImportName, ImportDelete(h, n) PROVE Fresh
    <2>1. IssueAndPush(h, TRUE, acc', key', skey', imp')
      BY <1>10 DEF ImportDelete
    <2> QED BY <1>1, <2>1
  <1>11. CASE UNCHANGED <<parts, jwt, late>>
    BY <1>0, <1>11 DEF parts
  <1> QED
    BY <1>2, <1>3, <1>4, <1>5, <1>6, <1>7, <1>8, <1>9, <1>10, <1>11
    DEF Request, AccountDelete, UserWrite, UserDelete, RevocationWrite, SyncOnly

\* What is stored after the commit is what is issued then, or late.
LEMMA LaterFresh ==
  ASSUME TypeOK, HeldCurrent, JwtFresh, NEW h \in Handler, Later(h)
  PROVE  JwtFresh'
  <1> SUFFICES ASSUME acc' # None, ~late' PROVE Says(jwt', acc', key', skey', imp')
    BY JwtFreshDef
  <1>0. acc # None /\ ~late => Says(jwt, acc, key, skey, imp)
    BY JwtFreshDef
  <1>1. CASE CommitDelete(h)
    BY <1>1 DEF CommitDelete
  <1>2. CASE SaveJwt(h)
    <2>1. jwt' = Claims(acc, key, skey, imp) /\ key # 0 /\ UNCHANGED parts
      BY <1>2 DEF SaveJwt, HeldCurrent, Held
    <2>2. Says(jwt', acc, key, skey, imp)
      BY <2>1, ClaimsSay DEF TypeOK, parts
    <2> QED BY <2>1, <2>2 DEF parts
  <1>3. CASE StoreStatus(h)
    <2>1. ~late /\ acc' = acc
      BY <1>3 DEF StoreStatus, HeldCurrent, Held
    <2> QED BY <1>0, <1>3, <2>1 DEF StoreStatus
  <1>4. CASE UNCHANGED <<parts, jwt, late>>
    BY <1>0, <1>4 DEF parts
  <1> QED
    BY <1>1, <1>2, <1>3, <1>4
    DEF Later, DeleteFails, ReadAccount, ReadParts, IssueFails, ReadJwt, NoPush, Push,
        PushFails, ReadEntry, StatusFails

LEMMA StepFresh == TypeOK /\ HeldCurrent /\ JwtFresh /\ [Next]_vars => JwtFresh'
  <1> SUFFICES ASSUME TypeOK, HeldCurrent, JwtFresh, [Next]_vars PROVE JwtFresh'
    OBVIOUS
  <1>1. TypeOK'
    BY StepType
  <1>2. CASE Crash \/ UNCHANGED vars
    BY <1>2, JwtFreshDef DEF Crash, vars, parts
  <1> QED BY <1>1, <1>2, RequestFresh, LaterFresh DEF Next

-----------------------------------------------------------------------------
(* The invariant, and credentials.                                          *)

Inv == TypeOK /\ HeldCurrent /\ NoLeftovers /\ JwtFresh

\* The inductive invariant holds in every reachable state.
LEMMA Inductive == Spec => []Inv
  <1>1. Init => Inv
    <2>1. Init => HeldCurrent /\ NoLeftovers /\ JwtFresh
      BY DEF Init, HeldCurrent, Held, NoLeftovers, JwtFresh
    <2> QED BY <2>1, InitType DEF Inv
  <1>2. Inv /\ [Next]_vars => Inv'
    BY StepType, StepHeld, StepNoLeftovers, StepFresh DEF Inv
  <1> QED BY <1>1, <1>2, PTL DEF Spec

\* Whatever signs credentials is in the claims its JWT is compared with.
LEMMA InvVerifies == Inv => CredsVerify
  <1> SUFFICES ASSUME Inv, ~late, NEW u \in User, NEW req \in Name, ~CredsRefused(u, req)
               PROVE  Accepts(jwt, Creds(u, req))
    BY DEF CredsVerify
  <1> DEFINE n == KeyName(u, req)
  <1>1. user[u] \in [default : Name] /\ acc \in AccountEntry
    BY DEF CredsRefused, Inv, NoLeftovers, TypeOK
  <1>2. Says(jwt, acc, key, skey, imp)
    BY <1>1, EntriesExist, JwtFreshDef DEF Inv
  <1>3. n \in Name
    BY <1>1 DEF KeyName, AccountEntry
  <1>4. CASE n = None
    BY <1>2, <1>4 DEF Creds, Accepts, Says
  <1>5. CASE n # None
    <2>1. n \in SigningName /\ skey[n] # None
      BY <1>3, <1>5 DEF Name, CredsRefused
    <2>2. skey[n] \in NkeyEntry /\ skey[n] \in StoredKeys(skey)
      BY <2>1 DEF StoredKeys, Inv, TypeOK
    <2>3. AsSigner(skey[n]) \in jwt.signers
      BY <1>2, <2>2 DEF Says, SignersOf
    <2> QED BY <1>2, <1>5, <2>2, <2>3 DEF Creds, Accepts, Says, AsSigner, Limited, NkeyEntry
  <1> QED BY <1>4, <1>5

\* Every variable has its type, and no import entry has two claims for one
\* subject: each handler that stores one validates the list.
THEOREM TypeCorrect == Spec => []TypeOK
  BY Inductive, PTL DEF Inv

\* Deleting an account leaves nothing that comes back with the next account of
\* the name, signing keys written in between aside (deleteAccount), whatever
\* handlers of other requests store while it is deleted and after: only a JWT can
\* be written without the account, by a revocation that was overtaken.
THEOREM AccountsLeaveNothing == Spec => []NoLeftovers
  BY Inductive, PTL DEF Inv

\* No handler that changes a part of the account JWT misses to issue it, flags of
\* imports aside: what is stored is what issuing it now would give, unless a
\* handler that another one had overtaken stored a JWT or an entry since.
THEOREM AccountJwtsFresh == Spec => []JwtFresh
  BY Inductive, PTL DEF Inv

\* Credentials that are given out are accepted under the stored account JWT, for
\* every user and every signing key a request may name, with the same exception.
THEOREM CredentialsVerify == Spec => []CredsVerify
  BY Inductive, InvVerifies, PTL

-----------------------------------------------------------------------------
(* One handler at a time.                                                   *)

NothingLate == ~late /\ \A g \in Handler : ~overtaken[g]

\* With one handler nobody is overtaken.
LEMMA StepNothingLate ==
  ASSUME \A g, h \in Handler : g = h
  PROVE  NothingLate /\ [Next]_vars => NothingLate'
  <1> SUFFICES ASSUME NothingLate, [Next]_vars PROVE NothingLate'
    OBVIOUS
  <1>0. ~late /\ \A g \in Handler : ~overtaken[g]
    BY DEF NothingLate
  <1>1. ASSUME NEW h \in Handler, Overtake(h) PROVE \A g \in Handler : ~overtaken'[g]
    <2>1. \A g \in Handler : g = h
      OBVIOUS
    <2> QED BY <1>1, <2>1 DEF Overtake
  <1>2. ASSUME NEW h \in Handler, LetGo(h) PROVE \A g \in Handler : ~overtaken'[g]
    <2>1. \A g \in Handler : g = h
      OBVIOUS
    <2>2. CASE h \in DOMAIN overtaken
      BY <1>2, <2>1, <2>2 DEF LetGo
    <2>3. CASE h \notin DOMAIN overtaken
      BY <1>0, <1>2, <2>3 DEF LetGo
    <2> QED BY <2>2, <2>3
  <1>3. ASSUME NEW h \in Handler, NEW dirty, NEW a, NEW k, NEW sk, NEW im, IssueAndPush(h, dirty, a, k, sk, im)
        PROVE  NothingLate'
    <2>1. Overtake(h) /\ ~late'
      <3>1. CASE dirty
        BY <1>0, <1>3, <3>1, Pushes DEF Issue
      <3>2. CASE ~dirty
        BY <1>0, <1>3, <3>2, Pushes
      <3> QED BY <3>1, <3>2
    <2> QED BY <1>1, <2>1 DEF NothingLate
  <1>4. ASSUME NEW h \in Handler, Request(h) PROVE NothingLate'
    <2>1. ASSUME NEW n \in SigningName, NEW scoped \in BOOLEAN, NEW template \in {None, "good", "bad"},
                 SigningKeyWrite(h, n, scoped, template)
          PROVE  NothingLate'
      <3> DEFINE dirty == \/ skey[n] = None
                          \/ scoped # skey[n].scoped
                          \/ scoped /\ template # skey[n].template
      <3>1. IssueAndPush(h, dirty, acc, key, skey', imp)
        BY <2>1 DEF SigningKeyWrite
      <3> HIDE DEF dirty
      <3> QED BY <1>3, <3>1
    <2>2. ASSUME NEW n \in ImportName, NEW c, ImportTune(h, n, c) PROVE NothingLate'
      <3> DEFINE dirty == \A d \in imp[n] : d.subject # c.subject
      <3>1. IssueAndPush(h, dirty, acc, key, skey, imp')
        BY <2>2 DEF ImportTune
      <3> HIDE DEF dirty
      <3> QED BY <1>3, <3>1
    <2>3. ASSUME \/ \E e \in AccountEntry : AccountWrite(h, e)
                 \/ AccountRotate(h)
                 \/ \E n \in SigningName : SigningKeyRotate(h, n)
                 \/ \E n \in ImportName, claims \in SUBSET [subject : Subject, share : BOOLEAN] :
                      ImportWrite(h, n, claims)
                 \/ \E n \in ImportName : ImportDelete(h, n)
          PROVE  NothingLate'
      BY <1>3, <2>3 DEF AccountWrite, AccountRotate, SigningKeyRotate, ImportWrite, ImportDelete
    <2>4. ASSUME Reissue(h) \/ \E n \in SigningName : SigningKeyDelete(h, n) PROVE NothingLate'
      BY <1>0, <1>1, <2>4 DEF Reissue, SigningKeyDelete, Issue, NothingLate
    <2>5. CASE UNCHANGED <<late, overtaken>>
      BY <1>0, <2>5 DEF NothingLate
    <2> QED
      BY <1>4, <2>1, <2>2, <2>3, <2>4, <2>5
      DEF Request, AccountDelete, UserWrite, UserDelete, RevocationWrite, SyncOnly, local
  <1>5. ASSUME NEW h \in Handler, Later(h) PROVE NothingLate'
    <2>1. CASE CommitDelete(h) \/ SaveJwt(h) \/ StoreStatus(h)
      BY <1>0, <1>1, <2>1 DEF CommitDelete, SaveJwt, StoreStatus, NothingLate
    <2>2. CASE UNCHANGED late /\ LetGo(h)
      BY <1>0, <1>2, <2>2 DEF NothingLate
    <2>3. CASE UNCHANGED <<late, overtaken>>
      BY <1>0, <2>3 DEF NothingLate
    <2> QED
      BY <1>5, <2>1, <2>2, <2>3
      DEF Later, DeleteFails, ReadAccount, ReadParts, IssueFails, ReadJwt, NoPush, Push,
          PushFails, ReadEntry, StatusFails
  <1>6. CASE Crash
    BY <1>0, <1>6 DEF Crash, NothingLate
  <1>7. CASE UNCHANGED vars
    BY <1>0, <1>7 DEF vars, local, NothingLate
  <1> QED BY <1>4, <1>5, <1>6, <1>7 DEF Next

\* As long as one request is served at a time, nothing is excepted: the stored
\* JWT always says what the account's claims are, whatever fails and whenever the
\* process dies. So what AccountJwtsFresh excepts takes two handlers.
THEOREM AloneUpToDate ==
  ASSUME \A g, h \in Handler : g = h
  PROVE  Spec => []JwtUpToDate
  <1>1. Init => NothingLate
    BY DEF Init, NothingLate
  <1>2. NothingLate /\ [Next]_vars => NothingLate'
    BY StepNothingLate
  <1>3. Inv /\ NothingLate => JwtUpToDate
    BY DEF Inv, NothingLate, JwtFresh, JwtUpToDate
  <1> QED BY <1>1, <1>2, <1>3, Inductive, PTL DEF Spec

-----------------------------------------------------------------------------
(* What NATS has.                                                           *)

\* No two signing keys are the same, and the next one will be new.
Distinct ==
  /\ \A n \in SigningName : skey[n] # None => skey[n].key <= minted
  /\ \A m, n \in SigningName :
       skey[m] # None /\ skey[n] # None /\ skey[m].key = skey[n].key => m = n

\* Keys are minted once, and a signing key keeps its name.
LEMMA StepDistinct == TypeOK /\ Distinct /\ [Next]_vars => Distinct'
  <1> SUFFICES ASSUME TypeOK, Distinct, [Next]_vars PROVE Distinct'
    OBVIOUS
  <1>0. minted \in Nat /\ \A n \in SigningName : skey[n] # None => skey[n].key \in Nat
    BY ClaimsAssumption DEF TypeOK, NkeyEntry, Key
  <1>1. ASSUME UNCHANGED skey, minted' = minted \/ minted' = minted + 1 PROVE Distinct'
    BY <1>0, <1>1 DEF Distinct
  <1>2. ASSUME NEW h \in Handler, CommitDelete(h) PROVE Distinct'
    BY <1>2 DEF CommitDelete, Distinct
  <1>3. ASSUME NEW n \in SigningName, NEW x, x.key = minted + 1, minted' = minted + 1,
               skey' = [skey EXCEPT ![n] = x]
        PROVE  Distinct'
    <2>1. skey'[n] = x /\ \A m \in SigningName \ {n} : skey'[m] = skey[m]
      BY <1>3 DEF TypeOK
    <2> QED BY <1>0, <1>3, <2>1 DEF Distinct
  <1>4. ASSUME NEW n \in SigningName, NEW x, skey[n] # None, x.key = skey[n].key, minted' = minted,
               skey' = [skey EXCEPT ![n] = x]
        PROVE  Distinct'
    <2>1. skey'[n] = x /\ \A m \in SigningName \ {n} : skey'[m] = skey[m]
      BY <1>4 DEF TypeOK
    <2> QED BY <1>4, <2>1 DEF Distinct
  <1>5. ASSUME NEW h \in Handler,
               NEW n \in SigningName, NEW scoped \in BOOLEAN, NEW template \in {None, "good", "bad"},
               SigningKeyWrite(h, n, scoped, template)
        PROVE  Distinct'
    <2> DEFINE x == [key      |-> IF skey[n] = None THEN minted + 1 ELSE skey[n].key,
                     scoped   |-> scoped,
                     template |-> template]
    <2>1. skey' = [skey EXCEPT ![n] = x]
      BY <1>5 DEF SigningKeyWrite
    <2>2. CASE skey[n] = None
      <3>1. x.key = minted + 1 /\ minted' = minted + 1
        BY <1>5, <2>2 DEF SigningKeyWrite, Mint
      <3> HIDE DEF x
      <3> QED BY <1>3, <2>1, <3>1
    <2>3. CASE skey[n] # None
      <3>1. x.key = skey[n].key /\ minted' = minted
        BY <1>5, <2>3 DEF SigningKeyWrite
      <3> HIDE DEF x
      <3> QED BY <1>4, <2>1, <2>3, <3>1
    <2> QED BY <2>2, <2>3
  <1>6. ASSUME NEW h \in Handler, NEW n \in SigningName, SigningKeyDelete(h, n) PROVE Distinct'
    <2>1. minted' = minted /\ skey'[n] = None /\ \A m \in SigningName \ {n} : skey'[m] = skey[m]
      BY <1>6 DEF SigningKeyDelete, TypeOK
    <2> QED BY <2>1 DEF Distinct
  <1>7. ASSUME NEW h \in Handler, NEW n \in SigningName, SigningKeyRotate(h, n) PROVE Distinct'
    <2> DEFINE x == [key |-> minted + 1, scoped |-> FALSE, template |-> None]
    <2>1. skey' = [skey EXCEPT ![n] = x] /\ x.key = minted + 1 /\ minted' = minted + 1
      BY <1>7 DEF SigningKeyRotate, Mint
    <2> HIDE DEF x
    <2> QED BY <1>3, <2>1
  <1>8. ASSUME NEW h \in Handler, (\E e \in AccountEntry : AccountWrite(h, e)) \/ AccountRotate(h)
        PROVE  Distinct'
    BY <1>1, <1>8 DEF AccountWrite, AccountRotate, Mint
  <1>9. CASE UNCHANGED <<skey, minted>>
    BY <1>1, <1>9
  <1>10. ASSUME NEW h \in Handler, Request(h) PROVE Distinct'
    BY <1>5, <1>6, <1>7, <1>8, <1>9, <1>10
    DEF Request, AccountDelete, Reissue, ImportWrite, ImportTune, ImportDelete, UserWrite, UserDelete,
        RevocationWrite, SyncOnly, parts
  <1>11. ASSUME NEW h \in Handler, Later(h) PROVE Distinct'
    BY <1>2, <1>9, <1>11
    DEF Later, DeleteFails, ReadAccount, ReadParts, SaveJwt, IssueFails, ReadJwt, NoPush, Push,
        PushFails, ReadEntry, StoreStatus, StatusFails, parts
  <1> QED BY <1>9, <1>10, <1>11 DEF Next, Crash, vars, parts

\* NATS has the JWT token, with signing keys listed beyond those of the token
\* only if none of keys has them.
Has(has, token, keys) ==
  /\ has # None /\ has.sub = token.sub
  /\ Imported(has) = Imported(token)
  /\ token.signers \subseteq has.signers
  /\ \A x \in has.signers \ token.signers : \A y \in keys : x.key # y.key

\* NatsCurrent in terms of Has.
LEMMA NatsCurrentDef ==
  /\ NatsCurrent <=> (acc # None /\ Settled /\ ~missed /\ ~late => Has(nats, jwt, StoredKeys(skey)))
  /\ NatsCurrent' <=>
       (acc' # None /\ Settled' /\ ~missed' /\ ~late' => Has(nats', jwt', StoredKeys(skey')))
  BY DEF NatsCurrent, Has

\* A deleted signing key leaves the JWT, and no other key that is left is the
\* same, so NATS lists it beyond the JWT without harm to the others.
LEMMA DeletedSigner ==
  ASSUME TypeOK, Distinct, NEW n \in SigningName, skey[n] # None,
         NEW a, NEW sk, sk = [skey EXCEPT ![n] = None]
  PROVE  /\ SignersOf(a, sk) \subseteq SignersOf(a, skey)
         /\ \A x \in SignersOf(a, skey) \ SignersOf(a, sk) : \A y \in StoredKeys(sk) : x.key # y.key
  <1>1. sk[n] = None /\ \A m \in SigningName \ {n} : sk[m] = skey[m]
    BY DEF TypeOK
  <1>2. StoredKeys(sk) \subseteq StoredKeys(skey)
    BY <1>1 DEF StoredKeys
  <1>3. \A x \in StoredKeys(skey) : x = skey[n] \/ x \in StoredKeys(sk)
    BY <1>1 DEF StoredKeys
  <1>4. \A y \in StoredKeys(sk) : y.key # skey[n].key
    BY <1>1 DEF StoredKeys, Distinct
  <1>5. AsSigner(skey[n]).key = skey[n].key
    BY DEF AsSigner
  <1> QED BY <1>2, <1>3, <1>4, <1>5 DEF SignersOf

\* Only keys of entries that are there matter, and a write that is not issued
\* leaves them.
LEMMA SameKeys ==
  ASSUME NEW sk, sk \in [SigningName -> NkeyEntry \cup {None}],
         NEW n \in SigningName, sk[n] # None, NEW x, x.key = sk[n].key
  PROVE  \A y \in StoredKeys([sk EXCEPT ![n] = x]) : \E z \in StoredKeys(sk) : z.key = y.key
  <1> DEFINE r == [sk EXCEPT ![n] = x]
  <1>1. r[n] = x /\ \A m \in SigningName \ {n} : r[m] = sk[m]
    OBVIOUS
  <1> HIDE DEF r
  <1>2. \A y \in StoredKeys(r) : \E z \in StoredKeys(sk) : z.key = y.key
    BY <1>1 DEF StoredKeys
  <1> QED BY <1>2 DEF r

\* A handler that was not to push, and has not to do so after its step, does not
\* settle anything.
LEMMA SettledKept ==
  ASSUME NEW h \in Handler, Apart(h), pc[h] \notin {"sync", "push", "commit"}
  PROVE  Settled' => Settled
  BY DEF Settled, Apart

\* Nobody is settled who has to push.
LEMMA NotSettled ==
  ASSUME NEW h \in Handler, pc'[h] \in {"sync", "push", "commit"}
  PROVE  ~Settled'
  BY DEF Settled

\* A request leaves a push to be made, or changes nothing that NATS would see but
\* by taking a signing key away (SigningKeyDelete).
LEMMA RequestCurrent ==
  ASSUME TypeOK, JwtFresh, Distinct, NatsCurrent, NEW h \in Handler, Request(h)
  PROVE  NatsCurrent'
  <1> SUFFICES ASSUME acc' # None, Settled', ~missed', ~late'
               PROVE  Has(nats', jwt', StoredKeys(skey'))
    BY NatsCurrentDef
  <1>0. /\ acc # None /\ Settled /\ ~missed /\ ~late => Has(nats, jwt, StoredKeys(skey))
        /\ acc # None /\ ~late => Says(jwt, acc, key, skey, imp)
    BY NatsCurrentDef, JwtFreshDef
  <1>00. DataOK /\ LocalOK
    BY TypeParts
  <1> DEFINE Current == Has(nats', jwt', StoredKeys(skey'))
  <1>1. ASSUME NEW l, Goto(h, l) PROVE Apart(h) /\ pc'[h] = l /\ l \notin {"sync", "push", "commit"}
    BY <1>00, <1>1, GotoApart, NotSettled
  <1>2. Idle(h) /\ Apart(h) => Settled
    BY SettledKept DEF Idle
  <1>3. ASSUME NEW dirty, NEW a, NEW k, NEW sk, NEW im, IssueAndPush(h, dirty, a, k, sk, im), Idle(h)
        PROVE  ~dirty /\ Settled /\ UNCHANGED <<jwt, late, nats, missed>>
    <2>1. CASE dirty
      BY <1>1, <1>3, <2>1, Pushes
    <2>2. CASE ~dirty
      BY <1>1, <1>2, <1>3, <2>2, Pushes
    <2> QED BY <2>1, <2>2
  <1>4. ASSUME NEW e \in AccountEntry, AccountWrite(h, e) PROVE Current
    <2>1. acc = e /\ Settled /\ UNCHANGED <<jwt, late, nats, missed>>
      BY <1>3, <1>4 DEF AccountWrite
    <2> QED BY <1>0, <1>4, <2>1, EntriesExist DEF AccountWrite
  <1>5. ASSUME NEW n \in SigningName, NEW scoped \in BOOLEAN, NEW template \in {None, "good", "bad"},
               SigningKeyWrite(h, n, scoped, template)
        PROVE  Current
    <2> DEFINE old == skey[n]
               dirty == \/ old = None
                        \/ scoped # old.scoped
                        \/ scoped /\ template # old.template
               x == [key |-> IF old = None THEN minted + 1 ELSE old.key, scoped |-> scoped, template |-> template]
    <2>1. /\ skey' = [skey EXCEPT ![n] = x] /\ UNCHANGED <<acc, key, imp>> /\ Idle(h)
          /\ IssueAndPush(h, dirty, acc, key, skey', imp)
      BY <1>5 DEF SigningKeyWrite
    <2>2. ~dirty /\ Settled /\ UNCHANGED <<jwt, late, nats, missed>>
      <3> HIDE DEF dirty, x
      <3> QED BY <1>3, <2>1
    <2>3. old # None /\ x.key = old.key
      BY <2>2
    <2> HIDE DEF dirty, x
    <2>4. \A y \in StoredKeys(skey') : \E z \in StoredKeys(skey) : z.key = y.key
      <3>1. skey \in [SigningName -> NkeyEntry \cup {None}]
        BY <1>00 DEF DataOK
      <3> QED BY <2>1, <2>3, <3>1, SameKeys
    <2>5. Has(nats, jwt, StoredKeys(skey))
      BY <1>0, <2>1, <2>2
    <2> QED BY <2>2, <2>4, <2>5 DEF Has
  <1>6. ASSUME NEW n \in SigningName, SigningKeyDelete(h, n) PROVE Current
    <2>1. /\ UNCHANGED <<acc, key, imp, nats>> /\ ~missed /\ ~late /\ skey[n] # None
          /\ skey' = [skey EXCEPT ![n] = None]
          /\ Issue(acc, key, skey', imp)
      BY <1>6 DEF SigningKeyDelete
    <2>2. Settled
      <3>1. Apart(h) /\ Idle(h)
        BY <1>6 DEF SigningKeyDelete, Apart
      <3> QED BY <1>2, <3>1
    <2>3. skey' \in [SigningName -> NkeyEntry \cup {None}]
      BY <1>00, <2>1 DEF DataOK
    <2>4. Says(jwt, acc, key, skey, imp) /\ Says(jwt', acc, key, skey', imp)
      BY <1>0, <1>00, <2>1, <2>3, IssuedSays DEF DataOK
    <2>5. Has(nats, jwt, StoredKeys(skey))
      BY <1>0, <2>1, <2>2
    <2>6. /\ jwt'.signers \subseteq jwt.signers
          /\ \A x \in jwt.signers \ jwt'.signers : \A y \in StoredKeys(skey') : x.key # y.key
      BY <2>1, <2>4, DeletedSigner DEF Says
    <2>7. StoredKeys(skey') \subseteq StoredKeys(skey)
      BY <1>00, <2>1 DEF StoredKeys, DataOK
    <2> QED BY <2>1, <2>4, <2>5, <2>6, <2>7 DEF Has, Says
  <1>7. ASSUME NEW n \in ImportName, NEW c, ImportTune(h, n, c) PROVE Current
    <2> DEFINE dirty == \A d \in imp[n] : d.subject # c.subject
    <2>1. IssueAndPush(h, dirty, acc, key, skey, imp') /\ Idle(h) /\ UNCHANGED <<acc, key, skey>>
      BY <1>7 DEF ImportTune
    <2> HIDE DEF dirty
    <2>2. Settled /\ UNCHANGED <<jwt, late, nats, missed>>
      BY <1>3, <2>1
    <2> QED BY <1>0, <2>1, <2>2
  <1>8. ASSUME NEW u \in User, UserDelete(h, u) PROVE Current
    <2>1. Settled
      BY <1>1, <1>2, <1>8 DEF UserDelete
    <2> QED BY <1>0, <1>8, <2>1 DEF UserDelete, parts
  <1>9. CASE RevocationWrite(h)
    <2>1. Settled
      BY <1>1, <1>2, <1>9 DEF RevocationWrite
    <2> QED BY <1>0, <1>9, <2>1 DEF RevocationWrite, parts
  <1>10. ASSUME NEW u \in User, NEW default \in Name, UserWrite(h, u, default) PROVE Current
    <2>1. Settled
      BY <1>10 DEF UserWrite, local, Settled
    <2> QED BY <1>0, <1>10, <2>1 DEF UserWrite, parts
  <1>11. CASE AccountDelete(h) \/ SyncOnly(h)
    BY <1>1, <1>11 DEF AccountDelete, SyncOnly
  <1>12. CASE Reissue(h)
    BY <1>1, <1>12 DEF Reissue
  <1>13. ASSUME \/ AccountRotate(h)
                \/ \E n \in SigningName : SigningKeyRotate(h, n)
                \/ \E n \in ImportName, claims \in SUBSET [subject : Subject, share : BOOLEAN] :
                     ImportWrite(h, n, claims)
                \/ \E n \in ImportName : ImportDelete(h, n)
         PROVE  Current
    BY <1>3, <1>13 DEF AccountRotate, SigningKeyRotate, ImportWrite, ImportDelete
  <1> QED
    BY <1>4, <1>5, <1>6, <1>7, <1>8, <1>9, <1>10, <1>11, <1>12, <1>13 DEF Request

\* A push that is taken and was not overtaken leaves NATS with the stored JWT, and
\* one that is not is missed.
LEMMA LaterCurrent ==
  ASSUME TypeOK, HeldCurrent, NatsCurrent, NEW h \in Handler, Later(h)
  PROVE  NatsCurrent'
  <1> SUFFICES ASSUME acc' # None, Settled', ~missed', ~late'
               PROVE  Has(nats', jwt', StoredKeys(skey'))
    BY NatsCurrentDef
  <1>0. acc # None /\ Settled /\ ~missed /\ ~late => Has(nats, jwt, StoredKeys(skey))
    BY NatsCurrentDef
  <1>00. LocalOK /\ Held(h)
    BY TypeParts DEF HeldCurrent
  <1>1. ASSUME NEW l, NEW t, NEW e, At(h, l, t, e)
        PROVE  Apart(h) /\ l \notin {"sync", "push", "commit"}
    BY <1>00, <1>1, AtApart, NotSettled
  <1>2. CASE CommitDelete(h)
    BY <1>2 DEF CommitDelete
  <1>3. CASE DeleteFails(h) \/ NoPush(h) \/ PushFails(h)
    BY <1>3 DEF DeleteFails, NoPush, PushFails
  <1>4. CASE SaveJwt(h) \/ ReadJwt(h)
    BY <1>1, <1>4 DEF SaveJwt, ReadJwt, Goto
  <1>5. CASE Push(h)
    <2>1. ~overtaken[h] /\ pc[h] = "push" /\ nats' = tok[h] /\ UNCHANGED <<jwt, skey>>
      BY <1>5 DEF Push, parts
    <2>2. tok[h] = jwt /\ tok[h] # None
      BY <1>00, <2>1 DEF Held, LocalOK
    <2> QED BY <2>1, <2>2 DEF Has
  <1>6. ASSUME pc[h] \notin {"sync", "push", "commit"}, Apart(h), ~late, UNCHANGED <<acc, skey, jwt, nats, missed>>
        PROVE  Has(nats', jwt', StoredKeys(skey'))
    <2>1. Settled
      BY <1>6, SettledKept
    <2> QED BY <1>0, <1>6, <2>1
  <1>7. CASE StoreStatus(h)
    <2>1. acc' = acc /\ ~late /\ pc[h] = "store" /\ UNCHANGED <<skey, jwt, nats, missed>> /\ Goto(h, "idle")
      BY <1>00, <1>7 DEF StoreStatus, Held
    <2>2. Apart(h)
      BY <1>1, <2>1 DEF Goto
    <2> QED BY <1>6, <2>1, <2>2
  <1>8. CASE IssueFails(h) \/ StatusFails(h)
    BY <1>1, <1>6, <1>8 DEF IssueFails, StatusFails, Goto, parts
  <1>9. CASE ReadAccount(h)
    <2>1. \E l, t, e : At(h, l, t, e)
      BY <1>9, Zenon DEF ReadAccount, Goto
    <2> QED BY <1>1, <1>6, <1>9, <2>1 DEF ReadAccount, parts
  <1>10. CASE ReadParts(h) \/ ReadEntry(h)
    BY <1>1, <1>6, <1>10 DEF ReadParts, ReadEntry, parts
  <1> QED BY <1>2, <1>3, <1>4, <1>5, <1>7, <1>8, <1>9, <1>10 DEF Later

LEMMA StepCurrent ==
  TypeOK /\ HeldCurrent /\ JwtFresh /\ Distinct /\ NatsCurrent /\ [Next]_vars => NatsCurrent'
  <1> SUFFICES ASSUME TypeOK, HeldCurrent, JwtFresh, Distinct, NatsCurrent, [Next]_vars PROVE NatsCurrent'
    OBVIOUS
  <1>1. CASE Crash
    BY <1>1, NatsCurrentDef DEF Crash
  <1>2. CASE UNCHANGED vars
    BY <1>2 DEF vars, parts, local, NatsCurrent, Settled
  <1> QED BY <1>1, <1>2, RequestCurrent, LaterCurrent DEF Next

\* Whatever handlers commit before each other's pushes, NATS has the stored JWT
\* once all have pushed: syncAccountUpdate reads it after the commit, and the only
\* handler that issues without a push (pathAccountSigningNkeyDelete) takes a key
\* away that no other signing key is the same as. Excepted are pushes that fail
\* or are overtaken, until the next one is taken.
THEOREM NatsGetsTheJwt == Spec => []NatsCurrent
  <1>1. Init => Distinct /\ NatsCurrent
    BY DEF Init, Distinct, NatsCurrent
  <1>2. Inv /\ Distinct /\ NatsCurrent /\ [Next]_vars => (Distinct /\ NatsCurrent)'
    BY StepDistinct, StepCurrent DEF Inv
  <1> QED BY <1>1, <1>2, Inductive, PTL DEF Spec
=============================================================================
