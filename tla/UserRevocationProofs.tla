------------------------ MODULE UserRevocationProofs -------------------------
(***************************************************************************)
(* Proofs about UserRevocation, for every set of ttls, every limit and every *)
(* bound.  The types hold for every set of handlers; the other properties   *)
(* are proved for requests served one at a time (Handler = {h}) beside the  *)
(* periodic function, which may run between any two of their steps.         *)
(*                                                                          *)
(* A list that was read is a list of what is still stored (SnapIn), because *)
(* the periodic function only removes entries.  RevokedAtNats needs that a  *)
(* confirmed revocation is stored and in every copy of the list that may    *)
(* still reach NATS (ConfirmedIn, AboutToConfirm).  RetiredRefused needs    *)
(* the arithmetic of ttls (Covered): no credentials are older than the      *)
(* revocation of their user, and none outlives it.                          *)
(***************************************************************************)
EXTENDS UserRevocation, TLAPS

\* What a request is about, as the types need it: credentials are signed for a
\* key and within the system's limit; a revocation has a time.
ReqIn(h) ==
  /\ pc[h] = "idle" => req[h] = NoReq
  /\ pc[h] = "sign" => req[h].key \in Key /\ req[h].n <= MaxLeaseTTL
  /\ pc[h] \in {"issue", "write", "sync", "push"} => req[h].n \in Time

Requests == \A h \in Handler : ReqIn(h)

-----------------------------------------------------------------------------
(* The inductive invariant for one handler h.                               *)

\* Nothing was issued or revoked in the future, and keys that are taken from
\* users are not given to others.
Past ==
  /\ \A c \in creds : c.iat <= now
  /\ \A k \in Key : revocation[k].at <= now
  /\ user.key <= minted /\ user.key \notin retired
  /\ \A k \in retired : k <= minted

\* The handler signs for the key the user has, and what it has read of the
\* stored revocations covers those that are still stored.
SnapIn(h) ==
  /\ pc[h] = "sign" => req[h].key = user.key
  /\ pc[h] = "write" => \A k \in Key : snap[h][k] >= revocation[k].at

\* While the entry that the request wrote is stored, it has the request's time,
\* and the JWT has it as soon as the handler is past issuing.
AboutToConfirm(h) ==
  pc[h] \in {"issue", "write", "sync", "push"} /\ req[h].key # 0
  /\ revocation[req[h].key] # NoEntry =>
    /\ revocation[req[h].key].at >= req[h].n
    /\ pc[h] \in {"sync", "push"} => jwt[req[h].key] >= req[h].n
    /\ pc[h] = "push" => snap[h][req[h].key] >= req[h].n

\* A confirmed revocation is stored, listed, known to NATS, and in the list that
\* may be pushed next.
ConfirmedIn(h) ==
  confirmed # NoReq =>
    /\ confirmed.key \in Key
    /\ revocation[confirmed.key].at >= confirmed.n
    /\ jwt[confirmed.key] >= confirmed.n
    /\ pushed[confirmed.key] >= confirmed.n
    /\ pc[h] = "push" => snap[h][confirmed.key] >= confirmed.n

\* The revocation of a deleted or rotated user is no older than its credentials
\* and lasts at least as long as those that expire.
Covered ==
  \A c \in creds : c.sub \in retired /\ c.exp >= now =>
    /\ revocation[c.sub].at >= c.iat
    /\ revocation[c.sub].at + revocation[c.sub].ttl >= c.exp

Inv(h) ==
  /\ Past /\ SnapIn(h) /\ RevocationsListed
  /\ AboutToConfirm(h) /\ ConfirmedIn(h) /\ Covered

-----------------------------------------------------------------------------
(* Types, a group of variables at a time.                                   *)

UserType ==
  /\ now \in Time \ {0}
  /\ user \in [exists : BOOLEAN, key : 0 .. MaxKeys, max : LimitTtl, revoke : BOOLEAN]
  /\ user.exists <=> user.key # 0
  /\ minted \in 0 .. MaxKeys

CredsType ==
  \A c \in creds : /\ c.sub \in Key /\ c.iat \in Time
                   /\ c.exp = 0 \/ c.exp \in c.iat + 1 .. c.iat + MaxLeaseTTL

ListType ==
  /\ revocation \in [Key -> [at : Time, ttl : Nat]]
  /\ jwt \in List /\ pushed \in List

LocalType ==
  /\ pc \in [Handler -> {"idle", "sign", "issue", "write", "sync", "push"}]
  /\ req \in [Handler -> [key : 0 .. MaxKeys, n : Nat]]
  /\ snap \in [Handler -> List]
  /\ Requests

HistoryType ==
  /\ owed \subseteq Key /\ retired \subseteq Key
  /\ confirmed \in [key : 0 .. MaxKeys, n : Time]

Types == UserType /\ CredsType /\ ListType /\ LocalType /\ HistoryType

\* The groups together are the types.
LEMMA TypesAreTypes == Types <=> TypeOK /\ Requests
  BY DEF Types, UserType, CredsType, ListType, LocalType, HistoryType, TypeOK

\* A list of stored times is a list of times.
LEMMA ListedType ==
  ASSUME NEW rev \in [Key -> [at : Time, ttl : Nat]]
  PROVE  Listed(rev) \in List /\ \A k \in Key : Listed(rev)[k] = rev[k].at
  BY DEF Listed, List

\* A moment and a ttl make an entry.
LEMMA EntryType ==
  ASSUME ListType, UserType
  PROVE  /\ NoEntry \in [at : Time, ttl : Nat]
         /\ \A n \in Nat : [at |-> now, ttl |-> n] \in [at : Time, ttl : Nat]
         /\ user.exists => user.key \in Key
                           /\ WithUserRevoked \in [Key -> [at : Time, ttl : Nat]]
  <1>1. NoEntry \in [at : Time, ttl : Nat]
    BY RevocationAssumption DEF NoEntry, Time
  <1>2. \A n \in Nat : [at |-> now, ttl |-> n] \in [at : Time, ttl : Nat]
    BY DEF UserType
  <1>3. RevokeTtl \in Nat
    BY RevocationAssumption DEF RevokeTtl, UserType
  <1>4. user.exists => user.key \in Key
    BY RevocationAssumption DEF UserType, Key
  <1> QED BY <1>1, <1>2, <1>3, <1>4 DEF WithUserRevoked, ListType

\* Nothing is stored or pushed at first.
LEMMA InitTypes == Init => Types
  <1> SUFFICES ASSUME Init PROVE Types
    OBVIOUS
  <1>1. 0 \in Time /\ 1 \in Time \ {0} /\ 0 \in 0 .. MaxKeys /\ 0 \in LimitTtl
    BY RevocationAssumption DEF Time
  <1>2. UserType /\ CredsType
    BY <1>1 DEF Init, UserType, CredsType, Nobody
  <1>3. NoEntry \in [at : Time, ttl : Nat] /\ NoList \in List
    BY <1>1 DEF NoEntry, NoList, List
  <1>4. ListType
    BY <1>3 DEF Init, ListType
  <1>5. NoReq \in [key : 0 .. MaxKeys, n : Nat] /\ NoReq \in [key : 0 .. MaxKeys, n : Time]
    BY <1>1 DEF NoReq
  <1>6. LocalType
    BY <1>3, <1>5 DEF Init, LocalType, Requests, ReqIn
  <1> QED BY <1>2, <1>4, <1>5, <1>6 DEF Init, HistoryType, Types

\* What handlers write of users and credentials is of its type.
LEMMA StepUserType == Types /\ [Next]_vars => UserType' /\ CredsType'
  <1> SUFFICES ASSUME Types, [Next]_vars PROVE UserType' /\ CredsType'
    OBVIOUS
  <1> USE RevocationAssumption DEF Key, Time
  <1>1. ASSUME NEW h \in Handler, NEW max \in LimitTtl, NEW revoke \in BOOLEAN, UserWrite(h, max, revoke)
        PROVE  UserType' /\ CredsType'
    BY <1>1 DEF UserWrite, Types, UserType, CredsType
  <1>2. ASSUME NEW h \in Handler, CredsSign(h) PROVE UserType' /\ CredsType'
    <2> DEFINE exp == IF req[h].n > 0 THEN now + req[h].n ELSE 0
    <2>1. req[h].key \in Key /\ req[h].n \in 0 .. MaxLeaseTTL
      BY <1>2 DEF CredsSign, Types, LocalType, Requests, ReqIn
    <2>2. exp = 0 \/ exp \in now + 1 .. now + MaxLeaseTTL
      BY <2>1 DEF Types, UserType
    <2>3. creds' = creds \cup {[sub |-> req[h].key, iat |-> now, exp |-> exp]}
      BY <1>2 DEF CredsSign
    <2> HIDE DEF exp
    <2>4. CredsType'
      BY <2>1, <2>2, <2>3 DEF Types, UserType, CredsType
    <2> QED BY <1>2, <2>4 DEF CredsSign, Types, UserType
  <1>3. ASSUME NEW h \in Handler, UserDelete(h) PROVE UserType' /\ CredsType'
    BY <1>3 DEF UserDelete, Nobody, Types, UserType, CredsType
  <1>4. ASSUME NEW h \in Handler, NEW revoke \in BOOLEAN, UserRotate(h, revoke)
        PROVE  UserType' /\ CredsType'
    BY <1>4 DEF UserRotate, Types, UserType, CredsType
  <1>5. CASE Tick
    BY <1>5 DEF Tick, userData, Types, UserType, CredsType
  <1>6. CASE UNCHANGED <<now, userData>>
    BY <1>6 DEF userData, Types, UserType, CredsType
  <1> QED BY <1>1, <1>2, <1>3, <1>4, <1>5, <1>6
          DEF Next, Handle, CredsRead, RevocationWrite, RevocationDelete, LeaseRevoke, OtherIssue,
              IssueRead, IssueWrite, SyncRead, NoServer, Push, GiveUp, Periodic, PeriodicFails, vars

\* Entries, and the lists made from them, are of their types.
LEMMA StepListType == Types /\ [Next]_vars => ListType'
  <1> SUFFICES ASSUME Types, [Next]_vars PROVE ListType'
    OBVIOUS
  <1>0. UserType /\ ListType /\ LocalType
    BY DEF Types
  <1>1. ASSUME NEW h \in Handler, UserDelete(h) PROVE ListType'
    BY <1>0, <1>1, EntryType DEF UserDelete, ListType
  <1>2. ASSUME NEW h \in Handler, NEW revoke \in BOOLEAN, UserRotate(h, revoke) PROVE ListType'
    BY <1>0, <1>2, EntryType, ListedType DEF UserRotate, ListType
  <1>3. ASSUME NEW h \in Handler, NEW k \in Key, NEW given \in BOOLEAN, NEW ttl \in RevocationTtl,
               RevocationWrite(h, k, given, ttl)
        PROVE  ListType'
    <2>1. WriteEntry(k, given, ttl) \in [at : Time, ttl : Nat]
      BY <1>0, EntryType, RevocationAssumption DEF WriteEntry, ListType
    <2> QED BY <1>0, <1>3, <2>1 DEF RevocationWrite, ListType
  <1>4. ASSUME NEW h \in Handler, NEW k \in Key, RevocationDelete(h, k) PROVE ListType'
    <2>1. revocation' \in [Key -> [at : Time, ttl : Nat]]
      BY <1>0, <1>4, EntryType DEF RevocationDelete, ListType
    <2> QED BY <1>0, <1>4, <2>1, ListedType DEF RevocationDelete, ListType
  <1>5. ASSUME NEW h \in Handler, NEW c \in creds, LeaseRevoke(h, c) PROVE ListType'
    <2>1. c.sub \in Key /\ c.exp - now \in Nat
      BY <1>5, RevocationAssumption DEF LeaseRevoke, Types, UserType, CredsType, Time
    <2>2. [at |-> now, ttl |-> c.exp - now] \in [at : Time, ttl : Nat]
      BY <1>0, <2>1, EntryType
    <2> QED BY <1>0, <1>5, <2>1, <2>2 DEF LeaseRevoke, ListType
  <1>6. ASSUME NEW h \in Handler, OtherIssue(h) \/ IssueWrite(h) \/ Push(h) PROVE ListType'
    BY <1>0, <1>6, ListedType DEF OtherIssue, IssueWrite, Push, ListType, LocalType
  <1>7. ASSUME NEW issued \in BOOLEAN, NEW server \in BOOLEAN, Periodic(issued, server)
        PROVE  ListType'
    <2>1. revocation' \in [Key -> [at : Time, ttl : Nat]]
      BY <1>0, <1>7, EntryType DEF Periodic, ListType
    <2> QED BY <1>0, <1>7, <2>1, ListedType DEF Periodic, ListType
  <1>8. CASE PeriodicFails
    BY <1>0, <1>8 DEF PeriodicFails, ListType
  <1>9. CASE UNCHANGED <<revocation, jwt, pushed>>
    BY <1>0, <1>9 DEF ListType
  <1> QED BY <1>1, <1>2, <1>3, <1>4, <1>5, <1>6, <1>7, <1>8, <1>9
          DEF Next, Handle, UserWrite, CredsRead, CredsSign, IssueRead, SyncRead, NoServer, GiveUp,
              Tick, vars

\* What a request remembers between its steps is of its type.
LEMMA StepLocalType == Types /\ [Next]_vars => LocalType'
  <1> SUFFICES ASSUME Types, [Next]_vars PROVE LocalType'
    OBVIOUS
  <1>0. UserType /\ ListType /\ LocalType /\ now \in Nat
    BY RevocationAssumption DEF Types, UserType, Time
  <1> USE DEF LocalType, Requests, ReqIn
  <1>1. ASSUME NEW h \in Handler, NEW ttl \in CredsTtl, CredsRead(h, ttl) PROVE LocalType'
    <2>1. Capped(ttl) \in Nat /\ Capped(ttl) <= MaxLeaseTTL
      BY <1>0, RevocationAssumption DEF Capped, UserType
    <2>2. user.key \in Key /\ user.key \in 0 .. MaxKeys
      BY <1>0, <1>1, EntryType DEF CredsRead, UserType
    <2> QED BY <1>0, <1>1, <2>1, <2>2 DEF CredsRead, Goto
  <1>2. ASSUME NEW h \in Handler, UserDelete(h) PROVE LocalType'
    BY <1>0, <1>2 DEF UserDelete, Goto, UserType
  <1>3. ASSUME NEW h \in Handler, NEW k \in Key, NEW given \in BOOLEAN, NEW ttl \in RevocationTtl,
               RevocationWrite(h, k, given, ttl)
        PROVE  LocalType'
    BY <1>0, <1>3, RevocationAssumption DEF RevocationWrite, Goto, UserType, Key
  <1>4. ASSUME NEW h \in Handler,
               \/ \E k \in Key : RevocationDelete(h, k)
               \/ \E c \in creds : LeaseRevoke(h, c)
               \/ OtherIssue(h)
        PROVE  LocalType'
    <2>1. pc[h] = "idle" /\ pc' = [pc EXCEPT ![h] = "sync"] /\ UNCHANGED <<req, snap>>
      BY <1>4 DEF RevocationDelete, LeaseRevoke, OtherIssue, Idle, Goto
    <2>2. req[h].n \in Time
      BY <1>0, <2>1, RevocationAssumption DEF NoReq, Time
    <2> QED BY <1>0, <2>1, <2>2
  <1>5. ASSUME NEW h \in Handler, IssueRead(h) \/ IssueWrite(h) \/ SyncRead(h) PROVE LocalType'
    <2>1. Listed(revocation) \in List /\ jwt \in List
      BY <1>0, ListedType DEF ListType
    <2> QED BY <1>0, <1>5, <2>1 DEF IssueRead, IssueWrite, SyncRead, Goto
  <1>6. ASSUME NEW h \in Handler, CredsSign(h) \/ NoServer(h) \/ Push(h) \/ GiveUp(h)
        PROVE  LocalType'
    <2>1. Return(h)
      BY <1>6 DEF CredsSign, NoServer, Push, GiveUp
    <2>2. NoReq \in [key : 0 .. MaxKeys, n : Nat] /\ NoList \in List
      BY RevocationAssumption DEF NoReq, NoList, List, Time
    <2> QED BY <1>0, <2>1, <2>2 DEF Return, Goto
  <1>7. CASE UNCHANGED local
    BY <1>0, <1>7 DEF local
  <1> QED BY <1>1, <1>2, <1>3, <1>4, <1>5, <1>6, <1>7
          DEF Next, Handle, UserWrite, UserRotate, Periodic, PeriodicFails, Tick, vars

\* The histories are of their types.
LEMMA StepHistoryType == Types /\ [Next]_vars => HistoryType'
  <1> SUFFICES ASSUME Types, [Next]_vars PROVE HistoryType'
    OBVIOUS
  <1>0. UserType /\ ListType /\ LocalType /\ HistoryType /\ (user.exists => user.key \in Key)
    BY EntryType DEF Types
  <1>1. NoReq \in [key : 0 .. MaxKeys, n : Time]
    BY RevocationAssumption DEF NoReq, Time
  <1>2. ASSUME NEW h \in Handler, UserDelete(h) PROVE HistoryType'
    BY <1>0, <1>2 DEF UserDelete, HistoryType
  <1>3. ASSUME NEW h \in Handler, NEW revoke \in BOOLEAN, UserRotate(h, revoke) PROVE HistoryType'
    BY <1>0, <1>3 DEF UserRotate, HistoryType
  <1>4. ASSUME NEW h \in Handler, NEW k \in Key, NEW given \in BOOLEAN, NEW ttl \in RevocationTtl,
               RevocationWrite(h, k, given, ttl)
        PROVE  HistoryType'
    BY <1>0, <1>4 DEF RevocationWrite, HistoryType
  <1>5. ASSUME NEW h \in Handler, NEW k \in Key, RevocationDelete(h, k) PROVE HistoryType'
    BY <1>0, <1>1, <1>5 DEF RevocationDelete, HistoryType
  <1>6. ASSUME NEW h \in Handler, NEW c \in creds, LeaseRevoke(h, c) PROVE HistoryType'
    BY <1>0, <1>6 DEF LeaseRevoke, HistoryType, Types, CredsType
  <1>7. ASSUME NEW h \in Handler, OtherIssue(h) \/ IssueWrite(h) PROVE HistoryType'
    BY <1>0, <1>7 DEF OtherIssue, IssueWrite, Pending, HistoryType
  <1>8. ASSUME NEW h \in Handler, Push(h) PROVE HistoryType'
    <2>1. req[h].n \in Time /\ req[h] \in [key : 0 .. MaxKeys, n : Nat]
      BY <1>0, <1>8 DEF Push, LocalType, Requests, ReqIn
    <2>2. req[h] \in [key : 0 .. MaxKeys, n : Time]
      BY <2>1
    <2> QED BY <1>0, <1>8, <2>2 DEF Push, HistoryType
  <1>9. ASSUME NEW issued \in BOOLEAN, NEW server \in BOOLEAN, Periodic(issued, server)
        PROVE  HistoryType'
    BY <1>0, <1>1, <1>9 DEF Periodic, HistoryType
  <1>10. CASE UNCHANGED history
    BY <1>0, <1>10 DEF history, HistoryType
  <1> QED BY <1>2, <1>3, <1>4, <1>5, <1>6, <1>7, <1>8, <1>9, <1>10
          DEF Next, Handle, UserWrite, CredsRead, CredsSign, IssueRead, SyncRead, NoServer, GiveUp,
              PeriodicFails, Tick, vars

\* Every step keeps the types.
LEMMA StepTypes == Types /\ [Next]_vars => Types'
  BY StepUserType, StepListType, StepLocalType, StepHistoryType DEF Types

\* Every variable has its type, and no credentials outlive the system's limit
\* except those that never expire.
THEOREM TypeCorrect == Spec => []TypeOK
  BY InitTypes, StepTypes, TypesAreTypes, PTL DEF Spec

-----------------------------------------------------------------------------
(* Time, keys, and what the handler has read.                               *)

\* addUserToRevocationList touches no other entry.
LEMMA RevokedUser ==
  ASSUME ListType, UserType, user.exists
  PROVE  \A k \in Key : WithUserRevoked[k] =
           IF k = user.key THEN [at |-> now, ttl |-> RevokeTtl] ELSE revocation[k]
  BY DEF WithUserRevoked, ListType

\* An entry that is written now is not from the future.
LEMMA EntriesPast ==
  ASSUME UserType, Past, now' = now,
         \A k \in Key : revocation'[k] = revocation[k] \/ revocation'[k].at = now
  PROVE  \A k \in Key : revocation'[k].at <= now'
  <1>1. now \in Nat
    BY RevocationAssumption DEF UserType, Time
  <1>2. \A k \in Key : revocation[k].at <= now
    BY DEF Past
  <1> QED BY <1>1, <1>2

\* Entries are written with the time of the clock, and rotation mints a new key.
LEMMA StepPast == Types /\ Past /\ [Next]_vars => Past'
  <1> SUFFICES ASSUME Types, Past, [Next]_vars PROVE Past'
    OBVIOUS
  <1>0. UserType /\ CredsType /\ ListType /\ LocalType /\ HistoryType
    BY DEF Types
  <1> USE RevocationAssumption DEF Key, Time, UserType, CredsType, ListType, HistoryType, Past
  <1>1. ASSUME NEW h \in Handler, NEW max \in LimitTtl, NEW revoke \in BOOLEAN, UserWrite(h, max, revoke)
        PROVE  Past'
    BY <1>0, <1>1 DEF UserWrite, history
  <1>2. ASSUME NEW h \in Handler, CredsSign(h) PROVE Past'
    BY <1>0, <1>2 DEF CredsSign, history
  <1>3. ASSUME NEW h \in Handler, UserDelete(h) PROVE Past'
    <2>1. user'.key = 0 /\ user.key \in Key /\ UNCHANGED <<now, minted, creds>>
      BY <1>0, <1>3, EntryType DEF UserDelete, Nobody
    <2>2. retired' \in {retired, retired \cup {user.key}}
      BY <1>3 DEF UserDelete
    <2>3. \A k \in Key : revocation'[k] = revocation[k] \/ revocation'[k].at = now
      BY <1>0, <1>3, RevokedUser DEF UserDelete
    <2>4. \A k \in Key : revocation'[k].at <= now'
      BY <1>0, <2>1, <2>3, EntriesPast
    <2>5. \A c \in creds' : c.iat <= now'
      BY <2>1
    <2>6. user'.key <= minted' /\ user'.key \notin retired' /\ \A k \in retired' : k <= minted'
      BY <1>0, <2>1, <2>2
    <2> QED BY <2>4, <2>5, <2>6
  <1>4. ASSUME NEW h \in Handler, NEW revoke \in BOOLEAN, UserRotate(h, revoke) PROVE Past'
    <2>1. /\ user'.key = minted + 1 /\ minted' = minted + 1 /\ user.key \in Key
          /\ UNCHANGED <<now, creds>>
      BY <1>0, <1>4, EntryType DEF UserRotate
    <2>2. retired' \in {retired, retired \cup {user.key}}
      BY <1>4 DEF UserRotate
    <2>3. \A k \in Key : revocation'[k] = revocation[k] \/ revocation'[k].at = now
      BY <1>0, <1>4, RevokedUser DEF UserRotate
    <2>4. \A k \in Key : revocation'[k].at <= now'
      BY <1>0, <2>1, <2>3, EntriesPast
    <2>5. \A c \in creds' : c.iat <= now'
      BY <2>1
    <2>6. user'.key <= minted' /\ user'.key \notin retired' /\ \A k \in retired' : k <= minted'
      BY <1>0, <2>1, <2>2
    <2> QED BY <2>4, <2>5, <2>6
  <1>5. ASSUME NEW h \in Handler, NEW k \in Key, NEW given \in BOOLEAN, NEW ttl \in RevocationTtl,
               RevocationWrite(h, k, given, ttl)
        PROVE  Past'
    <2>1. /\ UNCHANGED <<now, user, minted, creds>> /\ retired' = retired \ {k}
          /\ \A m \in Key : revocation'[m] = revocation[m] \/ revocation'[m].at = now
      BY <1>0, <1>5 DEF RevocationWrite, WriteEntry, userData, ListType
    <2>2. \A m \in Key : revocation'[m].at <= now'
      BY <1>0, <2>1, EntriesPast
    <2> QED BY <1>0, <2>1, <2>2 DEF Past
  <1>6. ASSUME NEW h \in Handler, NEW k \in Key, RevocationDelete(h, k) PROVE Past'
    BY <1>0, <1>6 DEF RevocationDelete, NoEntry, userData
  <1>7. ASSUME NEW h \in Handler, NEW c \in creds, LeaseRevoke(h, c) PROVE Past'
    <2>1. UNCHANGED <<now, user, minted, creds, retired>>
      BY <1>7 DEF LeaseRevoke, userData
    <2>2. c.sub \in Key
      BY <1>0, <1>7
    <2>3. \A k \in Key : revocation'[k] = revocation[k] \/ revocation'[k].at = now
      <3>1. CASE UNCHANGED revocation
        BY <3>1
      <3>2. CASE revocation' = [revocation EXCEPT ![c.sub] = [at |-> now, ttl |-> c.exp - now]]
        BY <1>0, <2>2, <3>2
      <3> QED BY <1>7, <3>1, <3>2 DEF LeaseRevoke
    <2>4. \A k \in Key : revocation'[k].at <= now'
      BY <1>0, <2>1, <2>3, EntriesPast
    <2> QED BY <2>1, <2>4
  <1>8. ASSUME NEW issued \in BOOLEAN, NEW server \in BOOLEAN, Periodic(issued, server)
        PROVE  Past'
    BY <1>0, <1>8 DEF Periodic, NoEntry, userData
  <1>9. CASE Tick
    BY <1>0, <1>9 DEF Tick, userData, history
  <1>10. CASE UNCHANGED <<now, userData, revocation, retired>>
    BY <1>10 DEF userData
  <1> QED BY <1>1, <1>2, <1>3, <1>4, <1>5, <1>6, <1>7, <1>8, <1>9, <1>10
          DEF Next, Handle, CredsRead, OtherIssue, IssueRead, IssueWrite, SyncRead, NoServer, Push,
              GiveUp, PeriodicFails, vars, history

\* What the periodic function does to an entry: nothing, or it removes it.
LEMMA PruneRemoves ==
  ASSUME NEW issued \in BOOLEAN, NEW server \in BOOLEAN, Periodic(issued, server), ListType
  PROVE  /\ \A k \in Key : revocation'[k] = revocation[k] \/ (k \in Expired /\ revocation'[k] = NoEntry)
         /\ \A k \in Key : revocation'[k].at = revocation[k].at \/ revocation'[k].at = 0
         /\ UNCHANGED <<now, userData, local, retired>>
  BY DEF Periodic, NoEntry

\* Only the periodic function runs beside a request, and it only removes entries.
LEMMA StepSnap ==
  ASSUME NEW h \in Handler, Handler = {h}, Types, Past, SnapIn(h), [Next]_vars
  PROVE  SnapIn(h)'
  <1>0. UserType /\ ListType /\ LocalType
    BY DEF Types
  <1> USE RevocationAssumption DEF Time, SnapIn, LocalType
  <1>1. ASSUME NEW ttl \in CredsTtl, CredsRead(h, ttl) PROVE SnapIn(h)'
    BY <1>0, <1>1 DEF CredsRead, Goto, userData
  <1>2. ASSUME \/ \E max \in LimitTtl, revoke \in BOOLEAN : UserWrite(h, max, revoke)
               \/ \E revoke \in BOOLEAN : UserRotate(h, revoke)
        PROVE  SnapIn(h)'
    BY <1>0, <1>2 DEF UserWrite, UserRotate, Idle, local
  <1>3. ASSUME \/ UserDelete(h) \/ OtherIssue(h)
               \/ \E k \in Key, given \in BOOLEAN, ttl \in RevocationTtl : RevocationWrite(h, k, given, ttl)
               \/ \E k \in Key : RevocationDelete(h, k)
               \/ \E c \in creds : LeaseRevoke(h, c)
        PROVE  SnapIn(h)'
    BY <1>0, <1>3 DEF UserDelete, OtherIssue, RevocationWrite, RevocationDelete, LeaseRevoke, Idle, Goto
  <1>4. CASE IssueRead(h)
    BY <1>0, <1>4, ListedType DEF IssueRead, Goto, ListType
  <1>5. CASE IssueWrite(h) \/ SyncRead(h)
    BY <1>0, <1>5 DEF IssueWrite, SyncRead, Goto
  <1>6. CASE CredsSign(h) \/ NoServer(h) \/ Push(h) \/ GiveUp(h)
    BY <1>0, <1>6 DEF CredsSign, NoServer, Push, GiveUp, Return, Goto
  <1>7. ASSUME NEW issued \in BOOLEAN, NEW server \in BOOLEAN, Periodic(issued, server)
        PROVE  SnapIn(h)'
    <2>1. snap[h] \in [Key -> Nat]
      BY <1>0 DEF List
    <2> QED BY <1>0, <1>7, <2>1, PruneRemoves DEF userData, local
  <1>8. CASE UNCHANGED <<user, revocation, local>>
    BY <1>8 DEF local
  <1> QED BY <1>1, <1>2, <1>3, <1>4, <1>5, <1>6, <1>7, <1>8
          DEF Next, Handle, PeriodicFails, Tick, vars, userData

-----------------------------------------------------------------------------
(* Stored revocations are listed.                                           *)

\* The stored revocations are listed as they are.
LEMMA IssuedListed ==
  ASSUME revocation' \in [Key -> [at : Time, ttl : Nat]], jwt' = Listed(revocation')
  PROVE  RevocationsListed'
  <1>1. \A k \in Key : jwt'[k] = revocation'[k].at /\ revocation'[k].at \in Nat
    BY ListedType, RevocationAssumption DEF Time
  <1> QED BY <1>1 DEF RevocationsListed

\* A list that is issued holds what is stored (IssueRead, IssueWrite).
LEMMA StepListed ==
  ASSUME NEW h \in Handler, Handler = {h}, Types, SnapIn(h), RevocationsListed, [Next]_vars
  PROVE  RevocationsListed'
  <1>0. ListType /\ ListType' /\ LocalType
    BY StepListType DEF Types
  <1>1. jwt \in [Key -> Nat] /\ \A k \in Key : revocation[k].at \in Nat
    BY <1>0, RevocationAssumption DEF ListType, List, Time
  <1>2. CASE UserDelete(h)
    BY <1>0, <1>2 DEF UserDelete, WithUserRevoked, ListType, RevocationsListed
  <1>3. ASSUME NEW revoke \in BOOLEAN, UserRotate(h, revoke) PROVE RevocationsListed'
    BY <1>0, <1>3, IssuedListed DEF UserRotate, ListType, RevocationsListed
  <1>4. ASSUME NEW k \in Key, NEW given \in BOOLEAN, NEW ttl \in RevocationTtl,
               RevocationWrite(h, k, given, ttl)
        PROVE  RevocationsListed'
    BY <1>0, <1>4 DEF RevocationWrite, ListType, RevocationsListed
  <1>5. ASSUME NEW k \in Key, RevocationDelete(h, k) PROVE RevocationsListed'
    BY <1>0, <1>5, IssuedListed DEF RevocationDelete, ListType
  <1>6. ASSUME NEW c \in creds, LeaseRevoke(h, c) PROVE RevocationsListed'
    BY <1>0, <1>6 DEF LeaseRevoke, ListType, RevocationsListed
  <1>7. CASE OtherIssue(h)
    BY <1>0, <1>7, IssuedListed DEF OtherIssue, ListType
  <1>8. CASE IssueWrite(h)
    BY <1>8 DEF IssueWrite, SnapIn, RevocationsListed
  <1>9. ASSUME NEW issued \in BOOLEAN, NEW server \in BOOLEAN, Periodic(issued, server)
        PROVE  RevocationsListed'
    <2>1. CASE issued
      BY <1>0, <1>9, <2>1, IssuedListed DEF Periodic, ListType
    <2>2. CASE ~issued
      <3>1. jwt' = jwt /\ owed' = owed
        BY <1>9, <2>2 DEF Periodic
      <3> QED BY <1>0, <1>1, <1>9, <3>1, PruneRemoves DEF RevocationsListed
    <2> QED BY <2>1, <2>2
  <1>10. CASE UNCHANGED <<revocation, jwt, owed>>
    BY <1>10 DEF RevocationsListed
  <1> QED BY <1>2, <1>3, <1>4, <1>5, <1>6, <1>7, <1>8, <1>9, <1>10
          DEF Next, Handle, UserWrite, CredsRead, CredsSign, IssueRead, SyncRead, NoServer, Push,
              GiveUp, PeriodicFails, Tick, vars, history

\* No request is served and nothing is revoked at first.
LEMMA InitInv == \A h \in Handler : Init => Inv(h)
  <1> SUFFICES ASSUME NEW h \in Handler, Init PROVE Inv(h)
    OBVIOUS
  <1>1. \A k \in Key : revocation[k].at = 0 /\ jwt[k] = 0 /\ pushed[k] = 0
    BY DEF Init, NoEntry, NoList
  <1>2. pc[h] = "idle" /\ creds = {} /\ retired = {} /\ owed = {} /\ confirmed = NoReq
    BY DEF Init
  <1>3. now = 1 /\ user.key = 0 /\ minted = 0
    BY DEF Init, Nobody
  <1> QED BY <1>1, <1>2, <1>3
          DEF Inv, Past, SnapIn, RevocationsListed, AboutToConfirm, ConfirmedIn, Covered

-----------------------------------------------------------------------------
(* A confirmed revocation stays at NATS.                                    *)

\* What was listed at time n is still at least that after the list is issued
\* again, because the entry is.
LEMMA StepAbout ==
  ASSUME NEW h \in Handler, Handler = {h}, Types, Past, SnapIn(h), RevocationsListed,
         AboutToConfirm(h), [Next]_vars
  PROVE  AboutToConfirm(h)'
  <1>0. UserType /\ ListType /\ ListType' /\ LocalType /\ ReqIn(h) /\ NoReq.key = 0
    BY StepListType DEF Types, LocalType, Requests, NoReq
  <1>00. /\ now \in Nat /\ req[h].key \in 0 .. MaxKeys /\ req[h].n \in Nat
         /\ jwt \in [Key -> Nat] /\ pushed \in [Key -> Nat] /\ snap[h] \in [Key -> Nat]
         /\ \A k \in Key : revocation[k].at \in Nat
    BY <1>0, RevocationAssumption DEF UserType, ListType, LocalType, List, Time
  <1> USE DEF AboutToConfirm
  <1>1. CASE UserDelete(h)
    <2>1. user.key \in Key
      BY <1>0, <1>1, EntryType DEF UserDelete
    <2>2. CASE user.revoke
      <3>1. /\ req' = [req EXCEPT ![h] = [key |-> user.key, n |-> now]]
            /\ pc' = [pc EXCEPT ![h] = "issue"] /\ revocation' = WithUserRevoked
        BY <1>1, <2>2 DEF UserDelete, Goto
      <3>2. req'[h].key = user.key /\ req'[h].n = now /\ pc'[h] = "issue"
        BY <1>0, <3>1 DEF LocalType
      <3>3. revocation'[user.key].at = now
        BY <1>0, <1>1, <2>1, <3>1, RevokedUser DEF UserDelete
      <3> QED BY <1>00, <3>2, <3>3
    <2>3. CASE ~user.revoke
      BY <1>1, <2>3 DEF UserDelete, Idle
    <2> QED BY <2>2, <2>3
  <1>2. ASSUME NEW k \in Key, NEW given \in BOOLEAN, NEW ttl \in RevocationTtl,
               RevocationWrite(h, k, given, ttl)
        PROVE  AboutToConfirm(h)'
    <2>1. req'[h].key = k /\ req'[h].n = now /\ pc'[h] = "issue"
      BY <1>0, <1>2 DEF RevocationWrite, Goto, LocalType
    <2>2. revocation'[k].at = now
      BY <1>0, <1>2 DEF RevocationWrite, WriteEntry, ListType
    <2> QED BY <1>00, <2>1, <2>2
  <1>3. ASSUME \/ OtherIssue(h)
               \/ \E k \in Key : RevocationDelete(h, k)
               \/ \E c \in creds : LeaseRevoke(h, c)
        PROVE  AboutToConfirm(h)'
    <2>1. req'[h].key = 0
      BY <1>0, <1>3 DEF OtherIssue, RevocationDelete, LeaseRevoke, Idle, ReqIn
    <2> QED BY <2>1
  <1>4. CASE IssueRead(h)
    <2>1. pc[h] = "issue" /\ pc'[h] = "write" /\ UNCHANGED <<revocation, req>>
      BY <1>0, <1>4 DEF IssueRead, Goto, LocalType
    <2> QED BY <2>1
  <1>5. CASE IssueWrite(h)
    <2>1. /\ pc[h] = "write" /\ pc'[h] = "sync" /\ jwt' = snap[h]
          /\ UNCHANGED <<revocation, req>>
      BY <1>0, <1>5 DEF IssueWrite, Goto, LocalType
    <2> DEFINE k == req[h].key
    <2>2. CASE k # 0 /\ revocation[k] # NoEntry
      <3>1. k \in Key /\ revocation[k].at >= req[h].n
        BY <1>00, <2>1, <2>2 DEF Key
      <3>2. jwt'[k] >= revocation[k].at
        BY <2>1, <3>1 DEF SnapIn
      <3>3. jwt'[k] >= req[h].n
        BY <1>00, <2>1, <3>1, <3>2
      <3> QED BY <2>1, <3>1, <3>3
    <2>3. CASE k = 0 \/ revocation[k] = NoEntry
      BY <2>1, <2>3
    <2> QED BY <2>2, <2>3
  <1>6. CASE SyncRead(h)
    <2>1. /\ pc[h] = "sync" /\ pc'[h] = "push" /\ snap'[h] = jwt
          /\ UNCHANGED <<revocation, req, jwt>>
      BY <1>0, <1>6 DEF SyncRead, Goto, LocalType
    <2> QED BY <2>1
  <1>7. ASSUME \/ CredsSign(h) \/ NoServer(h) \/ Push(h) \/ GiveUp(h)
               \/ \E max \in LimitTtl, revoke \in BOOLEAN : UserWrite(h, max, revoke)
               \/ \E revoke \in BOOLEAN : UserRotate(h, revoke)
               \/ \E ttl \in CredsTtl : CredsRead(h, ttl)
        PROVE  AboutToConfirm(h)'
    <2>1. pc'[h] \in {"idle", "sign"}
      BY <1>0, <1>7 DEF CredsSign, NoServer, Push, GiveUp, UserWrite, UserRotate, CredsRead,
                        Return, Goto, Idle, local, LocalType
    <2> QED BY <2>1
  <1>8. ASSUME NEW issued \in BOOLEAN, NEW server \in BOOLEAN, Periodic(issued, server)
        PROVE  AboutToConfirm(h)'
    <2>1. /\ UNCHANGED <<pc, req, snap>>
          /\ \A k \in Key : revocation'[k] = revocation[k] \/ revocation'[k] = NoEntry
      BY <1>0, <1>8, PruneRemoves DEF local
    <2>2. jwt' = jwt \/ \A k \in Key : jwt'[k] = revocation'[k].at
      BY <1>0, <1>8, ListedType DEF Periodic, ListType
    <2> DEFINE k == req[h].key
    <2>3. CASE k # 0 /\ revocation'[k] # NoEntry
      <3>1. k \in Key /\ revocation'[k] = revocation[k]
        BY <1>00, <2>1, <2>3 DEF Key
      <3>2. jwt'[k] = jwt[k] \/ jwt'[k] = revocation[k].at
        BY <2>2, <3>1
      <3> QED BY <2>1, <2>3, <3>1, <3>2
    <2>4. CASE k = 0 \/ revocation'[k] = NoEntry
      BY <2>1, <2>4
    <2> QED BY <2>3, <2>4
  <1>9. CASE UNCHANGED <<revocation, jwt, local>>
    BY <1>9 DEF local
  <1> QED BY <1>1, <1>2, <1>3, <1>4, <1>5, <1>6, <1>7, <1>8, <1>9
          DEF Next, Handle, PeriodicFails, Tick, vars

\* Writing entries now keeps a confirmed one, and issuing the list keeps it
\* listed.
LEMMA ConfirmedKept ==
  ASSUME NEW h \in Handler, Types, Past, ConfirmedIn(h), ListType', confirmed' = confirmed,
         \A k \in Key : revocation'[k] = revocation[k] \/ revocation'[k].at = now,
         jwt' = jwt \/ jwt' = Listed(revocation'),
         pushed' = pushed, pc'[h] # "push" \/ (pc'[h] = pc[h] /\ snap'[h] = snap[h])
  PROVE  ConfirmedIn(h)'
  <1> SUFFICES ASSUME confirmed # NoReq PROVE ConfirmedIn(h)'
    BY DEF ConfirmedIn
  <1> DEFINE k == confirmed.key
  <1>1. /\ k \in Key /\ revocation[k].at >= confirmed.n /\ jwt[k] >= confirmed.n
        /\ pushed[k] >= confirmed.n /\ (pc[h] = "push" => snap[h][k] >= confirmed.n)
    BY DEF ConfirmedIn
  <1>2. /\ confirmed.n \in Nat /\ now \in Nat /\ revocation[k].at \in Nat
        /\ revocation[k].at <= now
    BY <1>1, RevocationAssumption DEF Types, UserType, ListType, HistoryType, Time, Past
  <1>3. revocation'[k].at >= confirmed.n
    BY <1>1, <1>2
  <1>4. jwt'[k] >= confirmed.n
    BY <1>1, <1>3, ListedType DEF ListType
  <1> QED BY <1>1, <1>3, <1>4 DEF ConfirmedIn

\* A push gives NATS a list that holds the confirmed revocation.
LEMMA StepConfirmed ==
  ASSUME NEW h \in Handler, Handler = {h}, Types, Past, SnapIn(h), AboutToConfirm(h),
         ConfirmedIn(h), [Next]_vars
  PROVE  ConfirmedIn(h)'
  <1>0. UserType /\ ListType /\ ListType' /\ LocalType /\ HistoryType
    BY StepListType DEF Types
  <1>00. /\ jwt \in [Key -> Nat] /\ pushed \in [Key -> Nat] /\ snap[h] \in [Key -> Nat]
         /\ req[h].key \in 0 .. MaxKeys /\ req[h].n \in Nat /\ confirmed.n \in Nat
         /\ \A k \in Key : revocation[k].at \in Nat
    BY <1>0, RevocationAssumption DEF ListType, LocalType, HistoryType, List, Time
  <1>1. CASE UserDelete(h)
    <2>1. /\ UNCHANGED <<jwt, pushed, confirmed, snap>> /\ pc[h] = "idle" /\ pc'[h] # "push"
      BY <1>0, <1>1 DEF UserDelete, Idle, Goto, LocalType
    <2>2. \A k \in Key : revocation'[k] = revocation[k] \/ revocation'[k].at = now
      BY <1>0, <1>1, RevokedUser DEF UserDelete
    <2> QED BY <1>0, <2>1, <2>2, ConfirmedKept
  <1>2. ASSUME NEW revoke \in BOOLEAN, UserRotate(h, revoke) PROVE ConfirmedIn(h)'
    <2>1. /\ UNCHANGED <<pushed, confirmed>> /\ pc[h] = "idle" /\ pc'[h] # "push"
      BY <1>2 DEF UserRotate, Idle, local
    <2>2. \A k \in Key : revocation'[k] = revocation[k] \/ revocation'[k].at = now
      BY <1>0, <1>2, RevokedUser DEF UserRotate
    <2>3. jwt' = jwt \/ jwt' = Listed(revocation')
      BY <1>2 DEF UserRotate
    <2> QED BY <1>0, <2>1, <2>2, <2>3, ConfirmedKept
  <1>3. ASSUME NEW k \in Key, NEW given \in BOOLEAN, NEW ttl \in RevocationTtl,
               RevocationWrite(h, k, given, ttl)
        PROVE  ConfirmedIn(h)'
    <2>1. /\ UNCHANGED <<jwt, pushed, confirmed>> /\ pc'[h] # "push"
      BY <1>0, <1>3 DEF RevocationWrite, Goto, LocalType
    <2>2. \A g \in Key : revocation'[g] = revocation[g] \/ revocation'[g].at = now
      BY <1>0, <1>3 DEF RevocationWrite, WriteEntry, ListType
    <2> QED BY <1>0, <2>1, <2>2, ConfirmedKept
  <1>4. ASSUME NEW k \in Key, RevocationDelete(h, k) PROVE ConfirmedIn(h)'
    <2>1. /\ pushed' = pushed /\ pc'[h] # "push"
          /\ \A g \in Key : g # k => revocation'[g] = revocation[g]
      BY <1>0, <1>4 DEF RevocationDelete, Goto, LocalType, ListType
    <2>2. \A g \in Key : jwt'[g] = revocation'[g].at
      BY <1>0, <1>4, ListedType DEF RevocationDelete, ListType
    <2>3. confirmed' = IF confirmed.key = k THEN NoReq ELSE confirmed
      BY <1>4 DEF RevocationDelete
    <2> QED BY <2>1, <2>2, <2>3 DEF ConfirmedIn
  <1>5. ASSUME NEW c \in creds, LeaseRevoke(h, c) PROVE ConfirmedIn(h)'
    <2>1. /\ UNCHANGED <<jwt, pushed, confirmed>> /\ pc'[h] # "push"
      BY <1>0, <1>5 DEF LeaseRevoke, Goto, LocalType
    <2>2. c.sub \in Key
      BY DEF Types, CredsType
    <2>3. \A g \in Key : revocation'[g] = revocation[g] \/ revocation'[g].at = now
      BY <1>0, <1>5, <2>2 DEF LeaseRevoke, ListType
    <2> QED BY <1>0, <2>1, <2>3, ConfirmedKept
  <1>6. CASE OtherIssue(h)
    <2>1. /\ UNCHANGED <<revocation, pushed, confirmed>> /\ pc'[h] # "push"
          /\ jwt' = Listed(revocation')
      BY <1>0, <1>6 DEF OtherIssue, Goto, LocalType
    <2> QED BY <1>0, <2>1, ConfirmedKept
  <1>7. CASE IssueWrite(h)
    <2>1. /\ UNCHANGED <<revocation, pushed, confirmed>> /\ pc[h] = "write" /\ pc'[h] # "push"
          /\ jwt' = snap[h]
      BY <1>0, <1>7 DEF IssueWrite, Goto, LocalType
    <2>2. \A k \in Key : jwt'[k] >= revocation[k].at
      BY <2>1 DEF SnapIn
    <2> QED BY <1>00, <2>1, <2>2 DEF ConfirmedIn
  <1>8. CASE SyncRead(h)
    <2>1. /\ UNCHANGED <<revocation, jwt, pushed, confirmed>> /\ snap'[h] = jwt
      BY <1>0, <1>8 DEF SyncRead, history, LocalType
    <2> QED BY <2>1 DEF ConfirmedIn
  <1>9. CASE Push(h)
    <2>1. /\ pc[h] = "push" /\ pc'[h] = "idle" /\ pushed' = snap[h]
          /\ UNCHANGED <<revocation, jwt>>
      BY <1>0, <1>9 DEF Push, Return, Goto, LocalType
    <2>2. CASE req[h].key # 0 /\ revocation[req[h].key] # NoEntry
      <3>1. confirmed' = req[h] /\ req[h].key \in Key
        BY <1>00, <1>9, <2>2 DEF Push, Key
      <3> QED BY <2>1, <2>2, <3>1 DEF AboutToConfirm, ConfirmedIn
    <2>3. CASE req[h].key = 0 \/ revocation[req[h].key] = NoEntry
      <3>1. confirmed' = confirmed
        BY <1>9, <2>3 DEF Push
      <3> QED BY <2>1, <3>1 DEF ConfirmedIn
    <2> QED BY <2>2, <2>3
  <1>10. CASE CredsSign(h) \/ NoServer(h) \/ GiveUp(h)
    <2>1. /\ UNCHANGED <<revocation, jwt, pushed, confirmed>> /\ pc'[h] # "push"
      BY <1>0, <1>10 DEF CredsSign, NoServer, GiveUp, Return, Goto, history, LocalType
    <2> QED BY <2>1 DEF ConfirmedIn
  <1>11. ASSUME \/ IssueRead(h)
                \/ \E max \in LimitTtl, revoke \in BOOLEAN : UserWrite(h, max, revoke)
                \/ \E ttl \in CredsTtl : CredsRead(h, ttl)
         PROVE  ConfirmedIn(h)'
    <2>1. /\ UNCHANGED <<revocation, jwt, pushed, confirmed>> /\ pc'[h] # "push"
      BY <1>0, <1>11 DEF IssueRead, UserWrite, CredsRead, Idle, Goto, local, history, LocalType
    <2> QED BY <2>1 DEF ConfirmedIn
  <1>12. ASSUME NEW issued \in BOOLEAN, NEW server \in BOOLEAN, Periodic(issued, server)
         PROVE  ConfirmedIn(h)'
    <2>1. /\ UNCHANGED <<pc, req, snap>>
          /\ \A k \in Key : revocation'[k] = revocation[k] \/ k \in Expired
      BY <1>0, <1>12, PruneRemoves DEF local
    <2>2. jwt' = jwt \/ \A k \in Key : jwt'[k] = revocation'[k].at
      BY <1>0, <1>12, ListedType DEF Periodic, ListType
    <2>3. pushed' = pushed \/ pushed' = jwt
      BY <1>12 DEF Periodic
    <2>4. confirmed' = IF confirmed.key \in Expired THEN NoReq ELSE confirmed
      BY <1>12 DEF Periodic
    <2> QED BY <2>1, <2>2, <2>3, <2>4 DEF ConfirmedIn
  <1>13. CASE PeriodicFails
    BY <1>13 DEF PeriodicFails, local, history, ConfirmedIn
  <1>14. CASE UNCHANGED <<revocation, jwt, pushed, local, history>>
    BY <1>14 DEF local, history, ConfirmedIn
  <1> QED BY <1>1, <1>2, <1>3, <1>4, <1>5, <1>6, <1>7, <1>8, <1>9, <1>10, <1>11, <1>12, <1>13, <1>14
          DEF Next, Handle, Tick, vars

-----------------------------------------------------------------------------
(* The revocation of a deleted or rotated user outlives its credentials.    *)

\* Entries of retired keys that stay as they are cover what they covered, as
\* time passes.
LEMMA CoveredKept ==
  ASSUME Types, Covered, now' \in Nat, now' >= now, creds' = creds, retired' \subseteq retired,
         \A k \in retired' : revocation'[k] = revocation[k]
  PROVE  Covered'
  <1>1. now \in Nat /\ \A c \in creds : c.exp \in Nat
    BY RevocationAssumption DEF Types, UserType, CredsType, Time
  <1> QED BY <1>1 DEF Covered

\* A key that retires now is revoked for longer than any credentials of it last.
LEMMA RetireCovers ==
  ASSUME Types, Past, Covered, user.exists, now' = now, creds' = creds,
         revocation' = WithUserRevoked, retired' = retired \cup {user.key}
  PROVE  Covered'
  <1>1. UserType /\ ListType /\ CredsType /\ HistoryType
    BY DEF Types
  <1>2. RevokeTtl \in Nat /\ RevokeTtl >= MaxLeaseTTL
    BY <1>1, RevocationAssumption DEF RevokeTtl, UserType
  <1>3. \A k \in retired : revocation'[k] = revocation[k]
    BY <1>1, RevokedUser DEF Past, HistoryType
  <1>4. user.key \in Key /\ revocation'[user.key] = [at |-> now, ttl |-> RevokeTtl]
    BY <1>1, EntryType, RevokedUser
  <1>5. ASSUME NEW c \in creds, c.sub = user.key, c.exp >= now
        PROVE  now >= c.iat /\ now + RevokeTtl >= c.exp
    <2>1. now \in Nat \ {0} /\ c.iat \in Nat /\ c.iat <= now
      BY <1>1, RevocationAssumption DEF UserType, CredsType, Past, Time
    <2>2. c.exp \in c.iat + 1 .. c.iat + MaxLeaseTTL
      BY <1>1, <1>5, <2>1 DEF CredsType
    <2> QED BY <1>2, <2>1, <2>2, RevocationAssumption
  <1> QED BY <1>3, <1>4, <1>5 DEF Covered

\* A key retires with a revocation that covers its credentials, and no credentials
\* are signed with it afterwards.
LEMMA StepCovered ==
  ASSUME NEW h \in Handler, Handler = {h}, Types, Past, SnapIn(h), Covered, [Next]_vars
  PROVE  Covered'
  <1>0. UserType /\ CredsType /\ ListType /\ LocalType /\ HistoryType
    BY DEF Types
  <1>00. now \in Nat
    BY <1>0, RevocationAssumption DEF UserType, Time
  <1>1. CASE CredsSign(h)
    <2>1. UNCHANGED <<now, revocation, retired>>
      BY <1>1 DEF CredsSign, history
    <2> DEFINE new == [sub |-> req[h].key, iat |-> now,
                       exp |-> IF req[h].n > 0 THEN now + req[h].n ELSE 0]
    <2>2. creds' = creds \cup {new} /\ new.sub = req[h].key
      BY <1>1 DEF CredsSign
    <2>3. new.sub \notin retired
      BY <1>1, <2>2 DEF CredsSign, SnapIn, Past
    <2> HIDE DEF new
    <2> QED BY <2>1, <2>2, <2>3 DEF Covered
  <1>2. CASE UserDelete(h)
    <2>1. CASE user.revoke
      BY <1>2, <2>1, RetireCovers DEF UserDelete
    <2>2. CASE ~user.revoke
      BY <1>00, <1>2, <2>2, CoveredKept DEF UserDelete
    <2> QED BY <2>1, <2>2
  <1>3. ASSUME NEW revoke \in BOOLEAN, UserRotate(h, revoke) PROVE Covered'
    <2>1. CASE revoke
      BY <1>3, <2>1, RetireCovers DEF UserRotate
    <2>2. CASE ~revoke
      BY <1>00, <1>3, <2>2, CoveredKept DEF UserRotate
    <2> QED BY <2>1, <2>2
  <1>4. ASSUME NEW k \in Key, NEW given \in BOOLEAN, NEW ttl \in RevocationTtl,
               RevocationWrite(h, k, given, ttl)
        PROVE  Covered'
    BY <1>0, <1>00, <1>4, CoveredKept DEF RevocationWrite, userData, ListType, HistoryType
  <1>5. ASSUME NEW k \in Key, RevocationDelete(h, k) PROVE Covered'
    BY <1>0, <1>00, <1>5, CoveredKept DEF RevocationDelete, userData, ListType, HistoryType
  <1>6. ASSUME NEW c \in creds, LeaseRevoke(h, c) PROVE Covered'
    <2>1. c.sub \in Key /\ c.exp \in Nat /\ c.exp > now
      BY <1>0, <1>6, RevocationAssumption DEF LeaseRevoke, CredsType, UserType, Time
    <2>2. UNCHANGED <<now, creds, retired>>
      BY <1>6 DEF LeaseRevoke, userData
    <2>3. CASE c.sub \in retired
      <3>1. /\ revocation[c.sub].at \in Nat /\ revocation[c.sub].ttl \in Nat
            /\ revocation[c.sub].at + revocation[c.sub].ttl >= c.exp
        BY <1>0, <1>00, <2>1, <2>3, RevocationAssumption DEF Covered, ListType, Time
      <3>2. ~LeftBefore(c.sub, c.exp)
        BY <2>1, <3>1 DEF LeftBefore
      <3> QED BY <1>00, <1>6, <2>2, <3>2, CoveredKept DEF LeaseRevoke
    <2>4. CASE c.sub \notin retired
      <3>1. \A k \in retired : revocation'[k] = revocation[k]
        BY <1>0, <1>6, <2>1, <2>4 DEF LeaseRevoke, ListType, HistoryType
      <3> QED BY <1>00, <2>2, <3>1, CoveredKept
    <2> QED BY <2>3, <2>4
  <1>7. ASSUME NEW issued \in BOOLEAN, NEW server \in BOOLEAN, Periodic(issued, server)
        PROVE  Covered'
    <2>1. UNCHANGED <<now, creds, retired>>
      BY <1>7 DEF Periodic, userData
    <2>2. ASSUME NEW c \in creds, c.sub \in retired, c.exp >= now
          PROVE  revocation'[c.sub] = revocation[c.sub]
      <3>1. c.sub \in Key /\ c.exp \in Nat
        BY <1>0, RevocationAssumption DEF CredsType, Time
      <3>2. revocation[c.sub].at + revocation[c.sub].ttl >= c.exp
        BY <2>2 DEF Covered
      <3>3. revocation[c.sub].at \in Nat /\ revocation[c.sub].ttl \in Nat
        BY <1>0, <3>1, RevocationAssumption DEF ListType, Time
      <3>4. c.sub \notin Expired
        BY <1>00, <2>2, <3>1, <3>2, <3>3 DEF Expired
      <3> QED BY <1>0, <1>7, <3>1, <3>4, PruneRemoves
    <2> QED BY <2>1, <2>2 DEF Covered
  <1>8. CASE Tick
    BY <1>00, <1>8, CoveredKept DEF Tick, userData, history
  <1>9. CASE UNCHANGED <<now, creds, revocation, retired>>
    BY <1>00, <1>9, CoveredKept
  <1> QED BY <1>1, <1>2, <1>3, <1>4, <1>5, <1>6, <1>7, <1>8, <1>9
          DEF Next, Handle, UserWrite, CredsRead, OtherIssue, IssueRead, IssueWrite, SyncRead,
              NoServer, Push, GiveUp, PeriodicFails, vars, userData, history

-----------------------------------------------------------------------------
(* The properties of requests served one at a time.                         *)

\* The inductive invariant holds in every reachable state.
THEOREM InvCorrect ==
  ASSUME NEW h \in Handler, Handler = {h}
  PROVE  Spec => [](Types /\ Inv(h))
  <1>1. Init => Types /\ Inv(h)
    BY InitTypes, InitInv
  <1>2. (Types /\ Inv(h)) /\ [Next]_vars => (Types /\ Inv(h))'
    BY StepTypes, StepPast, StepSnap, StepListed, StepAbout, StepConfirmed, StepCovered DEF Inv
  <1> QED BY <1>1, <1>2, PTL DEF Spec

\* No stored revocation is missing from the stored account JWT, or listed with an
\* earlier time, once an account JWT was issued after it.
THEOREM ListedCorrect ==
  ASSUME NEW h \in Handler, Handler = {h}
  PROVE  Spec => []RevocationsListed
  <1>1. Inv(h) => RevocationsListed
    BY DEF Inv
  <1> QED BY <1>1, InvCorrect, PTL

\* A revocation that was answered and pushed is on NATS's list with that time or
\* a later one until its entry is deleted or pruned.
THEOREM RevokedCorrect ==
  ASSUME NEW h \in Handler, Handler = {h}
  PROVE  Spec => []RevokedAtNats
  <1>1. Inv(h) => RevokedAtNats
    BY DEF Inv, ConfirmedIn, RevokedAtNats
  <1> QED BY <1>1, InvCorrect, PTL

\* max(CredsMaxTtl, MaxLeaseTTL) is long enough: the revocation of a deleted or
\* rotated user outlives all its credentials that expire.
THEOREM RetiredCorrect ==
  ASSUME NEW h \in Handler, Handler = {h}
  PROVE  Spec => []RetiredRefused
  <1>1. Types /\ Inv(h) => RetiredRefused
    <2> SUFFICES ASSUME Types, Inv(h), NEW c \in creds, c.sub \in retired \ owed, c.exp >= now
                 PROVE  jwt[c.sub] >= c.iat
      BY DEF RetiredRefused
    <2>1. c.sub \in Key /\ jwt[c.sub] \in Nat /\ revocation[c.sub].at \in Nat /\ c.iat \in Nat
      BY RevocationAssumption DEF Types, CredsType, ListType, List, Time
    <2>2. jwt[c.sub] >= revocation[c.sub].at /\ revocation[c.sub].at >= c.iat
      BY <2>1 DEF Inv, RevocationsListed, Covered
    <2> QED BY <2>1, <2>2
  <1> QED BY <1>1, InvCorrect, PTL
=============================================================================
