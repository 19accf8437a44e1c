-------------------------- MODULE ShimListProofs --------------------------
(***************************************************************************)
(* What ListPage and List of ShimList promise, for any keys, any log, any    *)
(* store and any page size.                                                 *)
(*                                                                          *)
(* Each property is about one state, so TypeOK is all it needs of the        *)
(* reachable ones. The work is in the loops. Each is a recursive function    *)
(* of the model: Iteration gives a function that satisfies its equation,     *)
(* hence the CHOOSE of the definition does too, and Upward carries what is    *)
(* true of the first turn to the last.                                      *)
(*                                                                          *)
(* Everything is said with Lists(s, A): s has the members of A, in order,    *)
(* each once. One sequence does (ListsUnique), so that List and the pages    *)
(* are the same once both list Shown(t), the children to be shown.          *)
(***************************************************************************)
EXTENDS ShimList, ShimTxProofs, FiniteSetTheorems

-----------------------------------------------------------------------------
(* Numbers.                                                                 *)

\* A set of numbers that is not empty has a least one.
LEMMA LeastExists ==
  ASSUME NEW T \in SUBSET Nat, T # {}
  PROVE  \E m \in T : \A y \in T : m <= y
  <1>1. PICK m \in T : \A y \in T : <<y, m>> \notin OpToRel(<, Nat)
    BY WFMin, NatLessThanWellFounded
  <1>2. ASSUME NEW y \in T, ~(m <= y) PROVE FALSE
    <2>1. y < m
      BY <1>2
    <2>2. <<y, m>> \in OpToRel(<, Nat)
      BY <2>1 DEF OpToRel
    <2> QED BY <1>1, <2>2
  <1> QED BY <1>2

-----------------------------------------------------------------------------
(* Sorted sequences.                                                        *)

\* s lists the members of A in order, each once.
Lists(s, A) == s \in Seq(Nat) /\ Increasing(s) /\ ToSet(s) = A

\* Sequences by their positions.
LEMMA ListsDef ==
  ASSUME NEW s \in Seq(Nat), NEW A
  PROVE  /\ Len(s) \in Nat /\ DOMAIN s = 1 .. Len(s)
         /\ \A i \in 1 .. Len(s) : s[i] \in Nat
         /\ Lists(s, A) <=> /\ \A i, j \in 1 .. Len(s) : i < j => s[i] < s[j]
                            /\ \A i \in 1 .. Len(s) : s[i] \in A
                            /\ \A a \in A : \E i \in 1 .. Len(s) : s[i] = a
  <1>1. Len(s) \in Nat /\ DOMAIN s = 1 .. Len(s) /\ \A i \in 1 .. Len(s) : s[i] \in Nat
    BY LenProperties, ElementOfSeq
  <1>2. Increasing(s) <=> \A i, j \in 1 .. Len(s) : i < j => s[i] < s[j]
    BY <1>1 DEF Increasing
  <1>3. ToSet(s) = A <=> /\ \A i \in 1 .. Len(s) : s[i] \in A
                         /\ \A a \in A : \E i \in 1 .. Len(s) : s[i] = a
    BY <1>1 DEF ToSet
  <1> QED BY <1>1, <1>2, <1>3 DEF Lists

\* What is listed is a set of numbers.
LEMMA ListsNumbers ==
  ASSUME NEW s, NEW A, Lists(s, A)
  PROVE  s \in Seq(Nat) /\ A \in SUBSET Nat /\ (s = <<>> <=> A = {})
  <1>1. s \in Seq(Nat)
    BY DEF Lists
  <1>2. \A a \in A : a \in Nat
    BY <1>1, ListsDef
  <1>3. ASSUME s = <<>> PROVE A = {}
    <2>1. Len(s) = 0
      BY <1>3, EmptySeq
    <2>2. \A a \in A : \E i \in 1 .. Len(s) : s[i] = a
      BY <1>1, ListsDef
    <2> QED BY <2>1, <2>2
  <1>4. A = {} => s = <<>>
    <2>1. s # <<>> => Len(s) \in Nat \ {0}
      BY <1>1, EmptySeq
    <2>2. s # <<>> => s[1] \in A
      BY <1>1, <2>1, ListsDef
    <2> QED BY <2>2
  <1> QED BY <1>1, <1>2, <1>3, <1>4

\* Of two sequences that list the same set, neither goes on after the other or
\* differs from it.
LEMMA ListsPrefix ==
  ASSUME NEW s, NEW r, NEW A, Lists(s, A), Lists(r, A)
  PROVE  \A i \in 1 .. Len(s) : i <= Len(r) /\ s[i] = r[i]
  <1>0. s \in Seq(Nat) /\ r \in Seq(Nat)
    BY ListsNumbers
  <1>s. /\ Len(s) \in Nat
        /\ \A i \in 1 .. Len(s) : s[i] \in Nat /\ s[i] \in A
        /\ \A i, j \in 1 .. Len(s) : i < j => s[i] < s[j]
        /\ \A a \in A : \E i \in 1 .. Len(s) : s[i] = a
    BY <1>0, ListsDef
  <1>r. /\ Len(r) \in Nat
        /\ \A i \in 1 .. Len(r) : r[i] \in Nat /\ r[i] \in A
        /\ \A i, j \in 1 .. Len(r) : i < j => r[i] < r[j]
        /\ \A a \in A : \E i \in 1 .. Len(r) : r[i] = a
    BY <1>0, ListsDef
  <1> DEFINE Bad == {i \in 1 .. Len(s) : ~(i <= Len(r) /\ s[i] = r[i])}
  <1>1. SUFFICES ASSUME Bad # {} PROVE FALSE
    OBVIOUS
  <1>2. PICK i \in Bad : \A y \in Bad : i <= y
    <2>1. Bad \in SUBSET Nat
      BY <1>s
    <2> HIDE DEF Bad
    <2> QED BY <1>1, <2>1, LeastExists
  <1>3. i \in 1 .. Len(s) /\ \A k \in 1 .. Len(s) : k < i => k <= Len(r) /\ s[k] = r[k]
    BY <1>2, <1>s
  <1> HIDE DEF Bad
  <1>4. PICK j \in 1 .. Len(r) : r[j] = s[i]
    BY <1>3, <1>s, <1>r
  <1>5. j >= i
    <2>1. SUFFICES ASSUME j < i PROVE FALSE
      BY <1>s, <1>r, <1>3
    <2>2. j \in 1 .. Len(s) /\ s[j] = r[j] /\ s[j] < s[i]
      BY <1>s, <1>r, <1>3, <2>1
    <2> QED BY <2>2, <1>4, <1>s
  <1>6. i \in 1 .. Len(r)
    BY <1>3, <1>5, <1>r, <1>s
  <1>7. PICK k \in 1 .. Len(s) : s[k] = r[i]
    BY <1>6, <1>s, <1>r
  <1>8. k >= i
    <2>1. SUFFICES ASSUME k < i PROVE FALSE
      BY <1>s, <1>3
    <2>2. k \in 1 .. Len(r) /\ s[k] = r[k] /\ r[k] < r[i]
      BY <1>r, <1>s, <1>3, <1>6, <2>1
    <2> QED BY <2>2, <1>7, <1>r, <1>6
  <1>9. r[i] = r[j] \/ r[i] < r[j]
    <2>1. CASE i = j
      BY <2>1
    <2>2. CASE i < j
      BY <2>2, <1>6, <1>r
    <2> QED BY <2>1, <2>2, <1>5, <1>6
  <1>10. s[i] = s[k] \/ s[i] < s[k]
    <2>1. CASE i = k
      BY <2>1
    <2>2. CASE i < k
      BY <2>2, <1>3, <1>s
    <2> QED BY <2>1, <2>2, <1>8, <1>3
  <1>11. s[i] \in Nat /\ r[i] \in Nat
    BY <1>3, <1>6, <1>s, <1>r
  <1>12. s[i] = r[i]
    BY <1>9, <1>10, <1>11, <1>4, <1>7
  <1> QED BY <1>2, <1>6, <1>12 DEF Bad

\* One sequence lists a set.
LEMMA ListsUnique ==
  ASSUME NEW s, NEW r, NEW A, Lists(s, A), Lists(r, A)
  PROVE  s = r
  <1>1. s \in Seq(Nat) /\ r \in Seq(Nat) /\ Len(s) \in Nat /\ Len(r) \in Nat
    BY ListsNumbers, ListsDef
  <1>2. /\ \A i \in 1 .. Len(s) : i <= Len(r) /\ s[i] = r[i]
        /\ \A i \in 1 .. Len(r) : i <= Len(s) /\ r[i] = s[i]
    BY ListsPrefix
  <1>3. Len(s) = Len(r)
    BY <1>1, <1>2
  <1> QED BY <1>1, <1>2, <1>3, SeqEqual

\* Nothing, and one number.
LEMMA ListsFew ==
  ASSUME NEW n \in Nat
  PROVE  Lists(<<>>, {}) /\ Lists(<<n>>, {n})
  <1>1. Lists(<<>>, {})
    <2>1. <<>> \in Seq(Nat) /\ Len(<<>>) = 0
      BY EmptySeq
    <2>2. \A i \in 1 .. Len(<<>>) : FALSE
      BY <2>1
    <2> QED BY <2>1, <2>2, ListsDef
  <1>2. Lists(<<n>>, {n})
    <2>1. <<n>> \in Seq(Nat) /\ Len(<<n>>) = 1 /\ <<n>>[1] = n
      OBVIOUS
    <2>2. \A i \in 1 .. Len(<<n>>) : i = 1
      BY <2>1
    <2>3. Increasing(<<n>>) /\ ToSet(<<n>>) = {n}
      BY <2>1, <2>2 DEF Increasing, ToSet
    <2> QED BY <2>1, <2>3 DEF Lists
  <1> QED BY <1>1, <1>2

\* A listing of what comes first and one of what comes after.
LEMMA ListsConcat ==
  ASSUME NEW s, NEW r, NEW A, NEW B, Lists(s, A), Lists(r, B),
         \A a \in A, b \in B : a < b
  PROVE  Lists(s \o r, A \cup B)
  <1> DEFINE q == s \o r
             m == Len(s)
             n == Len(r)
  <1>0. s \in Seq(Nat) /\ r \in Seq(Nat)
    BY ListsNumbers
  <1>s. /\ m \in Nat
        /\ \A i \in 1 .. m : s[i] \in Nat /\ s[i] \in A
        /\ \A i, j \in 1 .. m : i < j => s[i] < s[j]
        /\ \A a \in A : \E i \in 1 .. m : s[i] = a
    BY <1>0, ListsDef
  <1>r. /\ n \in Nat
        /\ \A i \in 1 .. n : r[i] \in Nat /\ r[i] \in B
        /\ \A i, j \in 1 .. n : i < j => r[i] < r[j]
        /\ \A a \in B : \E i \in 1 .. n : r[i] = a
    BY <1>0, ListsDef
  <1>q. /\ q \in Seq(Nat) /\ Len(q) = m + n
        /\ \A i \in 1 .. m + n : q[i] = IF i <= m THEN s[i] ELSE r[i - m]
    BY <1>0, ConcatProperties
  <1> HIDE DEF q, m, n
  <1>1. \A i \in 1 .. m : i \in 1 .. m + n /\ q[i] = s[i]
    BY <1>q, <1>s, <1>r
  <1>2. \A i \in 1 .. n : m + i \in 1 .. m + n /\ q[m + i] = r[i]
    BY <1>q, <1>s, <1>r
  <1>3. \A i \in 1 .. m + n : i \in 1 .. m \/ (i - m \in 1 .. n /\ q[i] = r[i - m])
    BY <1>q, <1>s, <1>r
  <1>4. ASSUME NEW i \in 1 .. m + n, NEW j \in 1 .. m + n, i < j PROVE q[i] < q[j]
    <2>1. CASE j \in 1 .. m
      BY <2>1, <1>4, <1>1, <1>s
    <2>2. CASE i \in 1 .. m /\ j \notin 1 .. m
      BY <2>2, <1>1, <1>3, <1>s, <1>r
    <2>3. CASE i \notin 1 .. m /\ j \notin 1 .. m
      <3>1. i - m \in 1 .. n /\ j - m \in 1 .. n /\ i - m < j - m
        BY <2>3, <1>3, <1>4, <1>s, <1>r
      <3> QED BY <3>1, <2>3, <1>3, <1>r
    <2>4. i \in 1 .. m \/ j \notin 1 .. m \/ j \in 1 .. m
      OBVIOUS
    <2> QED BY <2>1, <2>2, <2>3
  <1>5. \A i \in 1 .. m + n : q[i] \in A \cup B
    BY <1>1, <1>3, <1>s, <1>r
  <1>6. \A a \in A \cup B : \E i \in 1 .. m + n : q[i] = a
    BY <1>1, <1>2, <1>s, <1>r
  <1>7. Lists(q, A \cup B)
    BY <1>q, <1>4, <1>5, <1>6, ListsDef
  <1> QED BY <1>7 DEF q

\* Every finite set of numbers is listed, by a sequence as long as it is large.
LEMMA ListsExists ==
  ASSUME NEW A \in SUBSET Nat, IsFiniteSet(A)
  PROVE  \E s : Lists(s, A) /\ Len(s) = Cardinality(A)
  <1> DEFINE Listed(B) == \E s : Lists(s, B) /\ Len(s) = Cardinality(B)
             Bad == {n \in Nat : \E B \in SUBSET Nat :
                       IsFiniteSet(B) /\ Cardinality(B) = n /\ ~Listed(B)}
  <1>1. SUFFICES Bad = {}
    <2>1. Cardinality(A) \in Nat
      BY FS_CardinalityType
    <2> QED BY <1>1, <2>1
  <1>2. SUFFICES ASSUME Bad # {} PROVE FALSE
    OBVIOUS
  <1>3. PICK n \in Bad : \A m \in Bad : n <= m
    <2>1. Bad \in SUBSET Nat
      OBVIOUS
    <2> HIDE DEF Bad
    <2> QED BY <1>2, <2>1, LeastExists
  <1>4. PICK B \in SUBSET Nat : IsFiniteSet(B) /\ Cardinality(B) = n /\ ~Listed(B)
    BY <1>3
  <1>5. B # {}
    <2>1. Lists(<<>>, {}) /\ Len(<<>>) = 0 /\ Cardinality({}) = 0
      BY ListsFew, EmptySeq, FS_EmptySet
    <2> QED BY <2>1, <1>4
  <1>6. PICK b \in B : \A y \in B : b <= y
    BY <1>5, LeastExists
  <1> DEFINE C == B \ {b}
  <1>7. C \in SUBSET Nat /\ IsFiniteSet(C) /\ Cardinality(C) = n - 1 /\ n \in Nat
    BY <1>4, FS_RemoveElement, FS_CardinalityType
  <1>8. PICK r : Lists(r, C) /\ Len(r) = n - 1
    <2>1. n - 1 \in Nat
      <3>1. Cardinality(C) \in Nat
        BY <1>7, FS_CardinalityType
      <3> QED BY <3>1, <1>7
    <2>2. n - 1 \notin Bad
      BY <1>3, <1>7
    <2> QED BY <2>1, <2>2, <1>7
  <1>9. Lists(<<b>> \o r, {b} \cup C)
    <2>1. \A x \in {b}, c \in C : x < c
      BY <1>6
    <2> HIDE DEF C
    <2> QED BY <2>1, <1>8, ListsFew, ListsConcat
  <1>10. Len(<<b>> \o r) = n
    <2>1. r \in Seq(Nat) /\ <<b>> \in Seq(Nat) /\ Len(<<b>>) = 1
      BY <1>8, ListsNumbers
    <2> QED BY <2>1, <1>7, <1>8, ConcatProperties
  <1>11. {b} \cup C = B
    OBVIOUS
  <1> QED BY <1>4, <1>9, <1>10, <1>11

\* Sorted lists a finite set of numbers.
LEMMA SortedLists ==
  ASSUME NEW A \in SUBSET Nat, IsFiniteSet(A)
  PROVE  Lists(Sorted(A), A)
  <1> DEFINE n == Cardinality(A)
             s == Sorted(A)
  <1>1. n \in Nat
    BY FS_CardinalityType
  <1>2. PICK r : Lists(r, A) /\ Len(r) = n
    BY ListsExists
  <1>3. r \in [1 .. n -> A] /\ Increasing(r)
    <2>1. r \in Seq(Nat) /\ r \in [1 .. n -> Nat]
      BY <1>2, LenProperties DEF Lists
    <2>2. \A i \in 1 .. n : r[i] \in A
      BY <1>2, <2>1, ListsDef
    <2> QED BY <1>2, <2>1, <2>2 DEF Lists
  <1>4. s \in [1 .. n -> A] /\ Increasing(s)
    BY <1>3 DEF Sorted
  <1> HIDE DEF s, n
  <1>5. s \in Seq(Nat)
    <2>1. s \in [1 .. n -> Nat]
      BY <1>4
    <2> QED BY <1>1, <2>1, SeqDef
  <1>6. s \in Injection(1 .. n, A)
    <2>1. \A i, j \in 1 .. n : i < j => s[i] < s[j]
      BY <1>4 DEF Increasing
    <2>2. \A i \in 1 .. n : s[i] \in Nat
      BY <1>4
    <2>3. ASSUME NEW i \in 1 .. n, NEW j \in 1 .. n, s[i] = s[j] PROVE i = j
      BY <1>1, <2>1, <2>2, <2>3
    <2> QED BY <1>4, <2>3 DEF Injection, IsInjective
  <1>7. s \in Surjection(1 .. n, A)
    <2>1. Cardinality(1 .. n) = Cardinality(A)
      BY <1>1, FS_Interval DEF n
    <2> QED BY <1>6, <2>1, FS_Injection
  <1>8. ToSet(s) = A
    BY <1>4, <1>7 DEF Surjection, ToSet
  <1> QED BY <1>4, <1>5, <1>8 DEF Lists, s

\* What lists a set is what Sorted gives.
LEMMA SortedIs ==
  ASSUME NEW s, NEW A, IsFiniteSet(A), Lists(s, A)
  PROVE  Sorted(A) = s
  BY ListsNumbers, SortedLists, ListsUnique

\* The first of a listing is the least, the last the greatest, and the tail
\* lists the others.
LEMMA ListsEnds ==
  ASSUME NEW s, NEW A, Lists(s, A), A # {}
  PROVE  /\ Head(s) \in A /\ \A a \in A : Head(s) <= a
         /\ Last(s) \in A /\ \A a \in A : a <= Last(s)
         /\ Lists(Tail(s), A \ {Head(s)})
         /\ s = <<Head(s)>> \o Tail(s)
  <1>1. s \in Seq(Nat) /\ s # <<>> /\ Len(s) \in Nat \ {0}
    BY ListsNumbers, EmptySeq
  <1> DEFINE n == Len(s)
  <1>2. /\ \A i, j \in 1 .. n : i < j => s[i] < s[j]
        /\ \A i \in 1 .. n : s[i] \in A
        /\ \A a \in A : \E i \in 1 .. n : s[i] = a
        /\ \A i \in 1 .. n : s[i] \in Nat
    BY <1>1, ListsDef
  <1>3. Head(s) = s[1] /\ Last(s) = s[n]
    BY <1>1 DEF Last
  <1>4. 1 \in 1 .. n /\ n \in 1 .. n
    BY <1>1
  <1>5. ASSUME NEW a \in A PROVE Head(s) <= a /\ a <= Last(s)
    <2>1. PICK i \in 1 .. n : s[i] = a
      BY <1>2
    <2>2. i = 1 \/ s[1] < s[i]
      BY <1>2, <1>4
    <2>3. i = n \/ s[i] < s[n]
      BY <1>1, <1>2, <1>4
    <2>4. s[1] \in Nat /\ s[i] \in Nat /\ s[n] \in Nat
      BY <1>2, <1>4
    <2> QED BY <1>3, <2>1, <2>2, <2>3, <2>4
  <1>6. Lists(Tail(s), A \ {Head(s)})
    <2> DEFINE r == Tail(s)
    <2>1. /\ r \in Seq(Nat) /\ Len(r) = n - 1
          /\ \A i \in 1 .. n - 1 : r[i] = s[i + 1]
      BY <1>1, HeadTailProperties
    <2> HIDE DEF r
    <2>2. \A i \in 1 .. n - 1 : i + 1 \in 1 .. n
      BY <1>1
    <2>3. ASSUME NEW i \in 1 .. n - 1, NEW j \in 1 .. n - 1, i < j PROVE r[i] < r[j]
      <3>1. r[i] = s[i + 1] /\ r[j] = s[j + 1]
        BY <2>1
      <3>2. i + 1 \in 1 .. n /\ j + 1 \in 1 .. n
        BY <2>2
      <3>3. i + 1 < j + 1
        BY <2>3
      <3> HIDE DEF n
      <3> QED BY <3>1, <3>2, <3>3, <1>2
    <2>4. ASSUME NEW i \in 1 .. n - 1 PROVE r[i] \in A /\ r[i] # s[1]
      <3>1. r[i] = s[i + 1] /\ s[1] < s[i + 1] /\ s[1] \in Nat
        BY <1>1, <1>2, <1>4, <2>1, <2>2
      <3> QED BY <3>1, <1>2, <2>2
    <2>5. ASSUME NEW a \in A \ {s[1]} PROVE \E i \in 1 .. n - 1 : r[i] = a
      <3>1. PICK i \in 1 .. n : s[i] = a
        BY <1>2
      <3>2. i # 1
        BY <3>1
      <3>3. i - 1 \in 1 .. n - 1 /\ (i - 1) + 1 = i
        BY <1>1, <3>1, <3>2
      <3>4. r[i - 1] = s[(i - 1) + 1]
        BY <2>1, <3>3
      <3>5. r[i - 1] = a
        BY <3>1, <3>3, <3>4
      <3> QED BY <3>3, <3>5
    <2>6. Lists(r, A \ {s[1]})
      <3>1. /\ \A i, j \in 1 .. Len(r) : i < j => r[i] < r[j]
            /\ \A i \in 1 .. Len(r) : r[i] \in A \ {s[1]}
            /\ \A a \in A \ {s[1]} : \E i \in 1 .. Len(r) : r[i] = a
        BY <2>1, <2>3, <2>4, <2>5
      <3> QED BY <2>1, <3>1, ListsDef
    <2> QED BY <2>6, <1>3 DEF r
  <1>7. Head(s) \in A /\ Last(s) \in A
    BY <1>2, <1>3, <1>4
  <1>8. s = <<Head(s)>> \o Tail(s)
    <2>1. s[1] \in Nat
      BY <1>2, <1>4
    <2>2. Lists(<<Head(s)>> \o Tail(s), {Head(s)} \cup (A \ {Head(s)}))
      <3>1. \A x \in {Head(s)}, c \in A \ {Head(s)} : x < c
        <4>1. ASSUME NEW c \in A \ {Head(s)} PROVE Head(s) < c
          <5>1. Head(s) <= c /\ c # Head(s) /\ c \in Nat
            BY <1>5, ListsNumbers
          <5> QED BY <5>1, <2>1, <1>3
        <4> QED BY <4>1
      <3> QED BY <3>1, <1>3, <1>6, <2>1, ListsFew, ListsConcat
    <2>3. {Head(s)} \cup (A \ {Head(s)}) = A
      BY <1>7
    <2> QED BY <2>2, <2>3, ListsUnique
  <1> QED BY <1>5, <1>6, <1>7, <1>8

\* The first n of a sequence are its own.
LEMMA TakeDef ==
  ASSUME NEW s \in Seq(Nat), NEW n \in Nat
  PROVE  /\ Take(s, n) \in Seq(Nat)
         /\ Len(s) <= n => Take(s, n) = s
         /\ Len(s) > n => Len(Take(s, n)) = n
         /\ \A i \in 1 .. Len(Take(s, n)) : i \in 1 .. Len(s) /\ Take(s, n)[i] = s[i]
  <1>1. Len(s) \in Nat
    BY LenProperties
  <1>2. CASE Len(s) <= n
    <2>1. Take(s, n) = s
      BY <1>2 DEF Take
    <2> QED BY <1>1, <1>2, <2>1
  <1>3. CASE Len(s) > n
    <2>1. Take(s, n) = SubSeq(s, 1, n)
      BY <1>1, <1>3 DEF Take
    <2>2. \A i \in 1 .. n : i \in 1 .. Len(s) /\ s[i] \in Nat
      <3>1. \A i \in 1 .. n : i \in 1 .. Len(s)
        BY <1>1, <1>3
      <3> QED BY <3>1, ElementOfSeq
    <2>3. /\ SubSeq(s, 1, n) \in Seq(Nat) /\ Len(SubSeq(s, 1, n)) = n
          /\ \A i \in 1 .. n : SubSeq(s, 1, n)[i] = s[i]
      <3>1. \A i \in 1 .. n : s[i] \in Nat
        BY <2>2
      <3>2. /\ SubSeq(s, 1, n) \in Seq(Nat)
            /\ Len(SubSeq(s, 1, n)) = IF 1 <= n THEN n - 1 + 1 ELSE 0
            /\ \A i \in 1 .. n - 1 + 1 : SubSeq(s, 1, n)[i] = s[1 + i - 1]
        BY <3>1, SubSeqProperties
      <3>3. \A i \in 1 .. n : i \in 1 .. n - 1 + 1 /\ 1 + i - 1 = i
        OBVIOUS
      <3> QED BY <3>2, <3>3
    <2> QED BY <1>1, <1>3, <2>1, <2>2, <2>3
  <1> QED BY <1>1, <1>2, <1>3

\* A sequence is its first n and the others.
LEMMA TakeRest ==
  ASSUME NEW s \in Seq(Nat), NEW n \in Nat
  PROVE  \E r \in Seq(Nat) : s = Take(s, n) \o r
  <1> DEFINE HasRest == \E r \in Seq(Nat) : s = Take(s, n) \o r
  <1> SUFFICES HasRest
    BY Zenon
  <1>1. Len(s) \in Nat
    BY LenProperties
  <1>2. CASE Len(s) <= n
    <2>1. Take(s, n) = s
      BY <1>2 DEF Take
    <2>2. s = s \o <<>> /\ <<>> \in Seq(Nat)
      BY EmptySeq, ConcatEmptySeq
    <2> QED BY <2>1, <2>2, Zenon
  <1>3. CASE Len(s) > n
    <2>1. Take(s, n) = SubSeq(s, 1, n)
      BY <1>1, <1>3 DEF Take
    <2>2. SubSeq(s, n + 1, Len(s)) \in Seq(Nat)
      <3>1. \A i \in n + 1 .. Len(s) : i \in 1 .. Len(s)
        OBVIOUS
      <3>2. \A i \in n + 1 .. Len(s) : s[i] \in Nat
        BY <3>1, ElementOfSeq
      <3> QED BY <1>1, <3>2, SubSeqProperties
    <2>3. SubSeq(s, 1, n) \o SubSeq(s, n + 1, Len(s)) = SubSeq(s, 1, Len(s))
      <3>1. 1 \in 1 .. Len(s) + 1 /\ n \in 1 - 1 .. Len(s) /\ Len(s) \in n .. Len(s)
        BY <1>1, <1>3
      <3> QED BY <3>1, ConcatAdjacentSubSeq
    <2>4. SubSeq(s, 1, Len(s)) = s
      BY SubSeqFull
    <2>5. s = Take(s, n) \o SubSeq(s, n + 1, Len(s))
      BY <2>1, <2>3, <2>4, Zenon
    <2> QED BY <2>2, <2>5, Zenon
  <1> HIDE DEF HasRest
  <1> QED BY <1>1, <1>2, <1>3

\* What comes behind the n-th does not matter for the first n.
LEMMA TakeConcat ==
  ASSUME NEW s \in Seq(Nat), NEW r \in Seq(Nat), NEW n \in Nat, n <= Len(s)
  PROVE  Take(s \o r, n) = Take(s, n)
  <1> DEFINE q == s \o r
  <1>1. /\ q \in Seq(Nat) /\ Len(q) = Len(s) + Len(r)
        /\ \A i \in 1 .. Len(s) + Len(r) : q[i] = IF i <= Len(s) THEN s[i] ELSE r[i - Len(s)]
        /\ Len(s) \in Nat /\ Len(r) \in Nat
    BY ConcatProperties, LenProperties
  <1> HIDE DEF q
  <1>2. Len(Take(q, n)) = n /\ Len(Take(s, n)) = n
    <2>1. /\ Len(q) <= n => Take(q, n) = q
          /\ Len(q) > n => Len(Take(q, n)) = n
          /\ Len(s) <= n => Take(s, n) = s
          /\ Len(s) > n => Len(Take(s, n)) = n
      BY <1>1, TakeDef
    <2> QED BY <1>1, <2>1
  <1>3. ASSUME NEW i \in 1 .. n PROVE Take(q, n)[i] = Take(s, n)[i]
    <2>1. /\ \A j \in 1 .. Len(Take(q, n)) : Take(q, n)[j] = q[j]
          /\ \A j \in 1 .. Len(Take(s, n)) : Take(s, n)[j] = s[j]
      BY <1>1, TakeDef
    <2>2. Take(q, n)[i] = q[i] /\ Take(s, n)[i] = s[i]
      BY <1>2, <2>1
    <2>3. i \in 1 .. Len(s) + Len(r) /\ i <= Len(s)
      BY <1>1
    <2>4. q[i] = s[i]
      BY <1>1, <2>3
    <2> QED BY <2>2, <2>4
  <1>4. Take(q, n) \in Seq(Nat) /\ Take(s, n) \in Seq(Nat)
    BY <1>1, TakeDef
  <1> QED BY <1>2, <1>3, <1>4, SeqEqual DEF q

\* Concatenation is associative: said of any S, since Seq(Nat) costs SMT much.
LEMMA Regrouped ==
  ASSUME NEW s \in Seq(Nat), NEW p \in Seq(Nat), NEW q \in Seq(Nat)
  PROVE  (s \o p) \o q = s \o (p \o q)
  <1> DEFINE S == Nat
  <1>1. s \in Seq(S) /\ p \in Seq(S) /\ q \in Seq(S)
    OBVIOUS
  <1> HIDE DEF S
  <1> QED BY <1>1, ConcatAssociative

\* The first n of a sequence and what is taken of another to fill them up.
LEMMA TakeFilled ==
  ASSUME NEW s \in Seq(Nat), NEW r \in Seq(Nat), NEW n \in Nat, Len(s) <= n
  PROVE  Take(s \o Take(r, n - Len(s)), n) = Take(s \o r, n)
  <1> DEFINE m == n - Len(s)
             p == Take(r, m)
  <1>1. Len(s) \in Nat /\ Len(r) \in Nat /\ m \in Nat
    BY LenProperties
  <1>2. CASE Len(r) <= m
    <2>1. p = r
      BY <1>1, <1>2, TakeDef
    <2> QED BY <2>1
  <1>3. CASE Len(r) > m
    <2>1. p \in Seq(Nat) /\ Len(p) = m
      BY <1>1, <1>3, TakeDef
    <2>2. PICK q \in Seq(Nat) : r = p \o q
      <3> HIDE DEF m
      <3> QED BY <1>1, TakeRest
    <2> HIDE DEF p
    <2>3. s \o r = (s \o p) \o q
      <3>1. p \in Seq(Nat)
        BY <2>1
      <3>2. (s \o p) \o q = s \o (p \o q)
        BY <3>1, Regrouped
      <3> QED BY <2>2, <3>2, Zenon
    <2>4. s \o p \in Seq(Nat) /\ Len(s \o p) = n
      BY <1>1, <2>1, ConcatProperties
    <2>5. Take((s \o p) \o q, n) = Take(s \o p, n)
      <3>1. n <= Len(s \o p)
        BY <2>4
      <3> QED BY <2>4, <3>1, TakeConcat
    <2> QED BY <2>3, <2>5 DEF p
  <1> QED BY <1>1, <1>2, <1>3

\* The first n of a listing list the least n.
LEMMA ListsTake ==
  ASSUME NEW s, NEW A, Lists(s, A), NEW n \in Nat
  PROVE  /\ ToSet(Take(s, n)) \subseteq A
         /\ Lists(Take(s, n), ToSet(Take(s, n)))
         /\ \A b \in ToSet(Take(s, n)), c \in A \ ToSet(Take(s, n)) : b < c
         /\ n > 0 /\ A # {} => ToSet(Take(s, n)) # {}
  <1>0. s \in Seq(Nat) /\ A \in SUBSET Nat
    BY ListsNumbers
  <1>1. PICK r \in Seq(Nat) : s = Take(s, n) \o r
    BY <1>0, TakeRest
  <1> DEFINE p == Take(s, n)
             B == ToSet(p)
             l == Len(p)
             k == Len(r)
  <1>2. p \in Seq(Nat)
    BY <1>0, TakeDef
  <1>3. /\ l \in Nat /\ k \in Nat /\ Len(s) = l + k
        /\ \A i \in 1 .. l : s[i] = p[i] /\ i \in 1 .. Len(s)
        /\ \A i \in 1 .. k : s[l + i] = r[i] /\ l + i \in 1 .. Len(s)
    <2>1. /\ Len(p \o r) = l + k
          /\ \A i \in 1 .. l + k : (p \o r)[i] = IF i <= l THEN p[i] ELSE r[i - l]
          /\ l \in Nat /\ k \in Nat
      BY <1>2, ConcatProperties, LenProperties
    <2> HIDE DEF p, l, k
    <2>2. Len(s) = l + k /\ \A i \in 1 .. l + k : s[i] = IF i <= l THEN p[i] ELSE r[i - l]
      BY <1>1, <2>1 DEF p
    <2>3. \A i \in 1 .. l : i \in 1 .. l + k /\ i <= l
      BY <2>1
    <2>4. \A i \in 1 .. k : l + i \in 1 .. l + k /\ ~(l + i <= l) /\ (l + i) - l = i
      BY <2>1
    <2> QED BY <2>1, <2>2, <2>3, <2>4
  <1>4. /\ \A i, j \in 1 .. Len(s) : i < j => s[i] < s[j]
        /\ \A i \in 1 .. Len(s) : s[i] \in A
        /\ \A a \in A : \E i \in 1 .. Len(s) : s[i] = a
    BY <1>0, ListsDef
  <1>5. B = {p[i] : i \in 1 .. l}
    BY <1>2, LenProperties DEF ToSet
  <1>6. B \in SUBSET A
    BY <1>3, <1>4, <1>5
  <1> HIDE DEF p, l, k, B
  <1>7. ASSUME NEW i \in 1 .. l, NEW j \in 1 .. k PROVE p[i] < r[j]
    <2>1. i < l + j
      BY <1>3
    <2> QED BY <2>1, <1>3, <1>4
  <1>8. \A a \in A : (\E i \in 1 .. l : p[i] = a) \/ (\E i \in 1 .. k : r[i] = a)
    <2>1. ASSUME NEW a \in A PROVE (\E i \in 1 .. l : p[i] = a) \/ (\E i \in 1 .. k : r[i] = a)
      <3>1. PICK i \in 1 .. Len(s) : s[i] = a
        BY <1>4
      <3>2. i \in 1 .. l \/ (i - l \in 1 .. k /\ i = l + (i - l))
        BY <1>3
      <3> QED BY <1>3, <3>1, <3>2
    <2> QED BY <2>1
  <1>9. \A i \in 1 .. l : p[i] \in Nat
    BY <1>2, ElementOfSeq DEF l
  <1>10. \A i \in 1 .. k : r[i] \in Nat
    BY ElementOfSeq DEF k
  <1>11. Lists(p, B)
    <2>1. \A i, j \in 1 .. l : i < j => p[i] < p[j]
      BY <1>3, <1>4
    <2>2. /\ \A i \in 1 .. l : p[i] \in B
          /\ \A b \in B : \E i \in 1 .. l : p[i] = b
      BY <1>5
    <2> QED BY <1>2, <2>1, <2>2, ListsDef DEF l
  <1>13. \A b \in B, c \in A \ B : b < c
    <2>1. \A c \in A \ B : \E i \in 1 .. k : r[i] = c
      BY <1>5, <1>8
    <2> QED BY <2>1, <1>5, <1>7
  <1>14. ASSUME n > 0, A # {} PROVE B # {}
    <2>1. l = n \/ l = Len(s)
      <3>1. /\ Len(s) <= n => Take(s, n) = s
            /\ Len(s) > n => Len(Take(s, n)) = n
        BY <1>0, TakeDef
      <3> QED BY <3>1, <1>3 DEF p, l
    <2>2. Len(s) > 0
      BY <1>3, <1>4, <1>14
    <2>3. 1 \in 1 .. l
      BY <1>3, <1>14, <2>1, <2>2
    <2> QED BY <2>3, <1>5
  <1> QED BY <1>6, <1>11, <1>13, <1>14 DEF p, B

-----------------------------------------------------------------------------
(* What a listing has to show.                                              *)

\* The stored children that the log does not delete, and those it creates.
Shown(t) == (StoredChildren \ Deleted(t, 0)) \cup Created(t, 0)

From(A, a) == {c \in A : c > a}

\* Children are positive numbers, finitely many.
LEMMA ChildrenFinite ==
  /\ Child \in SUBSET (Nat \ {0}) /\ IsFiniteSet(Child)
  /\ \A A \in SUBSET Child : A \in SUBSET Nat /\ IsFiniteSet(A)
  <1>1. Child \in SUBSET (Nat \ {0})
    <2>1. \A k \in Key : k[1] \in Nat \ {0}
      BY ShimListAssumption
    <2> QED BY <2>1 DEF Child
  <1>2. IsFiniteSet(Child)
    <2> DEFINE f == [k \in Key |-> k[1]]
    <2>1. f \in Surjection(Key, Child)
      <3>1. f \in [Key -> Child]
        BY DEF Child
      <3>2. \A c \in Child : \E k \in Key : f[k] = c
        BY DEF Child
      <3> QED BY <3>1, <3>2 DEF Surjection
    <2> HIDE DEF f
    <2> QED BY <2>1, ShimListAssumption, FS_Surjection
  <1>3. \A A \in SUBSET Child : IsFiniteSet(A)
    BY <1>2, FS_Subset
  <1> QED BY <1>1, <1>2, <1>3

\* The sets that listings are made of.
LEMMA Parts ==
  ASSUME NEW t \in Tx, NEW a \in Nat
  PROVE  /\ StoredChildren \in SUBSET Child
         /\ Created(t, a) \in SUBSET Child /\ Deleted(t, a) \in SUBSET Child
         /\ Created(t, a) \cap Deleted(t, a) = {}
         /\ Created(t, a) = From(Created(t, 0), a)
         /\ Deleted(t, a) = From(Deleted(t, 0), a)
         /\ Shown(t) \in SUBSET Child
  <1>1. StoredChildren \in SUBSET Child
    BY DEF StoredChildren, Child
  <1>2. Created(t, a) \in SUBSET Child /\ Deleted(t, a) \in SUBSET Child
    BY DEF Created, Deleted
  <1>3. Created(t, a) \cap Deleted(t, a) = {}
    BY DEF Created, Deleted
  <1>4. \A c \in Child : c \in Nat /\ c > 0
    BY ChildrenFinite
  <1>5. Created(t, a) = From(Created(t, 0), a)
    BY <1>4 DEF Created, From
  <1>6. Deleted(t, a) = From(Deleted(t, 0), a)
    BY <1>4 DEF Deleted, From
  <1>7. Shown(t) \in SUBSET Child
    BY <1>1 DEF Shown, Created
  <1> QED BY <1>1, <1>2, <1>3, <1>5, <1>6, <1>7

\* What the log of a transaction does to a child is what its last mark does.
LEMMA ModLast ==
  ASSUME TypeOK, NEW t \in Tx, NEW c
  PROVE  \/ Marks(t, c) = {} /\ Mod(t, c) = "none"
         \/ \E i \in Marks(t, c) : /\ \A j \in Marks(t, c) : j <= i
                                   /\ Mod(t, c) = Mark(log[t][i])
  <1> DEFINE I == Marks(t, c)
  <1>1. log[t] \in Seq(Action) /\ Len(log[t]) \in Nat /\ DOMAIN log[t] = 1 .. Len(log[t])
    BY LenProperties DEF TypeOK
  <1>2. I \in SUBSET (1 .. Len(log[t]))
    BY <1>1 DEF Marks
  <1>3. CASE I = {}
    BY <1>3 DEF Mod
  <1>4. CASE I # {}
    <2>1. LastOf(I) \in I /\ \A j \in I : j <= LastOf(I)
      <3> HIDE DEF I
      <3> QED BY <1>1, <1>2, <1>4, LastExists
    <2>2. Mod(t, c) = Mark(log[t][LastOf(I)])
      BY <1>4 DEF Mod
    <2> QED BY <2>1, <2>2
  <1> QED BY <1>3, <1>4

\* A child that is a key itself has that key only, and every write to it
\* leaves a mark.
LEMMA LeafMarks ==
  ASSUME TypeOK, NEW t \in Tx, NEW m \in Key, m[2] = 0
  PROVE  /\ \A k \in Key : k[1] = m[1] => k = m
         /\ Marks(t, m[1]) = WritesTo(log[t], 0, m)
         /\ \A i \in Marks(t, m[1]) :
              /\ log[t][i].val # Absent => Mark(log[t][i]) = "created"
              /\ log[t][i].val = Absent => Mark(log[t][i]) = "deleted"
  <1>1. \A k \in Key : k = <<k[1], k[2]>>
    BY ShimListAssumption
  <1>2. \A k \in Key : k[1] = m[1] => k = m
    BY <1>1, ShimListAssumption
  <1>3. /\ log[t] \in Seq(Action) /\ Len(log[t]) \in Nat /\ DOMAIN log[t] = 1 .. Len(log[t])
        /\ \A i \in 1 .. Len(log[t]) : log[t][i] \in Action
    BY LenProperties, ElementOfSeq DEF TypeOK
  <1>4. \A i \in 1 .. Len(log[t]) : log[t][i].key \in Key
    BY <1>3 DEF Action
  <1>5. ASSUME NEW i \in 1 .. Len(log[t]), log[t][i].key[1] = m[1]
        PROVE  /\ log[t][i].key = m
               /\ log[t][i].val # Absent => Mark(log[t][i]) = "created"
               /\ log[t][i].val = Absent => Mark(log[t][i]) = "deleted"
    BY <1>2, <1>4, <1>5 DEF Mark
  <1>6. Marks(t, m[1]) = {i \in 1 .. Len(log[t]) : log[t][i].key = m}
    BY <1>3, <1>5 DEF Marks
  <1>7. WritesTo(log[t], 0, m) = {i \in 1 .. Len(log[t]) : log[t][i].key = m}
    BY DEF WritesTo
  <1> QED BY <1>2, <1>5, <1>6, <1>7

\* What Get answers for a key.
LEMMA OverlayOf ==
  ASSUME NEW t \in Tx, NEW m \in Key
  PROVE  Overlay(store, log[t], 0)[m] =
           IF LastWrite(log[t], 0, m) = Untouched THEN store[m] ELSE LastWrite(log[t], 0, m)
  BY DEF Overlay

\* A key that a listing has to show is one that Get finds.
LEMMA ShownLeafVisible ==
  ASSUME TypeOK, NEW t \in Tx, NEW c \in Shown(t) \cap Leaf
  PROVE  c \in Visible(t)
  <1>1. PICK m \in Key : m[1] = c /\ m[2] = 0
    BY DEF Leaf
  <1> DEFINE l == log[t]
             I == Marks(t, c)
  <1>2. l \in Seq(Action)
    BY DEF TypeOK
  <1>3. /\ \A k \in Key : k[1] = c => k = m
        /\ I = WritesTo(l, 0, m)
        /\ \A i \in I : /\ l[i].val # Absent => Mark(l[i]) = "created"
                        /\ l[i].val = Absent => Mark(l[i]) = "deleted"
    BY <1>1, LeafMarks
  <1>4. \A i \in I : l[i].val \in Entry /\ l[i].val # Untouched
    <2>1. \A i \in I : i \in 1 .. Len(l)
      BY <1>2, LenProperties DEF Marks
    <2>2. \A i \in I : l[i] \in Action
      BY <1>2, <2>1, ElementOfSeq
    <2> QED BY <2>2, ShimTxAssumption DEF Action, Entry
  <1>5. CASE c \in Created(t, 0)
    <2>1. Mod(t, c) = "created"
      BY <1>5 DEF Created
    <2>2. PICK i \in I : (\A j \in I : j <= i) /\ Mark(l[i]) = "created"
      BY <2>1, ModLast
    <2>3. l[i].val # Absent
      BY <1>3, <2>2
    <2>4. LastWrite(l, 0, m) = l[i].val
      BY <1>2, <1>3, <2>2, LastWriteDef
    <2>5. Overlay(store, l, 0)[m] # Absent
      BY <1>4, <2>3, <2>4, OverlayOf
    <2> QED BY <1>1, <2>5 DEF Visible
  <1>6. CASE c \notin Created(t, 0)
    <2>1. c \in StoredChildren /\ c \notin Deleted(t, 0)
      BY <1>6 DEF Shown
    <2>2. PICK k \in Key : k[1] = c /\ store[k] # Absent
      BY <2>1 DEF StoredChildren
    <2>3. k = m
      BY <1>3, <2>2
    <2>4. c \in Child /\ c > 0
      <3>1. c \in Child
        BY <2>1 DEF StoredChildren, Child
      <3> QED BY <3>1, ChildrenFinite
    <2>5. Mod(t, c) # "created" /\ Mod(t, c) # "deleted"
      BY <1>6, <2>1, <2>4 DEF Created, Deleted
    <2>6. I = {}
      <3>1. \A i \in I : Mark(l[i]) \in {"created", "deleted"}
        BY <1>3
      <3> QED BY <2>5, <3>1, ModLast
    <2>7. LastWrite(l, 0, m) = Untouched
      BY <1>2, <1>3, <2>6, LastWriteDef
    <2>8. Overlay(store, l, 0)[m] # Absent
      BY <2>2, <2>3, <2>7, OverlayOf
    <2> QED BY <1>1, <2>8 DEF Visible
  <1> QED BY <1>5, <1>6

\* What Get finds is in a child that a listing has to show.
LEMMA VisibleShown ==
  ASSUME TypeOK, NEW t \in Tx
  PROVE  Visible(t) \subseteq Shown(t)
  <1> SUFFICES ASSUME NEW c \in Visible(t), c \notin Shown(t) PROVE FALSE
    OBVIOUS
  <1> DEFINE l == log[t]
  <1>1. PICK k \in Key : k[1] = c /\ Overlay(store, l, 0)[k] # Absent
    BY DEF Visible
  <1>2. c \in Child /\ c > 0
    BY <1>1, ChildrenFinite DEF Child
  <1>3. l \in Seq(Action) /\ Len(l) \in Nat /\ DOMAIN l = 1 .. Len(l)
    BY LenProperties DEF TypeOK
  <1>4. Mod(t, c) # "created"
    BY <1>2 DEF Shown, Created
  <1>5. CASE Mod(t, c) = "deleted"
    <2>1. PICK i \in Marks(t, c) : (\A j \in Marks(t, c) : j <= i) /\ Mark(l[i]) = "deleted"
      BY <1>5, ModLast
    <2>2. i \in 1 .. Len(l) /\ l[i].key[1] = c
      BY <1>3, <2>1 DEF Marks
    <2>3. l[i].val = Absent /\ l[i].key[2] = 0
      BY <2>1 DEF Mark
    <2>4. l[i].key \in Key
      <3>1. l[i] \in Action
        BY <1>3, <2>2, ElementOfSeq
      <3> QED BY <3>1 DEF Action
    <2>5. k = l[i].key /\ k[2] = 0
      BY <1>1, <2>2, <2>3, <2>4, LeafMarks
    <2>6. Marks(t, c) = WritesTo(l, 0, k)
      BY <1>1, <2>5, LeafMarks
    <2>7. LastWrite(l, 0, k) = Absent
      BY <1>3, <2>1, <2>3, <2>6, LastWriteDef
    <2> QED BY <1>1, <2>7, OverlayOf, ShimTxAssumption
  <1>6. CASE Mod(t, c) # "deleted"
    <2>1. store[k] = Absent
      BY <1>1, <1>2, <1>6 DEF Shown, StoredChildren, Deleted
    <2>2. LastWrite(l, 0, k) # Untouched /\ LastWrite(l, 0, k) # Absent
      BY <1>1, <2>1, OverlayOf
    <2>3. WritesTo(l, 0, k) # {}
      BY <1>3, <2>2, LastWriteDef
    <2>4. PICK i \in WritesTo(l, 0, k) : \A j \in WritesTo(l, 0, k) : j <= i
      <3>1. WritesTo(l, 0, k) \in SUBSET (1 .. Len(l))
        BY <1>3 DEF WritesTo
      <3> QED BY <1>3, <2>3, <3>1, LastExists
    <2>5. LastWrite(l, 0, k) = l[i].val
      BY <1>3, <2>4, LastWriteDef
    <2>6. i \in Marks(t, c)
      <3>1. i \in 1 .. Len(l) /\ l[i].key = k
        BY <1>3 DEF WritesTo
      <3>2. Mark(l[i]) = "created"
        BY <2>2, <2>5 DEF Mark
      <3> QED BY <1>1, <1>3, <3>1, <3>2 DEF Marks
    <2>7. PICK j \in Marks(t, c) : Mod(t, c) = Mark(l[j])
      BY <2>6, ModLast
    <2>8. Mark(l[j]) # "ignored"
      BY <2>7 DEF Marks
    <2> QED BY <1>4, <1>6, <2>7, <2>8 DEF Mark
  <1> QED BY <1>5, <1>6

-----------------------------------------------------------------------------
(* Iterations.                                                              *)

\* Induction up to n, for a set.
LEMMA Upward ==
  ASSUME NEW n \in Nat, NEW P, 0 \in P, \A i \in 1 .. n : i - 1 \in P => i \in P
  PROVE  \A i \in 0 .. n : i \in P
  <1> DEFINE Bad == {i \in 0 .. n : i \notin P}
  <1> SUFFICES ASSUME Bad # {} PROVE FALSE
    OBVIOUS
  <1>1. PICK i \in Bad : \A y \in Bad : i <= y
    <2>1. Bad \in SUBSET Nat
      OBVIOUS
    <2> HIDE DEF Bad
    <2> QED BY <2>1, LeastExists
  <1>2. i \in 1 .. n
    OBVIOUS
  <1>3. i - 1 \in P
    BY <1>1, <1>2
  <1> QED BY <1>2, <1>3

\* n steps that stay in V, and what they lead to from x.
Steps(n, V) == [1 .. n -> [V -> V]]
Leads(n, V, F, x, g) == /\ g \in [0 .. n -> V] /\ g[0] = x
                        /\ \A i \in 1 .. n : g[i] = F[i][g[i - 1]]

\* Steps that stay in V lead somewhere.
LEMMA Iteration ==
  ASSUME NEW V, NEW x \in V, NEW n \in Nat, NEW F \in Steps(n, V)
  PROVE  \E g : Leads(n, V, F, x, g)
  <1>0. F \in [1 .. n -> [V -> V]]
    BY DEF Steps
  <1> DEFINE Run(k, g) == g[0] = x /\ \A i \in 1 .. k : g[i] = F[i][g[i - 1]]
             P == {k \in 0 .. n : \E g \in [0 .. k -> V] : Run(k, g)}
  <1>1. 0 \in P
    <2> DEFINE g == [i \in 0 .. 0 |-> x]
    <2>1. g \in [0 .. 0 -> V] /\ Run(0, g)
      OBVIOUS
    <2>2. \E f \in [0 .. 0 -> V] : Run(0, f)
      BY <2>1, Zenon
    <2> HIDE DEF Run
    <2> QED BY <2>2
  <1>2. ASSUME NEW k \in 1 .. n, k - 1 \in P PROVE k \in P
    <2>1. PICK g \in [0 .. k - 1 -> V] : Run(k - 1, g)
      BY <1>2
    <2>2. F[k][g[k - 1]] \in V
      <3>1. g[k - 1] \in V
        OBVIOUS
      <3> QED BY <1>0, <3>1
    <2> DEFINE h == [i \in 0 .. k |-> IF i = k THEN F[k][g[k - 1]] ELSE g[i]]
    <2>3. /\ h \in [0 .. k -> V] /\ h[k] = F[k][g[k - 1]]
          /\ \A i \in 0 .. k - 1 : h[i] = g[i]
      <3>1. \A i \in 0 .. k : i = k \/ i \in 0 .. k - 1
        OBVIOUS
      <3> QED BY <2>2, <3>1
    <2> HIDE DEF h
    <2>4. h[0] = x
      BY <2>1, <2>3
    <2>5. ASSUME NEW i \in 1 .. k PROVE h[i] = F[i][h[i - 1]]
      <3>1. CASE i = k
        <4>1. h[k - 1] = g[k - 1]
          BY <2>3
        <4> QED BY <3>1, <2>3, <4>1
      <3>2. CASE i # k
        <4>1. i \in 1 .. k - 1 /\ i - 1 \in 0 .. k - 1 /\ i \in 0 .. k - 1
          BY <3>2
        <4>2. h[i] = g[i] /\ h[i - 1] = g[i - 1]
          BY <2>3, <4>1
        <4>3. g[i] = F[i][g[i - 1]]
          BY <2>1, <4>1
        <4> QED BY <4>2, <4>3
      <3> QED BY <3>1, <3>2
    <2> QED BY <2>3, <2>4, <2>5
  <1>3. n \in P
    <2> HIDE DEF P
    <2>1. \A i \in 0 .. n : i \in P
      BY <1>1, <1>2, Upward
    <2> QED BY <2>1
  <1>4. PICK g \in [0 .. n -> V] : Run(n, g)
    BY <1>3
  <1>5. Leads(n, V, F, x, g)
    BY <1>4 DEF Leads
  <1> QED BY <1>5

-----------------------------------------------------------------------------
(* List.                                                                    *)

\* What List adds at a stored child is a sequence of numbers.
LEMMA WeaveAllType ==
  ASSUME NEW t \in Tx, NEW r \in Seq(Nat), NEW c \in Nat
  PROVE  WeaveAll(t, r, c) \in Seq(Nat)
  <1> DEFINE N == {n \in Created(t, 0) : n < c /\ n \notin ToSet(r) /\ n \notin StoredChildren}
             d == IF c \in Deleted(t, 0) THEN <<>> ELSE <<c>>
  <1>1. Sorted(N) \in Seq(Nat)
    <2>1. N \in SUBSET Child
      BY Parts
    <2> HIDE DEF N
    <2> QED BY <2>1, ChildrenFinite, SortedLists DEF Lists
  <1>2. d \in Seq(Nat)
    BY EmptySeq
  <1>3. r \o Sorted(N) \in Seq(Nat)
    BY <1>1, ConcatProperties
  <1>4. (r \o Sorted(N)) \o d \in Seq(Nat)
    <2> HIDE DEF N, d
    <2> QED BY <1>2, <1>3, ConcatProperties
  <1> QED BY <1>4 DEF WeaveAll

\* The loop of List, a stored child at a time.
LEMMA WovenRun ==
  ASSUME NEW t \in Tx
  PROVE  LET s == Sorted(StoredChildren)
         IN \E w : /\ Woven(t) = w[Len(s)] /\ w[0] = <<>>
                   /\ \A i \in 1 .. Len(s) : w[i] = WeaveAll(t, w[i - 1], s[i])
  <1> DEFINE s == Sorted(StoredChildren)
             n == Len(s)
             V == Seq(Nat)
             F == [i \in 1 .. n |-> [r \in V |-> WeaveAll(t, r, s[i])]]
             Def(g) == [i \in 0 .. n |-> IF i = 0 THEN <<>> ELSE WeaveAll(t, g[i - 1], s[i])]
  <1>1. s \in Seq(Nat) /\ n \in Nat
    BY Parts, ChildrenFinite, SortedLists, LenProperties DEF Lists
  <1>2. F \in [1 .. n -> [V -> V]]
    BY <1>1, WeaveAllType, ElementOfSeq
  <1>3. PICK g \in [0 .. n -> V] : g[0] = <<>> /\ \A i \in 1 .. n : g[i] = F[i][g[i - 1]]
    <2> DEFINE x == <<>>
    <2>1. x \in V
      BY EmptySeq
    <2>2. F \in Steps(n, V)
      BY <1>2 DEF Steps
    <2> HIDE DEF F, n, s, V, x
    <2>3. PICK g : Leads(n, V, F, x, g)
      BY <1>1, <2>1, <2>2, Iteration
    <2>4. g \in [0 .. n -> V] /\ g[0] = x /\ \A i \in 1 .. n : g[i] = F[i][g[i - 1]]
      BY <2>3 DEF Leads
    <2> QED BY <2>4 DEF x
  <1>4. g = Def(g)
    <2>1. ASSUME NEW i \in 0 .. n
          PROVE  g[i] = IF i = 0 THEN <<>> ELSE WeaveAll(t, g[i - 1], s[i])
      <3>1. CASE i = 0
        BY <3>1, <1>3
      <3>2. CASE i # 0
        <4>1. i \in 1 .. n /\ g[i - 1] \in V
          BY <1>1, <3>2
        <4> QED BY <1>3, <3>2, <4>1
      <3> QED BY <3>1, <3>2
    <2>2. g = [i \in 0 .. n |-> g[i]]
      OBVIOUS
    <2> HIDE DEF n, s, V
    <2> QED BY <2>1, <2>2, Zenon
  <1> DEFINE w == CHOOSE f : f = Def(f)
  <1>5. w = Def(w)
    BY <1>4, Zenon
  <1>6. Woven(t) = w[n]
    BY Zenon DEF Woven
  <1> HIDE DEF w
  <1>7. w[0] = <<>> /\ \A i \in 1 .. n : w[i] = WeaveAll(t, w[i - 1], s[i])
    <2>1. \A i \in 0 .. n : w[i] = IF i = 0 THEN <<>> ELSE WeaveAll(t, w[i - 1], s[i])
      BY <1>5, Zenon
    <2> HIDE DEF s, n
    <2> QED BY <1>1, <2>1
  <1> QED BY <1>6, <1>7

\* One stored child's turn: what is listed below the one before it, is then
\* listed up to it.
LEMMA WeaveAllLists ==
  ASSUME NEW t \in Tx, NEW r, NEW A, NEW c \in StoredChildren,
         Lists(r, A), A \subseteq Shown(t),
         \A a \in A : a < c,
         \A b \in Shown(t) \ A : b < c => b \notin StoredChildren /\ \A a \in A : a < b
  PROVE  Lists(WeaveAll(t, r, c), {b \in Shown(t) : b <= c})
  <1> DEFINE C == Created(t, 0)
             D == Deleted(t, 0)
             S == StoredChildren
             N == {n \in C : n < c /\ n \notin ToSet(r) /\ n \notin S}
             M == {c} \ D
             d == IF c \in D THEN <<>> ELSE <<c>>
  <1>0. /\ Child \in SUBSET Nat
        /\ S \in SUBSET Child /\ C \in SUBSET Child /\ Shown(t) \in SUBSET Child
        /\ C \cap D = {}
    BY Parts, ChildrenFinite
  <1>1. c \in Nat /\ ToSet(r) = A
    BY <1>0 DEF Lists
  <1>2. Lists(Sorted(N), N)
    <2>1. N \in SUBSET Child
      BY <1>0
    <2> HIDE DEF N
    <2> QED BY <2>1, ChildrenFinite, SortedLists
  <1>3. Lists(d, M)
    <2>1. CASE c \in D
      BY <1>1, <2>1, ListsFew
    <2>2. CASE c \notin D
      <3>1. M = {c}
        BY <2>2
      <3> QED BY <1>1, <2>2, <3>1, ListsFew
    <2> QED BY <2>1, <2>2
  <1>4. Lists(r \o Sorted(N), A \cup N)
    <2>1. ASSUME NEW a \in A, NEW b \in N PROVE a < b
      <3>1. b \in Shown(t) \ A /\ b < c
        BY <1>1 DEF Shown
      <3> QED BY <3>1
    <2> HIDE DEF N
    <2> QED BY <2>1, <1>2, ListsConcat
  <1>5. Lists((r \o Sorted(N)) \o d, (A \cup N) \cup M)
    <2>1. ASSUME NEW a \in A \cup N, NEW b \in M PROVE a < b
      OBVIOUS
    <2> HIDE DEF N, M, d
    <2> QED BY <2>1, <1>3, <1>4, ListsConcat
  <1>6. (A \cup N) \cup M = {b \in Shown(t) : b <= c}
    <2>1. ASSUME NEW b \in (A \cup N) \cup M PROVE b \in Shown(t) /\ b <= c
      <3>1. CASE b \in A
        <4>1. b \in Shown(t) /\ b < c
          BY <3>1
        <4>2. b \in Nat
          BY <4>1, <1>0
        <4> QED BY <4>1, <4>2, <1>1
      <3>2. CASE b \in N
        BY <3>2, <1>0, <1>1 DEF Shown
      <3>3. CASE b \in M
        BY <3>3, <1>1 DEF Shown
      <3> QED BY <3>1, <3>2, <3>3
    <2>2. ASSUME NEW b \in Shown(t), b <= c PROVE b \in (A \cup N) \cup M
      <3>1. CASE b = c
        BY <3>1, <1>0 DEF Shown
      <3>2. CASE b \in A
        BY <3>2
      <3>3. CASE b # c /\ b \notin A
        <4>1. b < c
          <5>1. b \in Nat
            BY <1>0
          <5> QED BY <5>1, <2>2, <3>3, <1>1
        <4>2. b \notin S
          BY <3>3, <4>1
        <4>3. b \in C
          BY <4>2 DEF Shown
        <4>4. b \in N
          BY <4>1, <4>2, <4>3, <3>3, <1>1
        <4> QED BY <4>4
      <3> QED BY <3>1, <3>2, <3>3
    <2> HIDE DEF N, M
    <2> QED BY <2>1, <2>2
  <1> QED BY <1>5, <1>6 DEF WeaveAll

\* When List has come to the last stored child, it has listed what there is to
\* show up to it.
LEMMA WovenLists ==
  ASSUME NEW t \in Tx
  PROVE  Lists(Woven(t), {b \in Shown(t) : \E c \in StoredChildren : b <= c})
  <1> DEFINE s == Sorted(StoredChildren)
             n == Len(s)
             Upto(i) == {b \in Shown(t) : i > 0 /\ b <= s[i]}
  <1>1. PICK w : /\ Woven(t) = w[n] /\ w[0] = <<>>
                 /\ \A i \in 1 .. n : w[i] = WeaveAll(t, w[i - 1], s[i])
    BY WovenRun
  <1>2. Lists(s, StoredChildren)
    BY Parts, ChildrenFinite, SortedLists
  <1>3. /\ n \in Nat
        /\ \A i, j \in 1 .. n : i < j => s[i] < s[j]
        /\ \A i \in 1 .. n : s[i] \in StoredChildren
        /\ \A c \in StoredChildren : \E i \in 1 .. n : s[i] = c
    BY <1>2, ListsNumbers, ListsDef
  <1>4. StoredChildren \in SUBSET Nat /\ Shown(t) \in SUBSET Nat
    BY Parts, ChildrenFinite
  <1> DEFINE P == {i \in 0 .. n : Lists(w[i], Upto(i))}
  <1> HIDE DEF s, n
  <1>5. 0 \in P
    <2>1. Upto(0) = {}
      OBVIOUS
    <2>2. Lists(w[0], {})
      BY <1>1, ListsFew
    <2>3. Lists(w[0], Upto(0))
      BY <2>1, <2>2
    <2> HIDE DEF Upto
    <2> QED BY <1>3, <2>3
  <1>6. ASSUME NEW i \in 1 .. n, i - 1 \in P PROVE i \in P
    <2> DEFINE A == Upto(i - 1)
               c == s[i]
    <2>1. Lists(w[i - 1], A) /\ A \subseteq Shown(t) /\ c \in StoredChildren
      BY <1>3, <1>6
    <2>2. ASSUME i - 1 > 0 PROVE s[i - 1] \in Nat /\ s[i - 1] < c /\ i - 1 \in 1 .. n
      <3>1. i - 1 \in 1 .. n /\ i - 1 < i
        BY <2>2, <1>3
      <3> QED BY <3>1, <1>3, <1>4
    <2>3. ASSUME NEW a \in A PROVE a < c
      <3>1. i - 1 > 0 /\ a <= s[i - 1] /\ a \in Nat
        BY <1>4
      <3>2. s[i - 1] \in Nat /\ s[i - 1] < c /\ c \in Nat
        BY <3>1, <2>1, <2>2, <1>4
      <3> HIDE DEF c
      <3> QED BY <3>1, <3>2
    <2>4. ASSUME NEW b \in Shown(t) \ A, b < c PROVE b \notin StoredChildren /\ \A a \in A : a < b
      <3>1. \A a \in A : a < b
        <4>1. b \in Nat /\ ~(i - 1 > 0 /\ b <= s[i - 1])
          <5>1. b \in Shown(t) /\ b \notin A
            BY <2>4
          <5> QED BY <5>1, <1>4
        <4>2. ASSUME NEW a \in A PROVE a < b
          <5>1. i - 1 > 0 /\ a <= s[i - 1] /\ a \in Nat
            BY <1>4
          <5>2. s[i - 1] < b
            BY <4>1, <5>1, <2>2
          <5> QED BY <4>1, <5>1, <5>2, <2>2
        <4> QED BY <4>2
      <3>2. ASSUME b \in StoredChildren PROVE FALSE
        <4>1. PICK j \in 1 .. n : s[j] = b
          BY <1>3, <3>2
        <4>2. j < i
          <5>1. SUFFICES ASSUME ~(j < i) PROVE FALSE
            BY Zenon
          <5>2. j = i \/ i < j
            BY <1>3, <5>1
          <5>3. j = i \/ s[i] < s[j]
            BY <1>3, <5>2
          <5>4. b \in Nat /\ c \in Nat
            BY <2>1, <1>4
          <5> QED BY <5>3, <5>4, <4>1, <2>4
        <4>3. i - 1 > 0 /\ (j = i - 1 \/ j < i - 1)
          BY <1>3, <4>2
        <4>4. s[j] = s[i - 1] \/ s[j] < s[i - 1]
          BY <1>3, <2>2, <4>3
        <4>5. b <= s[i - 1]
          BY <4>1, <4>3, <4>4, <2>2, <1>4, <3>2
        <4> QED BY <2>4, <4>3, <4>5
      <3> QED BY <3>1, <3>2
    <2> HIDE DEF A, c
    <2>5. Lists(WeaveAll(t, w[i - 1], c), {b \in Shown(t) : b <= c})
      BY <2>1, <2>3, <2>4, WeaveAllLists
    <2>6. Upto(i) = {b \in Shown(t) : b <= c}
      BY <1>3 DEF c
    <2>7. Lists(w[i], Upto(i))
      BY <1>1, <2>5, <2>6 DEF c
    <2> HIDE DEF Upto
    <2> QED BY <1>3, <2>7
  <1>7. n \in P
    <2> HIDE DEF P
    <2>1. \A i \in 0 .. n : i \in P
      BY <1>3, <1>5, <1>6, Upward
    <2> QED BY <1>3, <2>1
  <1>8. Upto(n) = {b \in Shown(t) : \E c \in StoredChildren : b <= c}
    <2>1. ASSUME NEW b \in Upto(n) PROVE \E c \in StoredChildren : b <= c
      <3>1. n \in 1 .. n
        BY <1>3
      <3> QED BY <3>1, <1>3
    <2>2. ASSUME NEW b \in Shown(t), NEW c \in StoredChildren, b <= c PROVE b \in Upto(n)
      <3>1. PICK i \in 1 .. n : s[i] = c
        BY <1>3
      <3>2. n \in 1 .. n /\ (i = n \/ i < n)
        BY <1>3
      <3>3. s[n] \in Nat /\ (c = s[n] \/ c < s[n])
        BY <1>3, <1>4, <3>1, <3>2
      <3>4. b <= s[n]
        BY <2>2, <3>3, <1>4
      <3> QED BY <3>2, <3>4
    <2> QED BY <2>1, <2>2
  <1> HIDE DEF Upto
  <1> QED BY <1>1, <1>7, <1>8

\* List lists what there is to show.
LEMMA ListLists ==
  ASSUME NEW t \in Tx
  PROVE  Lists(List(t), Shown(t))
  <1> DEFINE A == {b \in Shown(t) : \E c \in StoredChildren : b <= c}
             B == {n \in Created(t, 0) : \A c \in StoredChildren : c < n}
  <1>1. /\ Created(t, 0) \in SUBSET Child /\ StoredChildren \in SUBSET Nat
        /\ Shown(t) \in SUBSET Nat
    BY Parts, ChildrenFinite
  <1>2. Lists(Sorted(B), B)
    <2>1. B \in SUBSET Child
      BY <1>1
    <2> HIDE DEF B
    <2> QED BY <2>1, ChildrenFinite, SortedLists
  <1>3. B \in SUBSET Shown(t)
    BY DEF Shown
  <1>4. ASSUME NEW a \in A, NEW b \in B PROVE a < b
    <2>1. PICK c \in StoredChildren : a <= c
      OBVIOUS
    <2>2. c < b
      OBVIOUS
    <2> QED BY <2>1, <2>2, <1>1, <1>3
  <1>5. Lists(Woven(t) \o Sorted(B), A \cup B)
    <2>1. Lists(Woven(t), A)
      BY WovenLists
    <2> HIDE DEF A, B
    <2> QED BY <1>2, <1>4, <2>1, ListsConcat
  <1>6. A \cup B = Shown(t)
    <2>1. ASSUME NEW b \in Shown(t), b \notin A PROVE b \in B
      <3>1. \A c \in StoredChildren : c < b
        BY <2>1, <1>1
      <3>2. b \notin StoredChildren
        BY <3>1, <1>1
      <3> QED BY <3>1, <3>2 DEF Shown
    <2> QED BY <2>1, <1>3
  <1> QED BY <1>5, <1>6 DEF List

-----------------------------------------------------------------------------
(* ListPage: one stored child.                                              *)

Result == [out : Seq(Nat), pend : Seq(Nat), del : Int, at : Nat, more : BOOLEAN]

\* The deletions that are still to come, behind the stored child a.
StillDeleted(t, after, a) == {d \in Deleted(t, after) : d \notin StoredChildren \/ d > a}

\* Where ListPage stands in the middle. It has shown and will weave nothing
\* that is not to be shown, and counts the deletions to come. Unless children
\* crowd, it has listed what there is up to the stored child it has come to,
\* and still has the created ones behind it.
Going(t, after, r) ==
  /\ r \in Result /\ after <= r.at
  /\ ToSet(r.out) \subseteq From(Shown(t), after)
  /\ ToSet(r.pend) \subseteq Created(t, after)
  /\ r.del = Cardinality(StillDeleted(t, after, r.at))
  /\ ~Crowded(t) => /\ Lists(r.out, {b \in Shown(t) : after < b /\ b <= r.at})
                    /\ Lists(r.pend, From(Created(t, after), r.at))

\* What is in a sequence that is put together.
LEMMA ToSetConcat ==
  ASSUME NEW s \in Seq(Nat), NEW r \in Seq(Nat)
  PROVE  ToSet(s \o r) = ToSet(s) \cup ToSet(r)
  <1> DEFINE m == Len(s)
             n == Len(r)
             q == s \o r
  <1>1. /\ m \in Nat /\ n \in Nat /\ DOMAIN s = 1 .. m /\ DOMAIN r = 1 .. n
        /\ q \in Seq(Nat) /\ Len(q) = m + n /\ DOMAIN q = 1 .. m + n
        /\ \A i \in 1 .. m + n : q[i] = IF i <= m THEN s[i] ELSE r[i - m]
    BY ConcatProperties, LenProperties
  <1> HIDE DEF m, n, q
  <1>2. ASSUME NEW i \in 1 .. m PROVE s[i] \in ToSet(q)
    <2>1. i \in 1 .. m + n /\ q[i] = s[i]
      BY <1>1
    <2> QED BY <2>1, <1>1 DEF ToSet
  <1>3. ASSUME NEW i \in 1 .. n PROVE r[i] \in ToSet(q)
    <2>1. m + i \in 1 .. m + n /\ ~(m + i <= m) /\ (m + i) - m = i
      BY <1>1
    <2>2. q[m + i] = r[i]
      BY <1>1, <2>1
    <2> QED BY <2>1, <2>2, <1>1 DEF ToSet
  <1>4. ASSUME NEW i \in 1 .. m + n PROVE q[i] \in ToSet(s) \cup ToSet(r)
    <2>1. CASE i <= m
      <3>1. i \in 1 .. m /\ q[i] = s[i]
        BY <1>1, <2>1
      <3> QED BY <3>1, <1>1 DEF ToSet
    <2>2. CASE ~(i <= m)
      <3>1. i - m \in 1 .. n
        <4>1. m \in Nat /\ n \in Nat
          BY <1>1
        <4> QED BY <4>1, <2>2
      <3>2. q[i] = r[i - m]
        BY <1>1, <2>2
      <3> QED BY <3>1, <3>2, <1>1 DEF ToSet
    <2> QED BY <2>1, <2>2
  <1>5. ToSet(q) \subseteq ToSet(s) \cup ToSet(r)
    BY <1>1, <1>4 DEF ToSet
  <1>6. ToSet(s) \subseteq ToSet(q) /\ ToSet(r) \subseteq ToSet(q)
    BY <1>1, <1>2, <1>3 DEF ToSet
  <1> QED BY <1>5, <1>6 DEF q

\* What is in a sequence of none, and of one.
LEMMA ToSetFew ==
  /\ ToSet(<<>>) = {}
  /\ \A n \in Nat : ToSet(<<n>>) = {n}
  BY ListsFew DEF Lists

\* The head and the tail of a sequence have nothing that is not in it.
LEMMA ToSetTail ==
  ASSUME NEW s \in Seq(Nat), s # <<>>
  PROVE  /\ Head(s) \in ToSet(s) /\ Head(s) \in Nat
         /\ Tail(s) \in Seq(Nat) /\ ToSet(Tail(s)) \subseteq ToSet(s)
  <1>1. Len(s) \in Nat \ {0} /\ DOMAIN s = 1 .. Len(s)
    BY EmptySeq, LenProperties
  <1>2. /\ Head(s) \in Nat /\ Head(s) = s[1] /\ Tail(s) \in Seq(Nat) /\ Len(Tail(s)) = Len(s) - 1
        /\ \A i \in 1 .. Len(s) - 1 : Tail(s)[i] = s[i + 1]
    BY HeadTailProperties
  <1>3. DOMAIN Tail(s) = 1 .. Len(s) - 1
    BY <1>2, LenProperties
  <1>4. \A i \in 1 .. Len(s) - 1 : i + 1 \in 1 .. Len(s)
    BY <1>1
  <1>5. Head(s) \in ToSet(s)
    BY <1>1, <1>2 DEF ToSet
  <1>6. ToSet(Tail(s)) \subseteq ToSet(s)
    BY <1>1, <1>2, <1>3, <1>4 DEF ToSet
  <1> QED BY <1>2, <1>5, <1>6

\* What Weave lists before the stored child c, given the children p that are to
\* be woven, what it keeps of them, and whether it lists c.
First(p, c) == IF p # <<>> /\ Head(p) < c THEN <<Head(p)>> ELSE <<>>
Rest(p, c) == IF p # <<>> /\ Head(p) < c THEN Tail(p) ELSE p
Left(p, c) == IF Rest(p, c) # <<>> /\ Head(Rest(p, c)) = c THEN Tail(Rest(p, c)) ELSE Rest(p, c)
Own(t, after, c) == IF c \in Deleted(t, after) THEN <<>> ELSE <<c>>

\* These are sequences of children that are to be woven.
LEMMA WeaveSeqs ==
  ASSUME NEW p \in Seq(Nat), NEW c \in Nat
  PROVE  /\ First(p, c) \in Seq(Nat) /\ ToSet(First(p, c)) \subseteq ToSet(p)
         /\ Left(p, c) \in Seq(Nat) /\ ToSet(Left(p, c)) \subseteq ToSet(p)
  <1>1. /\ First(p, c) \in Seq(Nat) /\ ToSet(First(p, c)) \subseteq ToSet(p)
        /\ Rest(p, c) \in Seq(Nat) /\ ToSet(Rest(p, c)) \subseteq ToSet(p)
    <2>1. CASE p # <<>> /\ Head(p) < c
      <3>1. /\ Head(p) \in ToSet(p) /\ Head(p) \in Nat
            /\ Tail(p) \in Seq(Nat) /\ ToSet(Tail(p)) \subseteq ToSet(p)
        BY <2>1, ToSetTail
      <3>2. First(p, c) = <<Head(p)>> /\ Rest(p, c) = Tail(p)
        BY <2>1 DEF First, Rest
      <3>3. ToSet(First(p, c)) = {Head(p)} /\ First(p, c) \in Seq(Nat)
        BY <3>1, <3>2, ToSetFew, ListsFew DEF Lists
      <3> QED BY <3>1, <3>2, <3>3
    <2>2. CASE ~(p # <<>> /\ Head(p) < c)
      <3>1. First(p, c) = <<>> /\ Rest(p, c) = p
        BY <2>2 DEF First, Rest
      <3> QED BY <3>1, EmptySeq, ToSetFew
    <2> QED BY <2>1, <2>2
  <1> DEFINE q == Rest(p, c)
  <1>2. CASE q # <<>> /\ Head(q) = c
    <2>1. Left(p, c) = Tail(q)
      BY <1>2 DEF Left
    <2>2. Tail(q) \in Seq(Nat) /\ ToSet(Tail(q)) \subseteq ToSet(q)
      BY <1>1, <1>2, ToSetTail
    <2> QED BY <1>1, <2>1, <2>2
  <1>3. CASE ~(q # <<>> /\ Head(q) = c)
    <2>1. Left(p, c) = q
      BY <1>3 DEF Left
    <2> QED BY <1>1, <2>1
  <1> QED BY <1>1, <1>2, <1>3

\* What Weave makes is a result again.
LEMMA WeaveType ==
  ASSUME NEW t \in Tx, NEW after \in Nat, NEW r \in Result, NEW c \in Nat
  PROVE  /\ Weave(t, after, r, c) \in Result
         /\ Weave(t, after, r, c).at = c /\ Weave(t, after, r, c).more = r.more
         /\ Weave(t, after, r, c).pend = Left(r.pend, c)
         /\ Own(t, after, c) \in Seq(Nat)
  <1> DEFINE gone == c \in Deleted(t, after)
             o == (r.out \o First(r.pend, c)) \o Own(t, after, c)
             d == IF gone THEN r.del - 1 ELSE r.del
             left == Left(r.pend, c)
             u == Weave(t, after, r, c)
  <1>1. r.pend \in Seq(Nat) /\ r.out \in Seq(Nat) /\ r.del \in Int
    BY DEF Result
  <1>2. First(r.pend, c) \in Seq(Nat) /\ left \in Seq(Nat)
    BY <1>1, WeaveSeqs
  <1>3. Own(t, after, c) \in Seq(Nat)
    <2>1. <<>> \in Seq(Nat) /\ <<c>> \in Seq(Nat)
      BY EmptySeq
    <2> QED BY <2>1 DEF Own
  <1>4. o \in Seq(Nat) /\ d \in Int
    <2>1. r.out \o First(r.pend, c) \in Seq(Nat)
      BY <1>1, <1>2, ConcatProperties
    <2> QED BY <1>1, <1>3, <2>1, ConcatProperties
  <1>5. u = [r EXCEPT !.out = o, !.pend = left, !.del = d, !.at = c]
    BY DEF Weave, First, Rest, Left, Own
  <1> HIDE DEF left, o, d, u
  <1>6. u \in Result /\ u.at = c /\ u.more = r.more /\ u.pend = left
    BY <1>2, <1>4, <1>5 DEF Result
  <1> QED BY <1>3, <1>6 DEF left, u

\* What it lists.
LEMMA WeaveOut ==
  ASSUME NEW t \in Tx, NEW after \in Nat, NEW r \in Result, NEW c \in Nat
  PROVE  Weave(t, after, r, c).out = (r.out \o First(r.pend, c)) \o Own(t, after, c)
  <1> DEFINE gone == c \in Deleted(t, after)
             o == (r.out \o First(r.pend, c)) \o Own(t, after, c)
             d == IF gone THEN r.del - 1 ELSE r.del
             left == Left(r.pend, c)
             u == Weave(t, after, r, c)
  <1>1. u = [r EXCEPT !.out = o, !.pend = left, !.del = d, !.at = c]
    BY DEF Weave, First, Rest, Left, Own
  <1> HIDE DEF left, o, d, u
  <1>2. u.out = o
    BY <1>1 DEF Result
  <1> QED BY <1>2 DEF o, u

\* And the deletions it leaves to come.
LEMMA WeaveDel ==
  ASSUME NEW t \in Tx, NEW after \in Nat, NEW r \in Result, NEW c \in Nat
  PROVE  Weave(t, after, r, c).del = IF c \in Deleted(t, after) THEN r.del - 1 ELSE r.del
  <1> DEFINE gone == c \in Deleted(t, after)
             o == (r.out \o First(r.pend, c)) \o Own(t, after, c)
             d == IF gone THEN r.del - 1 ELSE r.del
             left == Left(r.pend, c)
             u == Weave(t, after, r, c)
  <1>1. u = [r EXCEPT !.out = o, !.pend = left, !.del = d, !.at = c]
    BY DEF Weave, First, Rest, Left, Own
  <1> HIDE DEF left, o, d, u
  <1>2. u.del = d
    BY <1>1 DEF Result
  <1> QED BY <1>2 DEF d, u

\* In a directory that is not crowded, at most one created child goes before a
\* stored one.
LEMMA OneInGap ==
  ASSUME NEW t \in Tx, NEW after \in Nat, NEW a \in Nat, after <= a, ~Crowded(t),
         NEW c \in StoredChildren, a < c, \A b \in StoredChildren : ~(a < b /\ b < c)
  PROVE  LET N == {b \in From(Created(t, after), a) : b < c}
         IN /\ N \cap StoredChildren = {}
            /\ \A x, y \in N : x = y
            /\ \A b \in Shown(t) : a < b /\ b < c => b \in N
  <1> DEFINE N == {b \in From(Created(t, after), a) : b < c}
  <1>1. /\ \A b \in Created(t, 0) : b \in Nat
        /\ Created(t, after) = {b \in Created(t, 0) : b > after}
        /\ StoredChildren \in SUBSET Nat
    BY Parts, ChildrenFinite DEF From
  <1>2. \A b \in N : b \in Created(t, 0) /\ a < b /\ b < c /\ b \in Nat
    BY <1>1 DEF From
  <1>3. \A b \in N : b \notin StoredChildren
    BY <1>2
  <1>4. ASSUME NEW x \in N, NEW y \in N, x < y PROVE FALSE
    <2>1. x \in Created(t, 0) \ StoredChildren /\ y \in Created(t, 0) \ StoredChildren
      BY <1>2, <1>3
    <2>2. ASSUME NEW b \in StoredChildren, x < b, b < y PROVE FALSE
      <3>1. b \in Nat /\ c \in Nat
        BY <1>1
      <3>2. a < b /\ b < c
        BY <3>1, <2>2, <1>2
      <3> QED BY <3>2
    <2>3. y < c
      BY <1>2
    <2> HIDE DEF N
    <2> QED BY <1>4, <2>1, <2>2, <2>3 DEF Crowded
  <1>5. ASSUME NEW x \in N, NEW y \in N PROVE x = y
    <2>1. x \in Nat /\ y \in Nat
      BY <1>2
    <2>2. ~(x < y) /\ ~(y < x)
      BY <1>4
    <2> QED BY <2>1, <2>2
  <1>6. ASSUME NEW b \in Shown(t), a < b, b < c PROVE b \in N
    <2>1. b \in Created(t, 0)
      BY <1>6 DEF Shown
    <2>2. b \in Nat
      BY <1>1, <2>1
    <2>3. b > after
      BY <2>2, <1>6
    <2> QED BY <1>1, <1>6, <2>1, <2>3 DEF From
  <1> QED BY <1>3, <1>5, <1>6

\* What Weave lists first, and what it leaves to be woven.
LEMMA WeavePending ==
  ASSUME NEW p, NEW P, Lists(p, P), NEW c \in Nat,
         \A x, y \in P : x < c /\ y < c => x = y
  PROVE  Lists(First(p, c), {b \in P : b < c}) /\ Lists(Left(p, c), {b \in P : b > c})
  <1> DEFINE N == {b \in P : b < c}
             R == {b \in P : b >= c}
             q == Rest(p, c)
  <1>1. P \in SUBSET Nat /\ (p = <<>> <=> P = {})
    BY ListsNumbers
  <1>2. Lists(First(p, c), N) /\ Lists(q, R)
    <2>1. CASE p # <<>> /\ Head(p) < c
      <3>1. P # {} /\ Head(p) \in P /\ Head(p) < c /\ Lists(Tail(p), P \ {Head(p)})
        BY <1>1, <2>1, ListsEnds
      <3>2. N = {Head(p)}
        BY <3>1
      <3>3. R = P \ {Head(p)}
        <4>1. \A b \in P : b < c <=> b = Head(p)
          BY <3>1
        <4>2. \A b \in P : b \in Nat
          BY <1>1
        <4> QED BY <4>1, <4>2
      <3>4. Lists(<<Head(p)>>, {Head(p)})
        BY <1>1, <3>1, ListsFew
      <3>5. First(p, c) = <<Head(p)>> /\ q = Tail(p)
        BY <2>1 DEF First, Rest
      <3> QED BY <3>1, <3>2, <3>3, <3>4, <3>5
    <2>2. CASE ~(p # <<>> /\ Head(p) < c)
      <3>1. \A b \in P : b \in Nat /\ b >= c
        <4>1. CASE p = <<>>
          BY <4>1, <1>1
        <4>2. CASE p # <<>>
          <5>1. P # {} /\ Head(p) \in P /\ \A b \in P : Head(p) <= b
            BY <1>1, <4>2, ListsEnds
          <5>2. Head(p) \in Nat /\ ~(Head(p) < c)
            BY <1>1, <2>2, <4>2, <5>1
          <5> QED BY <1>1, <5>1, <5>2
        <4> QED BY <4>1, <4>2
      <3>2. N = {} /\ R = P
        BY <3>1
      <3>3. First(p, c) = <<>> /\ q = p
        BY <2>2 DEF First, Rest
      <3> QED BY <3>2, <3>3, ListsFew
    <2> QED BY <2>1, <2>2
  <1>3. R \in SUBSET Nat /\ (q = <<>> <=> R = {}) /\ \A b \in R : b >= c
    BY <1>1, <1>2, ListsNumbers
  <1>4. Lists(Left(p, c), R \ {c})
    <2> HIDE DEF R
    <2>1. CASE q # <<>> /\ Head(q) = c
      <3>1. Lists(Tail(q), R \ {Head(q)})
        BY <1>2, <1>3, <2>1, ListsEnds
      <3>2. Left(p, c) = Tail(q)
        BY <2>1 DEF Left
      <3> QED BY <2>1, <3>1, <3>2
    <2>2. CASE ~(q # <<>> /\ Head(q) = c)
      <3>1. ASSUME c \in R PROVE FALSE
        <4>1. R # {} /\ q # <<>>
          BY <1>3, <3>1
        <4>2. Head(q) \in R /\ Head(q) <= c
          BY <1>2, <3>1, <4>1, ListsEnds
        <4>3. Head(q) \in Nat /\ Head(q) >= c
          BY <1>3, <4>2
        <4> QED BY <2>2, <4>1, <4>2, <4>3
      <3>2. R \ {c} = R
        BY <3>1
      <3>3. Left(p, c) = q
        BY <2>2 DEF Left
      <3> QED BY <1>2, <3>2, <3>3
    <2> QED BY <2>1, <2>2
  <1>5. R \ {c} = {b \in P : b > c}
    <2>1. \A b \in P : b >= c /\ b # c <=> b > c
      BY <1>1
    <2> QED BY <2>1
  <1> QED BY <1>2, <1>4, <1>5

\* In a directory that is not crowded, Weave lists what there is up to the
\* stored child.
LEMMA WeaveLists ==
  ASSUME NEW t \in Tx, NEW after \in Nat, NEW r, Going(t, after, r), ~Crowded(t),
         NEW c \in StoredChildren, r.at < c,
         \A b \in StoredChildren : ~(r.at < b /\ b < c)
  PROVE  LET u == Weave(t, after, r, c)
         IN /\ Lists(u.out, {b \in Shown(t) : after < b /\ b <= c})
            /\ Lists(u.pend, From(Created(t, after), c))
  <1> DEFINE a == r.at
             P == From(Created(t, after), a)
             N == {b \in P : b < c}
             O == {b \in Shown(t) : after < b /\ b <= a}
             W == {c} \ Deleted(t, after)
             first == First(r.pend, c)
             own == Own(t, after, c)
             left == Left(r.pend, c)
             u == Weave(t, after, r, c)
  <1>1. /\ r \in Result /\ a \in Nat /\ after <= a
        /\ Lists(r.out, O) /\ Lists(r.pend, P)
    BY DEF Going, Result
  <1>2. /\ c \in Nat /\ StoredChildren \in SUBSET Nat /\ Created(t, after) \in SUBSET Nat
        /\ Shown(t) \in SUBSET Nat
    BY Parts, ChildrenFinite
  <1>3. /\ N \cap StoredChildren = {}
        /\ \A x, y \in N : x = y
        /\ \A b \in Shown(t) : a < b /\ b < c => b \in N
    <2> HIDE DEF a, O, W, first, own, left, u
    <2>1. a < c /\ \A b \in StoredChildren : ~(a < b /\ b < c)
      BY DEF a
    <2>2. a \in Nat /\ after <= a
      BY <1>1
    <2> QED BY <2>1, <2>2, OneInGap
  <1>4. u.out = (r.out \o first) \o own /\ u.pend = left
    <2>1. r \in Result /\ c \in Nat
      BY <1>1, <1>2
    <2>2. u.out = (r.out \o first) \o own
      BY <2>1, WeaveOut, Zenon
    <2>3. u.pend = left
      BY <2>1, WeaveType, Zenon
    <2> QED BY <2>2, <2>3
  <1>5. Lists(first, N) /\ Lists(left, {b \in P : b > c})
    <2>1. \A x, y \in P : x < c /\ y < c => x = y
      BY <1>3
    <2> HIDE DEF P
    <2> QED BY <1>1, <1>2, <2>1, WeavePending
  <1>6. Lists(own, W)
    <2>1. c \in Deleted(t, after) => own = <<>> /\ W = {}
      BY DEF Own
    <2>2. c \notin Deleted(t, after) => own = <<c>> /\ W = {c}
      BY DEF Own
    <2> HIDE DEF own, W
    <2> QED BY <1>2, <2>1, <2>2, ListsFew
  <1> HIDE DEF first, left, own, u
  <1>7. Lists(r.out \o first, O \cup N)
    <2>1. \A x \in O, y \in N : x < y
      <3>1. \A x \in O : x \in Nat /\ x <= a
        BY <1>2
      <3>2. \A y \in N : y \in Nat /\ a < y
        BY <1>2 DEF From
      <3> HIDE DEF O, N, a
      <3> QED BY <1>1, <3>1, <3>2
    <2> HIDE DEF O, N
    <2> QED BY <1>1, <1>5, <2>1, ListsConcat
  <1>8. Lists((r.out \o first) \o own, (O \cup N) \cup W)
    <2>1. \A x \in O \cup N, y \in W : x < y
      <3>1. \A x \in O : x \in Nat /\ x <= a
        BY <1>2
      <3>2. \A x \in O : x < c
        <4>1. a < c
          OBVIOUS
        <4> HIDE DEF O, a
        <4> QED BY <1>1, <1>2, <3>1, <4>1
      <3>3. \A x \in N : x < c
        OBVIOUS
      <3> HIDE DEF O, N, a
      <3> QED BY <3>2, <3>3
    <2> HIDE DEF O, N, W
    <2> QED BY <1>6, <1>7, <2>1, ListsConcat
  <1>9. (O \cup N) \cup W = {b \in Shown(t) : after < b /\ b <= c}
    <2>1. ASSUME NEW b \in Shown(t), after < b, b <= c PROVE b \in (O \cup N) \cup W
      <3>1. b \in Nat
        BY <1>2
      <3>2. CASE b <= a
        BY <3>2, <2>1
      <3>3. CASE a < b /\ b < c
        BY <3>3, <1>3
      <3>4. CASE b = c
        <4>1. b \notin Deleted(t, after)
          <5>1. Created(t, 0) \cap Deleted(t, 0) = {} /\ Deleted(t, after) \subseteq Deleted(t, 0)
            BY Parts DEF From
          <5> QED BY <5>1 DEF Shown
        <4> QED BY <3>4, <4>1
      <3> QED BY <3>1, <3>2, <3>3, <3>4, <1>1, <1>2, <2>1
    <2>2. ASSUME NEW b \in O PROVE b \in Shown(t) /\ after < b /\ b <= c
      <3>1. b \in Shown(t) /\ b \in Nat /\ after < b /\ b <= a /\ a < c
        BY <1>2
      <3> HIDE DEF a
      <3> QED BY <1>1, <1>2, <3>1
    <2>3. ASSUME NEW b \in N PROVE b \in Shown(t) /\ after < b /\ b <= c
      <3>1. b \in Created(t, after) /\ b \in Nat /\ a < b /\ b < c
        BY <1>2 DEF From
      <3>2. b \in Created(t, 0)
        BY <3>1, Parts DEF From
      <3> QED BY <1>1, <1>2, <3>1, <3>2 DEF Shown
    <2>4. ASSUME NEW b \in W PROVE b \in Shown(t) /\ after < b /\ b <= c
      <3>1. b = c /\ b \notin Deleted(t, after) /\ after < b
        BY <1>1, <1>2
      <3>2. b \notin Deleted(t, 0)
        BY <3>1, Parts DEF From
      <3> QED BY <1>2, <3>1, <3>2 DEF Shown
    <2> HIDE DEF O, N, W
    <2> QED BY <2>1, <2>2, <2>3, <2>4
  <1>10. {b \in P : b > c} = From(Created(t, after), c)
    BY <1>1, <1>2 DEF From
  <1> QED BY <1>4, <1>5, <1>8, <1>9, <1>10 DEF u

\* What is created or stored, and not deleted, is to be shown.
LEMMA ShownParts ==
  ASSUME NEW t \in Tx, NEW after \in Nat
  PROVE  /\ Created(t, after) \subseteq From(Shown(t), after)
         /\ \A c \in StoredChildren :
              c > after /\ c \notin Deleted(t, after) => c \in From(Shown(t), after)
  <1>1. /\ Created(t, after) = From(Created(t, 0), after)
        /\ Deleted(t, after) = From(Deleted(t, 0), after)
    BY Parts
  <1> QED BY <1>1 DEF Shown, From

\* A stored child is one deletion less to come, if it is deleted.
LEMMA WeaveDeletes ==
  ASSUME NEW t \in Tx, NEW after \in Nat, NEW a \in Nat, after <= a,
         NEW c \in StoredChildren, a < c, \A b \in StoredChildren : ~(a < b /\ b < c)
  PROVE  Cardinality(StillDeleted(t, after, c)) =
           IF c \in Deleted(t, after) THEN Cardinality(StillDeleted(t, after, a)) - 1
           ELSE Cardinality(StillDeleted(t, after, a))
  <1> DEFINE D == StillDeleted(t, after, a)
             E == StillDeleted(t, after, c)
  <1>1. /\ Deleted(t, after) \in SUBSET Nat /\ IsFiniteSet(Deleted(t, after))
        /\ StoredChildren \in SUBSET Nat
    BY Parts, ChildrenFinite
  <1>2. D \in SUBSET Deleted(t, after) /\ IsFiniteSet(D)
    <2>1. D \in SUBSET Deleted(t, after)
      BY DEF StillDeleted
    <2> QED BY <1>1, <2>1, FS_Subset
  <1>3. E = D \ {c}
    <2>1. ASSUME NEW b \in Deleted(t, after), b \in StoredChildren
          PROVE  b > c <=> b > a /\ b # c
      <3>1. b \in Nat /\ c \in Nat /\ ~(a < b /\ b < c)
        BY <1>1, <2>1
      <3> QED BY <3>1
    <2> QED BY <2>1 DEF StillDeleted
  <1>4. c \in Deleted(t, after) <=> c \in D
    BY <1>1 DEF StillDeleted
  <1>5. CASE c \in Deleted(t, after)
    <2>1. Cardinality(D \ {c}) = Cardinality(D) - 1
      <3>1. c \in D
        BY <1>4, <1>5
      <3> HIDE DEF D
      <3> QED BY <1>2, <3>1, FS_RemoveElement
    <2> QED BY <1>3, <1>5, <2>1
  <1>6. CASE c \notin Deleted(t, after)
    <2>1. D \ {c} = D
      BY <1>4, <1>6
    <2> QED BY <1>3, <1>6, <2>1
  <1> QED BY <1>5, <1>6

\* One stored child, the next one, keeps to what Going says.
LEMMA WeaveGoing ==
  ASSUME NEW t \in Tx, NEW after \in Nat, NEW r, Going(t, after, r),
         NEW c \in StoredChildren, r.at < c,
         \A b \in StoredChildren : ~(r.at < b /\ b < c)
  PROVE  /\ Going(t, after, Weave(t, after, r, c))
         /\ Weave(t, after, r, c).at = c
         /\ Weave(t, after, r, c).more = r.more
  <1> DEFINE u == Weave(t, after, r, c)
             first == First(r.pend, c)
             own == Own(t, after, c)
  <1>1. /\ r \in Result /\ r.at \in Nat /\ after <= r.at /\ c \in Nat
        /\ r.out \in Seq(Nat) /\ r.pend \in Seq(Nat)
        /\ ToSet(r.out) \subseteq From(Shown(t), after)
        /\ ToSet(r.pend) \subseteq Created(t, after)
        /\ r.del = Cardinality(StillDeleted(t, after, r.at))
    BY Parts, ChildrenFinite DEF Going, Result
  <1>2. /\ u \in Result /\ u.at = c /\ u.more = r.more /\ u.pend = Left(r.pend, c)
        /\ u.out = (r.out \o first) \o own /\ own \in Seq(Nat)
        /\ u.del = IF c \in Deleted(t, after) THEN r.del - 1 ELSE r.del
    <2>1. r \in Result /\ c \in Nat
      BY <1>1
    <2>2. u.del = IF c \in Deleted(t, after) THEN r.del - 1 ELSE r.del
      BY <2>1, WeaveDel
    <2>3. u.out = (r.out \o first) \o own
      BY <2>1, WeaveOut
    <2>4. /\ u \in Result /\ u.at = c /\ u.more = r.more
          /\ u.pend = Left(r.pend, c) /\ own \in Seq(Nat)
      BY <2>1, WeaveType
    <2> HIDE DEF u, first, own
    <2> QED BY <2>2, <2>3, <2>4
  <1>3. /\ first \in Seq(Nat) /\ ToSet(first) \subseteq Created(t, after)
        /\ ToSet(u.pend) \subseteq Created(t, after)
    BY <1>1, <1>2, WeaveSeqs
  <1>4. c > after
    BY <1>1
  <1>5. ToSet(own) \subseteq From(Shown(t), after)
    <2>1. CASE c \in Deleted(t, after)
      BY <2>1, ToSetFew DEF Own
    <2>2. CASE c \notin Deleted(t, after)
      <3>1. c \in From(Shown(t), after)
        BY <1>4, <2>2, ShownParts
      <3>2. own = <<c>>
        BY <2>2 DEF Own
      <3>3. ToSet(own) = {c}
        BY <1>1, <3>2, ToSetFew
      <3> QED BY <3>1, <3>3
    <2> QED BY <2>1, <2>2
  <1>6. ToSet(u.out) \subseteq From(Shown(t), after)
    <2>1. r.out \o first \in Seq(Nat) /\ ToSet(r.out \o first) = ToSet(r.out) \cup ToSet(first)
      BY <1>1, <1>3, ToSetConcat, ConcatProperties
    <2>2. ToSet(u.out) = ToSet(r.out \o first) \cup ToSet(own)
      <3> HIDE DEF u, first, own
      <3> QED BY <1>2, <2>1, ToSetConcat
    <2>3. ToSet(first) \subseteq From(Shown(t), after)
      BY <1>3, ShownParts
    <2> HIDE DEF u, first, own
    <2> QED BY <1>1, <1>5, <2>1, <2>2, <2>3
  <1>7. u.del = Cardinality(StillDeleted(t, after, u.at))
    <2> DEFINE a == r.at
    <2>1. a \in Nat /\ after <= a /\ a < c /\ \A b \in StoredChildren : ~(a < b /\ b < c)
      BY <1>1
    <2>2. r.del = Cardinality(StillDeleted(t, after, a))
      BY <1>1
    <2> HIDE DEF a, u
    <2>3. Cardinality(StillDeleted(t, after, c)) =
            IF c \in Deleted(t, after) THEN Cardinality(StillDeleted(t, after, a)) - 1
            ELSE Cardinality(StillDeleted(t, after, a))
      BY <2>1, WeaveDeletes
    <2> QED BY <1>2, <2>2, <2>3
  <1>8. ~Crowded(t) => /\ Lists(u.out, {b \in Shown(t) : after < b /\ b <= u.at})
                       /\ Lists(u.pend, From(Created(t, after), u.at))
    BY <1>2, WeaveLists
  <1>9. after <= u.at
    <2> HIDE DEF u
    <2> QED BY <1>1, <1>2, <1>4
  <1> HIDE DEF u
  <1>10. Going(t, after, u)
    BY <1>2, <1>3, <1>6, <1>7, <1>8, <1>9 DEF Going
  <1> QED BY <1>2, <1>10 DEF u

\* The inner loop of ListPage, a stored child at a time.
LEMMA WeavePageRun ==
  ASSUME NEW t \in Tx, NEW after \in Nat, NEW r \in Result, NEW page \in Seq(Nat)
  PROVE  \E x : /\ WeavePage(t, after, r, page) = x[Len(page)] /\ x[0] = r
                /\ \A i \in 1 .. Len(page) : x[i] = Weave(t, after, x[i - 1], page[i])
  <1> DEFINE n == Len(page)
             F == [i \in 1 .. n |-> [y \in Result |-> Weave(t, after, y, page[i])]]
             Def(g) == [i \in 0 .. n |-> IF i = 0 THEN r ELSE Weave(t, after, g[i - 1], page[i])]
  <1>1. n \in Nat /\ \A i \in 1 .. n : page[i] \in Nat
    BY LenProperties, ElementOfSeq
  <1>2. F \in [1 .. n -> [Result -> Result]]
    BY <1>1, WeaveType
  <1>3. PICK g \in [0 .. n -> Result] : g[0] = r /\ \A i \in 1 .. n : g[i] = F[i][g[i - 1]]
    <2>1. n \in Nat
      BY <1>1
    <2>2. F \in Steps(n, Result)
      BY <1>2 DEF Steps
    <2> HIDE DEF F, n
    <2>3. PICK g : Leads(n, Result, F, r, g)
      BY <2>1, <2>2, Iteration
    <2>4. g \in [0 .. n -> Result] /\ g[0] = r /\ \A i \in 1 .. n : g[i] = F[i][g[i - 1]]
      BY <2>3 DEF Leads
    <2> QED BY <2>4
  <1>4. g = Def(g)
    <2>1. ASSUME NEW i \in 0 .. n
          PROVE  g[i] = IF i = 0 THEN r ELSE Weave(t, after, g[i - 1], page[i])
      <3>1. CASE i = 0
        BY <3>1, <1>3
      <3>2. CASE i # 0
        <4>1. i \in 1 .. n /\ g[i - 1] \in Result
          BY <1>1, <3>2
        <4> QED BY <1>3, <3>2, <4>1
      <3> QED BY <3>1, <3>2
    <2>2. g = [i \in 0 .. n |-> g[i]]
      OBVIOUS
    <2> HIDE DEF n
    <2> QED BY <2>1, <2>2, Zenon
  <1> DEFINE x == CHOOSE f : f = Def(f)
  <1>5. x = Def(x)
    BY <1>4, Zenon
  <1>6. WeavePage(t, after, r, page) = x[n]
    BY Zenon DEF WeavePage
  <1> HIDE DEF x
  <1>7. x[0] = r /\ \A i \in 1 .. n : x[i] = Weave(t, after, x[i - 1], page[i])
    <2>1. \A i \in 0 .. n : x[i] = IF i = 0 THEN r ELSE Weave(t, after, x[i - 1], page[i])
      BY <1>5, Zenon
    <2> HIDE DEF n
    <2> QED BY <1>1, <2>1
  <1> QED BY <1>6, <1>7

\* It keeps to what Going says, over a page of the stored children that come next.
LEMMA WeavePageGoing ==
  ASSUME NEW t \in Tx, NEW after \in Nat, NEW r, Going(t, after, r),
         NEW page, NEW B, Lists(page, B), B \subseteq StoredChildren, B # {},
         \A b \in B : r.at < b,
         \A b \in B, c \in StoredChildren \ B : r.at < c => b < c
  PROVE  LET u == WeavePage(t, after, r, page)
         IN Going(t, after, u) /\ u.at \in B /\ u.more = r.more
  <1> DEFINE n == Len(page)
             a == r.at
             u == WeavePage(t, after, r, page)
  <1>1. r \in Result /\ a \in Nat /\ StoredChildren \in SUBSET Nat
    BY Parts, ChildrenFinite DEF Going, Result
  <1>2. page \in Seq(Nat) /\ page # <<>>
    BY ListsNumbers
  <1>3. /\ n \in Nat
        /\ \A i, j \in 1 .. n : i < j => page[i] < page[j]
        /\ \A i \in 1 .. n : page[i] \in B
        /\ \A b \in B : \E i \in 1 .. n : page[i] = b
    BY <1>2, ListsDef
  <1>4. n > 0
    BY <1>3
  <1>5. PICK x : /\ u = x[n] /\ x[0] = r
                 /\ \A i \in 1 .. n : x[i] = Weave(t, after, x[i - 1], page[i])
    <2> HIDE DEF u
    <2> QED BY <1>1, <1>2, WeavePageRun DEF u
  <1> HIDE DEF n, a, u
  <1>6. \A b \in B : b \in Nat /\ a < b
    BY <1>1 DEF a
  <1> DEFINE At(i) == IF i = 0 THEN a ELSE page[i]
             P == {i \in 0 .. n : /\ Going(t, after, x[i]) /\ x[i].more = r.more
                                  /\ x[i].at = At(i)}
  <1>7. 0 \in P
    BY <1>3, <1>5 DEF a
  <1>8. ASSUME NEW i \in 1 .. n, i - 1 \in P PROVE i \in P
    <2> DEFINE c == page[i]
               y == x[i - 1]
               e == At(i - 1)
    <2>1. c \in B /\ c \in StoredChildren /\ c \in Nat
      BY <1>1, <1>3
    <2>2. Going(t, after, y) /\ y.more = r.more /\ y.at = e
      BY <1>8
    <2>3. e \in Nat /\ a <= e /\ e < c
      <3>1. CASE i - 1 = 0
        BY <3>1, <1>1, <1>6, <2>1 DEF a
      <3>2. CASE i - 1 # 0
        <4>1. i - 1 \in 1 .. n /\ i - 1 < i /\ e = page[i - 1]
          BY <1>3, <3>2
        <4>2. page[i - 1] \in B /\ page[i - 1] < page[i]
          BY <1>3, <4>1
        <4>3. page[i - 1] \in Nat /\ a < page[i - 1]
          BY <1>6, <4>2
        <4>4. a \in Nat
          BY <1>1 DEF a
        <4> HIDE DEF e
        <4> QED BY <4>1, <4>2, <4>3, <4>4
      <3> QED BY <3>1, <3>2
    <2>4. ASSUME NEW b \in StoredChildren, e < b, b < c PROVE FALSE
      <3>1. b \in Nat
        BY <1>1
      <3>2. CASE b \in B
        <4>1. PICK j \in 1 .. n : page[j] = b
          BY <1>3, <3>2
        <4>2. j < i
          <5>1. ~(i < j)
            <6>1. i < j => c < b
              BY <1>3, <4>1
            <6> HIDE DEF c
            <6> QED BY <6>1, <2>1, <2>4, <3>1
          <5>2. i # j
            <6>1. i = j => c = b
              BY <4>1
            <6> HIDE DEF c
            <6> QED BY <6>1, <2>1, <2>4, <3>1
          <5> QED BY <1>3, <5>1, <5>2
        <4>3. i - 1 # 0 /\ i - 1 \in 1 .. n /\ (j = i - 1 \/ j < i - 1)
          BY <1>3, <4>2
        <4>4. e = page[i - 1] /\ (page[j] = page[i - 1] \/ page[j] < page[i - 1])
          BY <1>3, <4>3
        <4> HIDE DEF e
        <4> QED BY <2>3, <2>4, <3>1, <4>1, <4>4
      <3>3. CASE b \notin B
        <4>1. a < b
          <5> HIDE DEF e
          <5> QED BY <1>1, <2>3, <2>4, <3>1 DEF a
        <4>2. c < b
          BY <2>1, <3>3, <4>1 DEF a
        <4> HIDE DEF c
        <4> QED BY <2>1, <2>4, <3>1, <4>2
      <3> QED BY <3>2, <3>3
    <2> HIDE DEF c, y, e
    <2>5. /\ Going(t, after, Weave(t, after, y, c))
          /\ Weave(t, after, y, c).at = c
          /\ Weave(t, after, y, c).more = y.more
      BY <2>1, <2>2, <2>3, <2>4, WeaveGoing
    <2>6. x[i] = Weave(t, after, y, c)
      BY <1>5 DEF y, c
    <2>7. At(i) = c /\ i \in 0 .. n
      BY <1>3 DEF c
    <2> QED BY <2>2, <2>5, <2>6, <2>7
  <1>9. n \in P
    <2> HIDE DEF P
    <2>1. \A i \in 0 .. n : i \in P
      BY <1>3, <1>7, <1>8, Upward
    <2> QED BY <1>3, <2>1
  <1>10. Going(t, after, u) /\ u.more = r.more /\ u.at = page[n]
    BY <1>4, <1>5, <1>9
  <1>11. page[n] \in B
    <2>1. n \in 1 .. n
      BY <1>3, <1>4
    <2> QED BY <1>3, <2>1
  <1> QED BY <1>10, <1>11 DEF u

-----------------------------------------------------------------------------
(* ListPage: the turns of the outer loop.                                   *)

\* Where ListPage stands at the end. It shows nothing that is not to be shown,
\* and unless children crowd, what it shows is the page.
Ended(t, after, limit, r) ==
  /\ r.out \in Seq(Nat) /\ r.pend \in Seq(Nat)
  /\ ToSet(r.out) \subseteq From(Shown(t), after)
  /\ ToSet(r.pend) \subseteq Created(t, after)
  /\ ~Crowded(t) => Take(r.out \o r.pend, limit) = Take(Sorted(From(Shown(t), after)), limit)

\* A page of the storage.
LEMMA StoredPageLists ==
  ASSUME NEW a \in Nat, NEW n \in Nat
  PROVE  /\ ToSet(StoredPage(a, n)) \subseteq From(StoredChildren, a)
         /\ Lists(StoredPage(a, n), ToSet(StoredPage(a, n)))
         /\ \A b \in ToSet(StoredPage(a, n)), c \in From(StoredChildren, a) :
              c \notin ToSet(StoredPage(a, n)) => b < c
         /\ n > 0 /\ From(StoredChildren, a) # {} => ToSet(StoredPage(a, n)) # {}
  <1> DEFINE S == From(StoredChildren, a)
  <1>1. Lists(Sorted(S), S)
    <2>1. S \in SUBSET Child
      BY DEF From, StoredChildren, Child
    <2> HIDE DEF S
    <2> QED BY <2>1, ChildrenFinite, SortedLists
  <1>2. StoredPage(a, n) = Take(Sorted(S), n)
    BY DEF StoredPage, From
  <1> HIDE DEF S
  <1> DEFINE p == Take(Sorted(S), n)
             B == ToSet(p)
  <1>3. B \subseteq S /\ Lists(p, B)
    BY <1>1, ListsTake
  <1>4. \A b \in B, c \in S : c \notin B => b < c
    BY <1>1, ListsTake
  <1>5. n > 0 /\ S # {} => B # {}
    BY <1>1, ListsTake
  <1> QED BY <1>2, <1>3, <1>4, <1>5 DEF S

\* The parts of Going, with the deletions a number.
LEMMA GoingParts ==
  ASSUME NEW t \in Tx, NEW after \in Nat, NEW r, Going(t, after, r)
  PROVE  /\ r.out \in Seq(Nat) /\ r.pend \in Seq(Nat) /\ r.at \in Nat /\ after <= r.at
         /\ r.del \in Nat /\ Len(r.out) \in Nat
         /\ r.del = 0 => StillDeleted(t, after, r.at) = {}
  <1>1. /\ r.out \in Seq(Nat) /\ r.pend \in Seq(Nat) /\ r.at \in Nat /\ after <= r.at
        /\ r.del = Cardinality(StillDeleted(t, after, r.at))
    BY DEF Going, Result
  <1>2. IsFiniteSet(StillDeleted(t, after, r.at))
    <2>1. StillDeleted(t, after, r.at) \in SUBSET Child
      BY Parts DEF StillDeleted
    <2> QED BY <2>1, ChildrenFinite
  <1>3. Len(r.out) \in Nat
    BY <1>1, LenProperties
  <1> QED BY <1>1, <1>2, <1>3, FS_CardinalityType, FS_EmptySet

\* Whether the loop goes on does not matter to Going.
LEMMA GoingMore ==
  ASSUME NEW t \in Tx, NEW after \in Nat, NEW r, Going(t, after, r), NEW m \in BOOLEAN
  PROVE  LET u == [r EXCEPT !.more = m]
         IN /\ Going(t, after, u) /\ u.more = m /\ u.at = r.at
            /\ u.out = r.out /\ u.pend = r.pend
  <1> DEFINE u == [r EXCEPT !.more = m]
  <1>1. r \in Result
    BY DEF Going
  <1>2. /\ u \in Result /\ u.more = m /\ u.at = r.at
        /\ u.out = r.out /\ u.pend = r.pend /\ u.del = r.del
    BY <1>1 DEF Result
  <1> HIDE DEF u
  <1>3. Going(t, after, u)
    BY <1>2 DEF Going
  <1> QED BY <1>2, <1>3 DEF u

\* The storage has no more.
LEMMA TurnEmpty ==
  ASSUME NEW t \in Tx, NEW after \in Nat, NEW limit \in Nat, NEW r, Going(t, after, r),
         From(StoredChildren, r.at) = {}
  PROVE  Ended(t, after, limit, r)
  <1>1. r.out \in Seq(Nat) /\ r.pend \in Seq(Nat) /\ r.at \in Nat /\ after <= r.at
    BY GoingParts
  <1>2. ToSet(r.out) \subseteq From(Shown(t), after) /\ ToSet(r.pend) \subseteq Created(t, after)
    BY DEF Going
  <1>3. ASSUME ~Crowded(t) PROVE r.out \o r.pend = Sorted(From(Shown(t), after))
    <2> DEFINE a == r.at
               O == {b \in Shown(t) : after < b /\ b <= a}
               P == From(Created(t, after), a)
    <2>1. Lists(r.out, O) /\ Lists(r.pend, P)
      BY <1>3 DEF Going
    <2>2. Shown(t) \in SUBSET Child /\ Shown(t) \in SUBSET Nat /\ IsFiniteSet(From(Shown(t), after))
      <3>1. Shown(t) \in SUBSET Child /\ From(Shown(t), after) \in SUBSET Child
        BY Parts DEF From
      <3> QED BY <3>1, ChildrenFinite
    <2>3. \A b \in P : b \in From(Shown(t), after) /\ a < b
      BY ShownParts DEF From
    <2>4. ASSUME NEW b \in Shown(t), after < b, a < b PROVE b \in P
      <3>1. b \notin StoredChildren
        BY <2>4 DEF From
      <3>2. b \in Created(t, 0)
        BY <3>1 DEF Shown
      <3> QED BY <2>4, <3>2, Parts DEF From
    <2>5. \A x \in O, y \in P : x < y
      <3>1. \A x \in O : x \in Nat /\ x <= a
        BY <2>2
      <3>2. \A y \in P : y \in Nat /\ a < y
        BY <2>2, <2>3 DEF From
      <3>3. a \in Nat
        BY <1>1
      <3> HIDE DEF O, P, a
      <3> QED BY <3>1, <3>2, <3>3
    <2>6. O \cup P = From(Shown(t), after)
      <3>1. \A b \in Shown(t) : b > after <=> after < b
        BY <2>2
      <3>2. \A b \in Shown(t) : b <= a \/ a < b
        <4>1. a \in Nat
          BY <1>1
        <4> HIDE DEF a
        <4> QED BY <2>2, <4>1
      <3> HIDE DEF P, a
      <3> QED BY <2>3, <2>4, <3>1, <3>2 DEF From
    <2> HIDE DEF O, P, a
    <2>7. Lists(r.out \o r.pend, From(Shown(t), after))
      <3>1. Lists(r.out \o r.pend, O \cup P)
        BY <2>1, <2>5, ListsConcat
      <3> QED BY <2>6, <3>1
    <2> QED BY <2>2, <2>7, SortedIs
  <1> QED BY <1>1, <1>2, <1>3 DEF Ended

\* Nothing is created behind, and nothing deleted.
LEMMA TurnPlain ==
  ASSUME NEW t \in Tx, NEW after \in Nat, NEW limit \in Nat, NEW r, Going(t, after, r),
         Len(r.out) < limit, r.pend = <<>>, r.del = 0,
         NEW u, u.out = r.out \o StoredPage(r.at, limit - Len(r.out)), u.pend = <<>>
  PROVE  Ended(t, after, limit, u)
  <1> DEFINE a == r.at
             S == From(StoredChildren, a)
             n == limit - Len(r.out)
             page == StoredPage(a, n)
             full == From(Shown(t), after)
  <1>1. /\ r.out \in Seq(Nat) /\ a \in Nat /\ after <= a /\ n \in Nat
        /\ StillDeleted(t, after, a) = {}
    <2>1. r.out \in Seq(Nat) /\ a \in Nat /\ after <= a /\ StillDeleted(t, after, a) = {}
      BY GoingParts
    <2>2. Len(r.out) \in Nat
      BY <2>1, LenProperties
    <2>3. n \in Nat
      BY <2>2
    <2> QED BY <2>1, <2>3
  <1>2. Lists(page, ToSet(page)) /\ ToSet(page) \subseteq S
    <2> HIDE DEF n, a
    <2> QED BY <1>1, StoredPageLists
  <1>3. S \subseteq full
    <2>1. ASSUME NEW c \in S PROVE c \in full
      <3>1. c \in StoredChildren /\ c \in Nat /\ c > a
        BY Parts, ChildrenFinite DEF From
      <3>2. c \notin Deleted(t, after)
        BY <1>1, <3>1 DEF StillDeleted
      <3>3. c > after
        BY <1>1, <3>1
      <3> QED BY <3>1, <3>2, <3>3, ShownParts
    <2> QED BY <2>1
  <1>4. page \in Seq(Nat) /\ ToSet(page) \subseteq full
    BY <1>2, <1>3 DEF Lists
  <1>5. ToSet(r.out) \subseteq full
    BY DEF Going
  <1>6. u.out \in Seq(Nat) /\ ToSet(u.out) \subseteq full
    <2>1. u.out = r.out \o page
      OBVIOUS
    <2> HIDE DEF page, full
    <2> QED BY <1>1, <1>4, <1>5, <2>1, ToSetConcat, ConcatProperties
  <1>7. u.pend \in Seq(Nat) /\ ToSet(u.pend) \subseteq Created(t, after)
    BY EmptySeq, ToSetFew
  <1>8. ASSUME ~Crowded(t) PROVE Take(u.out \o u.pend, limit) = Take(Sorted(full), limit)
    <2> DEFINE O == {b \in Shown(t) : after < b /\ b <= a}
    <2>1. Lists(r.out, O) /\ From(Created(t, after), a) = {}
      <3>1. Lists(r.out, O) /\ Lists(r.pend, From(Created(t, after), a))
        BY <1>8 DEF Going
      <3> QED BY <3>1, ListsNumbers
    <2>2. Lists(Sorted(S), S)
      <3>1. S \in SUBSET Child
        BY Parts DEF From
      <3> HIDE DEF S
      <3> QED BY <3>1, ChildrenFinite, SortedLists
    <2>3. Shown(t) \in SUBSET Nat /\ IsFiniteSet(full)
      <3>1. Shown(t) \in SUBSET Child /\ full \in SUBSET Child
        BY Parts DEF From
      <3> QED BY <3>1, ChildrenFinite
    <2>4. \A x \in O, y \in S : x < y
      <3>1. \A x \in O : x \in Nat /\ x <= a
        BY <2>3
      <3>2. \A y \in S : y \in Nat /\ a < y
        BY Parts, ChildrenFinite DEF From
      <3> HIDE DEF O, S, a
      <3> QED BY <1>1, <3>1, <3>2
    <2>5. O \cup S = full
      <3>1. ASSUME NEW b \in Shown(t), after < b, a < b PROVE b \in S
        <4>1. b \notin Created(t, after)
          BY <2>1, <2>3, <3>1 DEF From
        <4>2. b \notin Created(t, 0)
          BY <2>3, <3>1, <4>1, Parts DEF From
        <4> QED BY <2>3, <3>1, <4>2 DEF Shown, From
      <3>2. \A b \in Shown(t) : (b > after <=> after < b) /\ (b <= a \/ a < b)
        <4> HIDE DEF a
        <4> QED BY <1>1, <2>3
      <3> HIDE DEF S, a
      <3>3. full \subseteq O \cup S
        BY <3>1, <3>2 DEF From
      <3>4. O \subseteq full
        BY <3>2 DEF From
      <3> HIDE DEF full, O
      <3> QED BY <1>3, <3>3, <3>4
    <2> HIDE DEF O
    <2>6. r.out \o Sorted(S) = Sorted(full)
      <3>1. Lists(r.out \o Sorted(S), O \cup S)
        <4> HIDE DEF S
        <4> QED BY <2>1, <2>2, <2>4, ListsConcat
      <3> HIDE DEF S, full
      <3> QED BY <2>3, <2>5, <3>1, SortedIs
    <2>7. page = Take(Sorted(S), n)
      BY DEF StoredPage, From
    <2>8. u.out \o u.pend = r.out \o page
      <3>1. r.out \o page = u.out
        OBVIOUS
      <3> HIDE DEF page
      <3> QED BY <1>6, <3>1, ConcatEmptySeq
    <2>9. Take(r.out \o Take(Sorted(S), n), limit) = Take(r.out \o Sorted(S), limit)
      <3>1. Sorted(S) \in Seq(Nat)
        BY <2>2 DEF Lists
      <3>2. Len(r.out) <= limit
        BY GoingParts
      <3> HIDE DEF S
      <3> QED BY <1>1, <3>1, <3>2, TakeFilled
    <2> HIDE DEF page, S, n, full
    <2> QED BY <2>6, <2>7, <2>8, <2>9
  <1> HIDE DEF full
  <1>9. ~Crowded(t) => Take(u.out \o u.pend, limit) = Take(Sorted(full), limit)
    BY <1>8
  <1> QED BY <1>6, <1>7, <1>9 DEF Ended, full

\* The page is full.
LEMMA TurnFull ==
  ASSUME NEW t \in Tx, NEW after \in Nat, NEW limit \in Nat, NEW r, Going(t, after, r),
         limit <= Len(r.out)
  PROVE  Ended(t, after, limit, r)
  <1>1. r.out \in Seq(Nat) /\ r.pend \in Seq(Nat) /\ r.at \in Nat /\ after <= r.at
    BY GoingParts
  <1>2. ToSet(r.out) \subseteq From(Shown(t), after) /\ ToSet(r.pend) \subseteq Created(t, after)
    BY DEF Going
  <1> DEFINE a == r.at
             full == From(Shown(t), after)
             O == {b \in Shown(t) : after < b /\ b <= a}
             H == {b \in Shown(t) : a < b}
  <1>3. ASSUME ~Crowded(t) PROVE Take(r.out \o r.pend, limit) = Take(Sorted(full), limit)
    <2>1. Lists(r.out, O)
      BY <1>3 DEF Going
    <2>2. /\ Shown(t) \in SUBSET Nat /\ IsFiniteSet(full)
          /\ H \in SUBSET Child
      BY Parts, ChildrenFinite DEF From
    <2>3. Lists(Sorted(H), H)
      <3> HIDE DEF H
      <3> QED BY <2>2, ChildrenFinite, SortedLists
    <2>4. \A x \in O, y \in H : x < y
      <3>1. a \in Nat
        BY <1>1
      <3> HIDE DEF a
      <3> QED BY <2>2, <3>1
    <2>5. O \cup H = full
      <3>1. a \in Nat /\ after <= a
        BY <1>1
      <3> HIDE DEF a
      <3>2. \A b \in Shown(t) : b > after <=> (after < b /\ b <= a) \/ a < b
        BY <2>2, <3>1
      <3> QED BY <3>2 DEF From
    <2>6. r.out \o Sorted(H) = Sorted(full)
      <3> HIDE DEF O, H, full
      <3>1. Lists(r.out \o Sorted(H), O \cup H)
        BY <2>1, <2>3, <2>4, ListsConcat
      <3> QED BY <2>2, <2>5, <3>1, SortedIs
    <2>7. Sorted(H) \in Seq(Nat)
      BY <2>3 DEF Lists
    <2> HIDE DEF H, full
    <2>8. Take(r.out \o r.pend, limit) = Take(r.out, limit)
      BY <1>1, TakeConcat
    <2>9. Take(r.out \o Sorted(H), limit) = Take(r.out, limit)
      BY <1>1, <2>7, TakeConcat
    <2> QED BY <2>6, <2>8, <2>9
  <1> HIDE DEF full
  <1>4. ~Crowded(t) => Take(r.out \o r.pend, limit) = Take(Sorted(full), limit)
    BY <1>3
  <1> QED BY <1>1, <1>2, <1>4 DEF Ended, full

\* What ListPage can stand at.
Standing(t, after, limit) ==
  {r \in Result : IF r.more THEN Going(t, after, r) /\ Len(r.out) < limit
                  ELSE Ended(t, after, limit, r)}

\* A turn of the inner loop over a page of the storage.
LEMMA TurnWeaves ==
  ASSUME NEW t \in Tx, NEW after \in Nat, NEW r, Going(t, after, r),
         NEW n \in Nat, StoredPage(r.at, n) # <<>>
  PROVE  LET u == WeavePage(t, after, r, StoredPage(r.at, n))
         IN Going(t, after, u) /\ u.at \in Child /\ r.at < u.at
  <1> DEFINE a == r.at
             page == StoredPage(a, n)
             B == ToSet(page)
             u == WeavePage(t, after, r, page)
  <1>1. a \in Nat /\ StoredChildren \in SUBSET Nat /\ StoredChildren \subseteq Child
    BY GoingParts, Parts, ChildrenFinite
  <1>2. /\ B \subseteq From(StoredChildren, a) /\ Lists(page, B)
        /\ \A b \in B, c \in From(StoredChildren, a) : c \notin B => b < c
    <2> HIDE DEF a
    <2> QED BY <1>1, StoredPageLists
  <1>3. B # {}
    BY <1>2, ListsNumbers
  <1> HIDE DEF B, page
  <1>4. B \subseteq StoredChildren /\ \A b \in B : a < b
    <2> HIDE DEF a
    <2> QED BY <1>1, <1>2 DEF From
  <1>5. \A b \in B, c \in StoredChildren \ B : a < c => b < c
    <2>1. ASSUME NEW c \in StoredChildren, a < c PROVE c \in From(StoredChildren, a)
      <3> HIDE DEF a
      <3> QED BY <1>1, <2>1 DEF From
    <2> QED BY <1>2, <2>1
  <1>6. Going(t, after, u) /\ u.at \in B
    BY <1>2, <1>3, <1>4, <1>5, WeavePageGoing
  <1> HIDE DEF u
  <1>7. u.at \in Child /\ a < u.at
    BY <1>1, <1>4, <1>6
  <1> QED BY <1>6, <1>7 DEF u, page

\* A turn leads from standing to standing, and it ends the loop or passes a child.
LEMMA TurnStands ==
  ASSUME NEW t \in Tx, NEW after \in Nat, NEW limit \in Nat,
         NEW r \in Standing(t, after, limit)
  PROVE  LET u == Turn(t, after, limit, r)
         IN /\ u \in Standing(t, after, limit)
            /\ u.more => r.more /\ u.at \in Child /\ r.at < u.at
  <1> DEFINE n == limit - Len(r.out) + r.del
             page == StoredPage(r.at, n)
             next == WeavePage(t, after, r, page)
             u == Turn(t, after, limit, r)
             Good == /\ u \in Standing(t, after, limit)
                     /\ u.more => r.more /\ u.at \in Child /\ r.at < u.at
  <1> SUFFICES Good
    OBVIOUS
  <1>1. CASE ~r.more
    <2>1. u = r
      BY <1>1 DEF Turn
    <2> HIDE DEF u
    <2> QED BY <1>1, <2>1
  <1>2. CASE r.more
    <2>1. Going(t, after, r) /\ Len(r.out) < limit /\ r \in Result
      BY <1>2 DEF Standing
    <2>2. /\ r.out \in Seq(Nat) /\ r.pend \in Seq(Nat) /\ r.at \in Nat
          /\ r.del \in Nat /\ Len(r.out) \in Nat
      BY <2>1, GoingParts
    <2>3. n \in Nat /\ n > 0
      BY <2>1, <2>2
    <2> HIDE DEF n
    <2>4. CASE page = <<>>
      <3>1. u = [r EXCEPT !.more = FALSE]
        BY <1>2, <2>4 DEF Turn, n
      <3>2. From(StoredChildren, r.at) = {}
        <4>1. ToSet(page) = {}
          BY <2>4, ToSetFew
        <4> DEFINE a == r.at
        <4>2. a \in Nat /\ ToSet(StoredPage(a, n)) = {}
          BY <2>2, <4>1
        <4> HIDE DEF a
        <4>3. n > 0 /\ From(StoredChildren, a) # {} => ToSet(StoredPage(a, n)) # {}
          BY <2>3, <4>2, StoredPageLists
        <4>4. From(StoredChildren, a) = {}
          BY <2>3, <4>2, <4>3
        <4> QED BY <4>4 DEF a
      <3> DEFINE v == [r EXCEPT !.more = FALSE]
      <3>a. Going(t, after, v) /\ v.more = FALSE /\ v.at = r.at
        BY <2>1, GoingMore
      <3>3. Going(t, after, u) /\ u.more = FALSE /\ u.at = r.at
        <4> HIDE DEF u, v
        <4> QED BY <3>1, <3>a DEF v
      <3> HIDE DEF u
      <3>4. Ended(t, after, limit, u)
        BY <3>2, <3>3, TurnEmpty
      <3>5. u \in Result
        BY <3>3 DEF Going
      <3> QED BY <3>3, <3>4, <3>5 DEF Standing
    <2>5. CASE page # <<>> /\ NothingPending(r)
      <3>1. r.pend = <<>> /\ r.del = 0 /\ n = limit - Len(r.out)
        BY <2>2, <2>5 DEF NothingPending, n
      <3>2. u = [r EXCEPT !.out = r.out \o page, !.more = FALSE]
        BY <1>2, <2>5 DEF Turn, n
      <3>3. page \in Seq(Nat)
        <4> DEFINE a == r.at
        <4>1. a \in Nat
          BY <2>2
        <4> HIDE DEF a
        <4>2. StoredPage(a, n) \in Seq(Nat)
          BY <2>3, <4>1, StoredPageLists DEF Lists
        <4> QED BY <4>2 DEF a
      <3> DEFINE o == r.out \o page
      <3>4. o \in Seq(Nat)
        <4> HIDE DEF page
        <4> QED BY <2>2, <3>3, ConcatProperties
      <3>5. u = [r EXCEPT !.out = o, !.more = FALSE]
        BY <3>2
      <3> HIDE DEF o, u
      <3>6. u \in Result /\ u.out = o /\ u.pend = r.pend /\ u.more = FALSE
        BY <2>1, <3>4, <3>5 DEF Result
      <3>7. u.out = r.out \o StoredPage(r.at, limit - Len(r.out)) /\ u.pend = <<>>
        BY <3>1, <3>6 DEF o
      <3>8. Ended(t, after, limit, u)
        BY <2>1, <3>1, <3>7, TurnPlain
      <3> QED BY <3>6, <3>8 DEF Standing
    <2>6. CASE page # <<>> /\ ~NothingPending(r)
      <3> DEFINE m == Len(next.out) < limit
      <3>1. u = [next EXCEPT !.more = m]
        BY <1>2, <2>6 DEF Turn, n
      <3>2. Going(t, after, next) /\ next.at \in Child /\ r.at < next.at
        BY <2>1, <2>3, <2>6, TurnWeaves
      <3> HIDE DEF next, u
      <3>3. /\ Going(t, after, u) /\ u.more = m /\ u.at = next.at /\ u.out = next.out
        <4> HIDE DEF m
        <4>1. m \in BOOLEAN
          BY DEF m
        <4> QED BY <3>1, <3>2, <4>1, GoingMore
      <3>4. u \in Result
        BY <3>3 DEF Going
      <3>5. ASSUME ~m PROVE Ended(t, after, limit, u)
        <4>1. u.out \in Seq(Nat) /\ Len(u.out) \in Nat /\ ~(Len(u.out) < limit)
          BY <3>3, <3>5, GoingParts
        <4>2. limit <= Len(u.out)
          BY <4>1
        <4> QED BY <3>3, <4>2, TurnFull
      <3> QED BY <1>2, <3>2, <3>3, <3>4, <3>5 DEF Standing
    <2> QED BY <2>4, <2>5, <2>6
  <1> QED BY <1>1, <1>2 DEF Standing, Result

\* Where ListPage starts.
LEMMA FillStart ==
  ASSUME NEW t \in Tx, NEW after \in Nat, NEW limit \in Nat \ {0}
  PROVE  [out |-> <<>>, pend |-> Sorted(Created(t, after)),
          del |-> Cardinality(Deleted(t, after)), at |-> after, more |-> TRUE]
           \in Standing(t, after, limit)
  <1> DEFINE C == Created(t, after)
             D == Deleted(t, after)
             p == Sorted(C)
             d == Cardinality(D)
             o == <<>>
             r == [out |-> o, pend |-> p, del |-> d, at |-> after, more |-> TRUE]
  <1>1. C \in SUBSET Nat /\ IsFiniteSet(C) /\ D \in SUBSET Nat /\ IsFiniteSet(D)
    BY Parts, ChildrenFinite
  <1>2. Lists(p, C) /\ d \in Nat
    <2> HIDE DEF C, D
    <2> QED BY <1>1, SortedLists, FS_CardinalityType
  <1>3. (\A c \in C : c > after) /\ (\A c \in D : c > after)
    BY DEF Created, Deleted
  <1>4. o \in Seq(Nat) /\ Len(o) = 0 /\ ToSet(o) = {}
    BY EmptySeq, ToSetFew
  <1>5. p \in Seq(Nat) /\ ToSet(p) = C
    BY <1>2 DEF Lists
  <1> HIDE DEF o, p, d
  <1>6. /\ r \in Result /\ r.out = o /\ r.pend = p /\ r.del = d /\ r.at = after /\ r.more = TRUE
    BY <1>2, <1>4, <1>5 DEF Result
  <1>7. d = Cardinality(StillDeleted(t, after, after))
    <2>1. StillDeleted(t, after, after) = D
      BY <1>3 DEF StillDeleted
    <2> QED BY <2>1 DEF d
  <1>8. Lists(o, {b \in Shown(t) : after < b /\ b <= after}) /\ Lists(p, From(C, after))
    <2>1. From(C, after) = C
      BY <1>3 DEF From
    <2>2. {b \in Shown(t) : after < b /\ b <= after} = {}
      <3>1. \A b \in Shown(t) : b \in Nat
        BY Parts, ChildrenFinite
      <3> QED BY <3>1
    <2>3. Lists(o, {})
      BY ListsFew DEF o
    <2> HIDE DEF C
    <2> QED BY <1>2, <2>1, <2>2, <2>3
  <1> HIDE DEF r
  <1>9. Going(t, after, r)
    BY <1>4, <1>5, <1>6, <1>7, <1>8 DEF Going
  <1>10. Len(r.out) < limit
    BY <1>4, <1>6
  <1>11. r \in Standing(t, after, limit)
    BY <1>6, <1>9, <1>10 DEF Standing
  <1> QED BY <1>11 DEF r, o, p, d

\* The outer loop of ListPage, a turn at a time.
LEMMA FillRun ==
  ASSUME NEW t \in Tx, NEW after \in Nat, NEW limit \in Nat \ {0}
  PROVE  \E g : /\ Fill(t, after, limit) = g[Cardinality(Child) + 1]
                /\ \A i \in 0 .. Cardinality(Child) + 1 : g[i] \in Standing(t, after, limit)
                /\ \A i \in 1 .. Cardinality(Child) + 1 :
                     g[i] = Turn(t, after, limit, g[i - 1])
  <1> DEFINE n == Cardinality(Child) + 1
             V == Standing(t, after, limit)
             start == [out |-> <<>>, pend |-> Sorted(Created(t, after)),
                       del |-> Cardinality(Deleted(t, after)), at |-> after, more |-> TRUE]
             F == [i \in 1 .. n |-> [r \in V |-> Turn(t, after, limit, r)]]
             Def(g) == [i \in 0 .. n |-> IF i = 0 THEN start ELSE Turn(t, after, limit, g[i - 1])]
  <1>1. n \in Nat
    BY ChildrenFinite, FS_CardinalityType
  <1>2. start \in V
    BY FillStart
  <1>3. F \in Steps(n, V)
    <2>1. \A r \in V : Turn(t, after, limit, r) \in V
      BY TurnStands
    <2> HIDE DEF n, V
    <2> QED BY <2>1 DEF Steps
  <1> HIDE DEF start
  <1>4. PICK g : /\ g \in [0 .. n -> V] /\ g[0] = start
                 /\ \A i \in 1 .. n : g[i] = F[i][g[i - 1]]
    <2> HIDE DEF F, n, V
    <2>1. PICK g : Leads(n, V, F, start, g)
      BY <1>1, <1>2, <1>3, Iteration
    <2>2. /\ g \in [0 .. n -> V] /\ g[0] = start
          /\ \A i \in 1 .. n : g[i] = F[i][g[i - 1]]
      BY <2>1 DEF Leads
    <2> QED BY <2>2
  <1>5. g = Def(g)
    <2>1. ASSUME NEW i \in 0 .. n
          PROVE  g[i] = IF i = 0 THEN start ELSE Turn(t, after, limit, g[i - 1])
      <3>1. CASE i = 0
        BY <3>1, <1>4
      <3>2. CASE i # 0
        <4>1. i \in 1 .. n /\ g[i - 1] \in V
          <5> HIDE DEF n, V
          <5> QED BY <1>1, <1>4, <3>2
        <4> QED BY <1>4, <3>2, <4>1
      <3> QED BY <3>1, <3>2
    <2>2. g = [i \in 0 .. n |-> g[i]]
      <3> HIDE DEF n, V
      <3> QED BY <1>4
    <2> HIDE DEF n
    <2> QED BY <2>1, <2>2, Zenon
  <1> DEFINE w == CHOOSE f : f = Def(f)
  <1>6. w = Def(w)
    BY <1>5, Zenon
  <1>7. Fill(t, after, limit) = w[n]
    BY Zenon DEF Fill, start
  <1> HIDE DEF w
  <1>8. w[0] = start /\ \A i \in 1 .. n : w[i] = Turn(t, after, limit, w[i - 1])
    <2>1. \A i \in 0 .. n : w[i] = IF i = 0 THEN start ELSE Turn(t, after, limit, w[i - 1])
      BY <1>6, Zenon
    <2> HIDE DEF n
    <2> QED BY <1>1, <2>1
  <1> HIDE DEF n, V
  <1>9. \A i \in 0 .. n : w[i] \in V
    <2> DEFINE P == {i \in 0 .. n : w[i] \in V}
    <2>1. 0 \in P
      BY <1>1, <1>2, <1>8
    <2>2. ASSUME NEW i \in 1 .. n, i - 1 \in P PROVE i \in P
      <3>1. w[i - 1] \in V
        BY <2>2
      <3>2. Turn(t, after, limit, w[i - 1]) \in V
        BY <3>1, TurnStands DEF V
      <3> QED BY <1>1, <1>8, <3>2
    <2> HIDE DEF P
    <2>3. \A i \in 0 .. n : i \in P
      BY <1>1, <2>1, <2>2, Upward
    <2> QED BY <2>3 DEF P
  <1> QED BY <1>7, <1>8, <1>9 DEF n, V

\* There are fewer children behind a child than behind one before it.
LEMMA FewerBehind ==
  ASSUME NEW a \in Nat, NEW c \in Child, a < c
  PROVE  /\ Cardinality(From(Child, c)) \in Nat /\ Cardinality(From(Child, a)) \in Nat
         /\ Cardinality(From(Child, c)) + 1 <= Cardinality(From(Child, a))
         /\ Cardinality(From(Child, a)) <= Cardinality(Child) /\ Cardinality(Child) \in Nat
  <1> DEFINE A == From(Child, a)
             C == From(Child, c)
             B == A \ {c}
  <1>1. IsFiniteSet(Child) /\ Child \in SUBSET Nat
    BY ChildrenFinite
  <1>2. A \in SUBSET Child /\ c \in A /\ C \in SUBSET B
    <2>1. \A b \in Child : b > c => b > a /\ b # c
      BY <1>1
    <2> QED BY <1>1, <2>1 DEF From
  <1> HIDE DEF A, C
  <1>3. IsFiniteSet(A) /\ Cardinality(A) <= Cardinality(Child)
    BY <1>1, <1>2, FS_Subset
  <1>4. IsFiniteSet(B) /\ Cardinality(B) = Cardinality(A) - 1
    BY <1>2, <1>3, FS_RemoveElement
  <1>5. IsFiniteSet(C) /\ Cardinality(C) <= Cardinality(B)
    <2> HIDE DEF B
    <2> QED BY <1>2, <1>4, FS_Subset
  <1>6. Cardinality(A) \in Nat /\ Cardinality(C) \in Nat /\ Cardinality(Child) \in Nat
    BY <1>1, <1>3, <1>5, FS_CardinalityType
  <1>7. Cardinality(C) + 1 <= Cardinality(A)
    BY <1>4, <1>5, <1>6
  <1> QED BY <1>3, <1>6, <1>7 DEF A, C

\* The outer loop ends within its turns.
LEMMA FillEnds ==
  ASSUME NEW t \in Tx, NEW after \in Nat, NEW limit \in Nat \ {0}
  PROVE  Ended(t, after, limit, Fill(t, after, limit))
  <1> DEFINE m == Cardinality(Child)
             n == m + 1
             V == Standing(t, after, limit)
             Behind(a) == Cardinality(From(Child, a))
  <1>1. m \in Nat /\ n \in Nat
    BY ChildrenFinite, FS_CardinalityType
  <1>2. PICK g : /\ Fill(t, after, limit) = g[n]
                 /\ \A i \in 0 .. n : g[i] \in V
                 /\ \A i \in 1 .. n : g[i] = Turn(t, after, limit, g[i - 1])
    BY FillRun
  <1> DEFINE P == {i \in 0 .. n : g[i].more => Behind(g[i].at) \in Nat /\ Behind(g[i].at) + i <= m}
  <1>3. \A i \in 0 .. n : g[i].at \in Nat
    BY <1>2 DEF Standing, Result
  <1> HIDE DEF m, n, V
  <1>4. 0 \in P
    <2>1. From(Child, g[0].at) \in SUBSET Child
      BY DEF From
    <2>2. Behind(g[0].at) \in Nat /\ Behind(g[0].at) <= m
      BY <2>1, ChildrenFinite, FS_CardinalityType, FS_Subset DEF m
    <2> HIDE DEF Behind
    <2> QED BY <1>1, <2>2
  <1>5. ASSUME NEW i \in 1 .. n, i - 1 \in P PROVE i \in P
    <2> DEFINE r == g[i - 1]
               u == g[i]
    <2>1. i - 1 \in 0 .. n /\ i \in 0 .. n /\ r \in V /\ u = Turn(t, after, limit, r)
      BY <1>1, <1>2
    <2>2. r.at \in Nat /\ u.at \in Nat
      BY <1>3, <2>1
    <2>3. r.more => Behind(r.at) \in Nat /\ Behind(r.at) + (i - 1) <= m
      BY <1>5
    <2> HIDE DEF r, u, Behind
    <2>4. u.more => r.more /\ u.at \in Child /\ r.at < u.at
      BY <2>1, TurnStands DEF V
    <2>5. u.more => Behind(u.at) \in Nat /\ Behind(u.at) + 1 <= Behind(r.at)
      BY <2>2, <2>4, FewerBehind DEF Behind
    <2>6. u.more => Behind(u.at) \in Nat /\ Behind(u.at) + i <= m
      BY <1>1, <2>1, <2>3, <2>4, <2>5
    <2> QED BY <2>1, <2>6 DEF u
  <1>6. n \in P
    <2> HIDE DEF P
    <2>1. \A i \in 0 .. n : i \in P
      BY <1>1, <1>4, <1>5, Upward
    <2> QED BY <1>1, <2>1
  <1>7. ~g[n].more
    <2> HIDE DEF Behind
    <2> QED BY <1>1, <1>6 DEF n
  <1>8. g[n] \in V
    BY <1>1, <1>2
  <1> QED BY <1>2, <1>7, <1>8 DEF V, Standing

\* What ListPage shows is to be shown, and it is the page unless children crowd.
LEMMA PageOf ==
  ASSUME NEW t \in Tx, NEW after \in Nat, NEW limit \in Nat \ {0}
  PROVE  /\ ListPage(t, after, limit) \in Seq(Nat)
         /\ ToSet(ListPage(t, after, limit)) \subseteq From(Shown(t), after)
         /\ ~Crowded(t) =>
              ListPage(t, after, limit) = Take(Sorted(From(Shown(t), after)), limit)
  <1> DEFINE full == From(Shown(t), after)
             page == ListPage(t, after, limit)
  <1>1. CASE Created(t, after) \cup Deleted(t, after) = {}
    <2>1. page = StoredPage(after, limit)
      BY <1>1 DEF ListPage
    <2>2. From(StoredChildren, after) = full
      <3>1. ASSUME NEW c \in Child, c > after PROVE c \notin Created(t, 0) /\ c \notin Deleted(t, 0)
        BY <1>1, <3>1, Parts DEF From
      <3> QED BY <3>1, Parts DEF From, Shown
    <2>3. page = Take(Sorted(full), limit)
      BY <2>1, <2>2 DEF StoredPage, From
    <2>4. Lists(page, ToSet(page)) /\ ToSet(page) \subseteq full
      BY <2>1, <2>2, StoredPageLists
    <2> QED BY <2>3, <2>4 DEF Lists
  <1>2. CASE Created(t, after) \cup Deleted(t, after) # {}
    <2> DEFINE r == Fill(t, after, limit)
               s == r.out \o r.pend
    <2>1. page = Take(s, limit)
      BY <1>2 DEF ListPage
    <2>2. Ended(t, after, limit, r)
      BY FillEnds
    <2> HIDE DEF r
    <2>3. /\ r.out \in Seq(Nat) /\ r.pend \in Seq(Nat)
          /\ ToSet(r.out) \subseteq full /\ ToSet(r.pend) \subseteq full
          /\ ~Crowded(t) => Take(s, limit) = Take(Sorted(full), limit)
      BY <2>2, ShownParts DEF Ended
    <2> HIDE DEF page, full
    <2>4. s \in Seq(Nat) /\ ToSet(s) \subseteq full
      <3>1. s \in Seq(Nat) /\ ToSet(s) = ToSet(r.out) \cup ToSet(r.pend)
        BY <2>3, ToSetConcat, ConcatProperties
      <3> QED BY <2>3, <3>1
    <2> HIDE DEF s
    <2>5. /\ Take(s, limit) \in Seq(Nat)
          /\ \A i \in 1 .. Len(Take(s, limit)) : i \in 1 .. Len(s) /\ Take(s, limit)[i] = s[i]
      BY <2>4, TakeDef
    <2>6. ToSet(Take(s, limit)) \subseteq ToSet(s)
      <3>1. DOMAIN s = 1 .. Len(s) /\ DOMAIN Take(s, limit) = 1 .. Len(Take(s, limit))
        BY <2>4, <2>5, LenProperties
      <3> QED BY <2>5, <3>1 DEF ToSet
    <2> QED BY <2>1, <2>3, <2>4, <2>5, <2>6 DEF page, full
  <1> QED BY <1>1, <1>2

-----------------------------------------------------------------------------
(* listPaged: page after page.                                              *)

\* Where the caller of ListPage can be. It has shown nothing that is not to be
\* shown, and unless children crowd, it has shown all there is up to a child.
Walked(t) ==
  {p \in [shown : Seq(Nat), after : Nat] :
     /\ ToSet(p.shown) \subseteq Shown(t)
     /\ ~Crowded(t) => Lists(p.shown, {b \in Shown(t) : b <= p.after})}

\* The last of a page that is not empty is a child behind those before it.
LEMMA PageLast ==
  ASSUME NEW t \in Tx, NEW after \in Nat, NEW limit \in Nat \ {0},
         ListPage(t, after, limit) # <<>>
  PROVE  /\ Last(ListPage(t, after, limit)) \in From(Shown(t), after)
         /\ Last(ListPage(t, after, limit)) \in Child
         /\ Last(ListPage(t, after, limit)) \in Nat
         /\ after < Last(ListPage(t, after, limit))
  <1> DEFINE page == ListPage(t, after, limit)
  <1>1. page \in Seq(Nat) /\ ToSet(page) \subseteq From(Shown(t), after)
    BY PageOf
  <1> HIDE DEF page
  <1>2. page # <<>>
    BY DEF page
  <1>3. Len(page) \in 1 .. Len(page) /\ DOMAIN page = 1 .. Len(page)
    BY <1>1, <1>2, EmptySeq, LenProperties
  <1>4. Last(page) \in ToSet(page)
    BY <1>3 DEF Last, ToSet
  <1>5. Last(page) \in From(Shown(t), after)
    BY <1>1, <1>4
  <1>6. Last(page) \in Child /\ Last(page) \in Nat /\ Last(page) > after
    BY <1>5, Parts, ChildrenFinite DEF From
  <1> QED BY <1>5, <1>6 DEF page

\* The next page.
LEMMA NextPageWalked ==
  ASSUME NEW t \in Tx, NEW size \in Nat \ {0}, NEW p \in Walked(t)
  PROVE  LET u == NextPage(t, size, p)
         IN /\ u \in Walked(t)
            /\ ListPage(t, p.after, size) = <<>> => u = p
            /\ ListPage(t, p.after, size) # <<>> => u.after \in Child /\ p.after < u.after
  <1> DEFINE a == p.after
             s == p.shown
             page == ListPage(t, a, size)
             u == NextPage(t, size, p)
             Good == /\ u \in Walked(t)
                     /\ page = <<>> => u = p
                     /\ page # <<>> => u.after \in Child /\ a < u.after
  <1> SUFFICES Good
    OBVIOUS
  <1>1. s \in Seq(Nat) /\ a \in Nat /\ ToSet(s) \subseteq Shown(t)
    BY DEF Walked
  <1>2. CASE page = <<>>
    <2>1. u = p
      BY <1>2 DEF NextPage
    <2> HIDE DEF u
    <2> QED BY <1>2, <2>1
  <1>3. CASE page # <<>>
    <2> DEFINE e == Last(page)
               o == s \o page
               full == From(Shown(t), a)
    <2>1. u = [shown |-> o, after |-> e]
      BY <1>3 DEF NextPage
    <2> HIDE DEF s
    <2>2. page \in Seq(Nat) /\ ToSet(page) \subseteq full
      <3> HIDE DEF a
      <3> QED BY <1>1, PageOf
    <2>3. e \in Child /\ e \in Nat /\ a < e
      <3> HIDE DEF a
      <3> QED BY <1>1, <1>3, PageLast
    <2>4. o \in Seq(Nat) /\ ToSet(o) \subseteq Shown(t)
      <3>1. o \in Seq(Nat) /\ ToSet(o) = ToSet(s) \cup ToSet(page)
        <4> HIDE DEF page
        <4> QED BY <1>1, <2>2, ToSetConcat, ConcatProperties
      <3> QED BY <1>1, <2>2, <3>1 DEF From
    <2>5. ASSUME ~Crowded(t) PROVE Lists(o, {b \in Shown(t) : b <= e})
      <3> DEFINE B == ToSet(page)
                 O == {b \in Shown(t) : b <= a}
      <3>1. Lists(s, O)
        BY <2>5 DEF Walked, s
      <3>2. Lists(page, B) /\ B \subseteq full /\ \A b \in B, c \in full \ B : b < c
        <4>1. page = Take(Sorted(full), size)
          <5> HIDE DEF a
          <5> QED BY <1>1, <2>5, PageOf
        <4>2. Lists(Sorted(full), full)
          <5>1. full \in SUBSET Child
            BY Parts DEF From
          <5> HIDE DEF full
          <5> QED BY <5>1, ChildrenFinite, SortedLists
        <4> DEFINE q == Take(Sorted(full), size)
        <4>3. /\ ToSet(q) \subseteq full
              /\ Lists(q, ToSet(q))
              /\ \A b \in ToSet(q), c \in full \ ToSet(q) : b < c
          <5> HIDE DEF full
          <5> QED BY <4>2, ListsTake
        <4> HIDE DEF page, full
        <4> QED BY <4>1, <4>3
      <3>3. Shown(t) \in SUBSET Nat
        BY Parts, ChildrenFinite
      <3>4. e \in B /\ \A b \in B : b <= e
        <4>1. B # {}
          BY <1>3, <3>2, ListsNumbers
        <4> HIDE DEF B, page
        <4> QED BY <3>2, <4>1, ListsEnds DEF e
      <3> HIDE DEF B, e, page
      <3>5. \A b \in full : b \in Shown(t) /\ b \in Nat /\ a < b
        <4> HIDE DEF a
        <4> QED BY <1>1, <3>3 DEF From
      <3>6. \A b \in Shown(t) : a < b => b \in full
        <4> HIDE DEF a
        <4> QED BY <1>1, <3>3 DEF From
      <3> HIDE DEF full, a
      <3>7. \A x \in O, y \in B : x < y
        <4>1. \A y \in B : y \in Nat /\ a < y
          BY <3>2, <3>5
        <4> QED BY <1>1, <3>3, <4>1
      <3>8. O \cup B = {b \in Shown(t) : b <= e}
        <4>1. ASSUME NEW b \in Shown(t), b <= e PROVE b \in O \cup B
          <5>1. b \in Nat
            BY <3>3
          <5>2. CASE b <= a
            BY <5>2
          <5>3. CASE a < b
            <6>1. b \in full
              BY <3>6, <5>3
            <6>2. b \notin B => e < b
              BY <3>2, <3>4, <6>1
            <6> QED BY <2>3, <4>1, <5>1, <6>2
          <5> QED BY <1>1, <5>1, <5>2, <5>3
        <4>2. ASSUME NEW b \in B PROVE b \in Shown(t) /\ b <= e
          BY <3>2, <3>4, <3>5
        <4>3. ASSUME NEW b \in O PROVE b \in Shown(t) /\ b <= e
          <5>1. b \in Nat /\ b <= a
            BY <3>3
          <5> QED BY <1>1, <2>3, <5>1
        <4> HIDE DEF O
        <4> QED BY <4>1, <4>2, <4>3
      <3> HIDE DEF O
      <3>9. Lists(s \o page, O \cup B)
        BY <3>1, <3>2, <3>7, ListsConcat
      <3> QED BY <3>8, <3>9
    <2> HIDE DEF o, e, page, u
    <2>6. u.shown = o /\ u.after = e /\ u \in [shown : Seq(Nat), after : Nat]
      BY <2>1, <2>3, <2>4
    <2>7. u \in Walked(t)
      <3>1. ~Crowded(t) => Lists(o, {b \in Shown(t) : b <= e})
        BY <2>5
      <3> QED BY <2>4, <2>6, <3>1 DEF Walked
    <2> QED BY <1>3, <2>3, <2>6, <2>7
  <1> QED BY <1>2, <1>3

\* The pages of a listing, one after the other.
LEMMA PagedRun ==
  ASSUME NEW t \in Tx, NEW size \in Nat \ {0}
  PROVE  \E w : /\ Paged(t, size) = w[Cardinality(Child)].shown
                /\ \A i \in 0 .. Cardinality(Child) : w[i] \in Walked(t)
                /\ \A i \in 1 .. Cardinality(Child) : w[i] = NextPage(t, size, w[i - 1])
  <1> DEFINE n == Cardinality(Child)
             V == Walked(t)
             start == [shown |-> <<>>, after |-> 0]
             F == [i \in 1 .. n |-> [p \in V |-> NextPage(t, size, p)]]
             Def(g) == [i \in 0 .. n |-> IF i = 0 THEN start ELSE NextPage(t, size, g[i - 1])]
  <1>1. n \in Nat
    BY ChildrenFinite, FS_CardinalityType
  <1>2. start \in V
    <2> DEFINE o == <<>>
    <2>1. o \in Seq(Nat) /\ ToSet(o) = {} /\ Lists(o, {})
      BY EmptySeq, ToSetFew, ListsFew
    <2> HIDE DEF o
    <2> DEFINE x == [shown |-> o, after |-> 0]
    <2>2. x \in [shown : Seq(Nat), after : Nat] /\ x.shown = o /\ x.after = 0
      BY <2>1
    <2>3. {b \in Shown(t) : b <= 0} = {}
      <3>1. \A b \in Shown(t) : b \in Nat \ {0}
        BY Parts, ChildrenFinite
      <3> QED BY <3>1
    <2> HIDE DEF x
    <2>4. ToSet(x.shown) \subseteq Shown(t) /\ Lists(x.shown, {b \in Shown(t) : b <= x.after})
      BY <2>1, <2>2, <2>3
    <2>5. x \in V
      BY <2>2, <2>4 DEF Walked
    <2> QED BY <2>5 DEF x, o
  <1>3. F \in Steps(n, V)
    <2>1. \A p \in V : NextPage(t, size, p) \in V
      BY NextPageWalked
    <2> HIDE DEF n, V
    <2> QED BY <2>1 DEF Steps
  <1> HIDE DEF start
  <1>4. PICK g : /\ g \in [0 .. n -> V] /\ g[0] = start
                 /\ \A i \in 1 .. n : g[i] = F[i][g[i - 1]]
    <2> HIDE DEF F, n, V
    <2>1. PICK g : Leads(n, V, F, start, g)
      BY <1>1, <1>2, <1>3, Iteration
    <2>2. /\ g \in [0 .. n -> V] /\ g[0] = start
          /\ \A i \in 1 .. n : g[i] = F[i][g[i - 1]]
      BY <2>1 DEF Leads
    <2> QED BY <2>2
  <1>5. g = Def(g)
    <2>1. ASSUME NEW i \in 0 .. n
          PROVE  g[i] = IF i = 0 THEN start ELSE NextPage(t, size, g[i - 1])
      <3>1. CASE i = 0
        BY <3>1, <1>4
      <3>2. CASE i # 0
        <4>1. i \in 1 .. n /\ g[i - 1] \in V
          <5> HIDE DEF n, V
          <5> QED BY <1>1, <1>4, <3>2
        <4> QED BY <1>4, <3>2, <4>1
      <3> QED BY <3>1, <3>2
    <2>2. g = [i \in 0 .. n |-> g[i]]
      <3> HIDE DEF n, V
      <3> QED BY <1>4
    <2> HIDE DEF n
    <2> QED BY <2>1, <2>2, Zenon
  <1> DEFINE w == CHOOSE f : f = Def(f)
  <1>6. w = Def(w)
    BY <1>5, Zenon
  <1>7. Paged(t, size) = w[n].shown
    BY Zenon DEF Paged, start
  <1> HIDE DEF w
  <1>8. w[0] = start /\ \A i \in 1 .. n : w[i] = NextPage(t, size, w[i - 1])
    <2>1. \A i \in 0 .. n : w[i] = IF i = 0 THEN start ELSE NextPage(t, size, w[i - 1])
      BY <1>6, Zenon
    <2> HIDE DEF n
    <2> QED BY <1>1, <2>1
  <1> HIDE DEF n, V
  <1>9. \A i \in 0 .. n : w[i] \in V
    <2> DEFINE P == {i \in 0 .. n : w[i] \in V}
    <2>1. 0 \in P
      BY <1>1, <1>2, <1>8
    <2>2. ASSUME NEW i \in 1 .. n, i - 1 \in P PROVE i \in P
      <3>1. w[i - 1] \in V
        BY <2>2
      <3>2. NextPage(t, size, w[i - 1]) \in V
        BY <3>1, NextPageWalked DEF V
      <3> QED BY <1>1, <1>8, <3>2
    <2> HIDE DEF P
    <2>3. \A i \in 0 .. n : i \in P
      BY <1>1, <2>1, <2>2, Upward
    <2> QED BY <2>3 DEF P
  <1> QED BY <1>7, <1>8, <1>9 DEF n, V

\* A listing by pages ends with an empty one, within its pages.
LEMMA PagedEnds ==
  ASSUME NEW t \in Tx, NEW size \in Nat \ {0}
  PROVE  \E p \in Walked(t) : Paged(t, size) = p.shown /\ ListPage(t, p.after, size) = <<>>
  <1> DEFINE m == Cardinality(Child)
             Behind(a) == Cardinality(From(Child, a))
             Over(a) == ListPage(t, a, size) = <<>>
  <1>1. m \in Nat
    BY ChildrenFinite, FS_CardinalityType
  <1>2. PICK w : /\ Paged(t, size) = w[m].shown
                 /\ \A i \in 0 .. m : w[i] \in Walked(t)
                 /\ \A i \in 1 .. m : w[i] = NextPage(t, size, w[i - 1])
    BY PagedRun
  <1>3. \A i \in 0 .. m : w[i].after \in Nat
    BY <1>2 DEF Walked
  <1>4. ASSUME NEW a \in Nat PROVE Behind(a) \in Nat /\ Behind(a) <= m
    <2>1. From(Child, a) \in SUBSET Child
      BY DEF From
    <2> QED BY <2>1, ChildrenFinite, FS_CardinalityType, FS_Subset
  <1> HIDE DEF m
  <1> DEFINE P == {i \in 0 .. m : Over(w[i].after) \/ Behind(w[i].after) + i <= m}
  <1>5. 0 \in P
    <2>1. Behind(w[0].after) \in Nat /\ Behind(w[0].after) <= m
      BY <1>1, <1>3, <1>4
    <2> HIDE DEF Behind, Over
    <2> QED BY <1>1, <2>1
  <1>6. ASSUME NEW i \in 1 .. m, i - 1 \in P PROVE i \in P
    <2> DEFINE p == w[i - 1]
               u == w[i]
    <2>1. i - 1 \in 0 .. m /\ i \in 0 .. m /\ p \in Walked(t) /\ u = NextPage(t, size, p)
      BY <1>1, <1>2
    <2>2. p.after \in Nat /\ u.after \in Nat
      BY <1>3, <2>1
    <2>3. Over(p.after) \/ Behind(p.after) + (i - 1) <= m
      BY <1>6
    <2> HIDE DEF p, u, Behind
    <2>4. CASE Over(p.after)
      <3>1. u = p
        BY <2>1, <2>4, NextPageWalked
      <3> HIDE DEF Over
      <3> QED BY <2>1, <2>4, <3>1 DEF u
    <2>5. CASE ~Over(p.after)
      <3>1. u.after \in Child /\ p.after < u.after
        BY <2>1, <2>5, NextPageWalked
      <3>2. /\ Behind(u.after) \in Nat /\ Behind(p.after) \in Nat
            /\ Behind(u.after) + 1 <= Behind(p.after)
        BY <2>2, <3>1, FewerBehind DEF Behind
      <3>3. Behind(u.after) + i <= m
        <4> HIDE DEF Over
        <4> QED BY <1>1, <2>3, <2>5, <3>2
      <3> QED BY <2>1, <3>3 DEF u
    <2> QED BY <2>4, <2>5
  <1>7. m \in P
    <2> HIDE DEF P
    <2>1. \A i \in 0 .. m : i \in P
      BY <1>1, <1>5, <1>6, Upward
    <2> QED BY <1>1, <2>1
  <1> DEFINE p == w[m]
  <1>8. p \in Walked(t) /\ p.after \in Nat
    BY <1>1, <1>2, <1>3
  <1>9. Over(p.after)
    <2>1. SUFFICES ASSUME ~Over(p.after) PROVE FALSE
      OBVIOUS
    <2>2. Last(ListPage(t, p.after, size)) \in Child /\ p.after < Last(ListPage(t, p.after, size))
      <3> DEFINE a == p.after
      <3>1. a \in Nat /\ ListPage(t, a, size) # <<>>
        BY <1>8, <2>1
      <3> HIDE DEF a
      <3>2. Last(ListPage(t, a, size)) \in Child /\ a < Last(ListPage(t, a, size))
        BY <3>1, PageLast
      <3> QED BY <3>2 DEF a
    <2>3. Behind(p.after) >= 1 /\ Behind(p.after) \in Nat
      <3> DEFINE a == p.after
                 c == Last(ListPage(t, a, size))
      <3>1. a \in Nat /\ c \in Child /\ a < c
        BY <1>8, <2>2
      <3> HIDE DEF a, c
      <3>2. /\ Cardinality(From(Child, c)) \in Nat /\ Cardinality(From(Child, a)) \in Nat
            /\ Cardinality(From(Child, c)) + 1 <= Cardinality(From(Child, a))
        BY <3>1, FewerBehind
      <3>3. Cardinality(From(Child, a)) >= 1
        BY <3>2
      <3> QED BY <3>2, <3>3 DEF a
    <2>4. Behind(p.after) + m <= m
      BY <1>7, <2>1
    <2> HIDE DEF Behind, Over, p
    <2> QED BY <1>1, <2>3, <2>4
  <1> HIDE DEF p
  <1> QED BY <1>2, <1>8, <1>9 DEF p

-----------------------------------------------------------------------------
(* The properties.                                                          *)

\* Whatever is stored and logged, List is sorted, without repetition, and
\* agrees with Get.
LEMMA TypeListAgrees == TypeOK => ListAgreesWithGet
  <1> SUFFICES ASSUME TypeOK, NEW t \in Open
               PROVE  LET l == List(t)
                      IN /\ \A i, j \in DOMAIN l : i < j => l[i] < l[j]
                         /\ Visible(t) \subseteq ToSet(l)
                         /\ ToSet(l) \cap Leaf \subseteq Visible(t)
    BY DEF ListAgreesWithGet
  <1>1. t \in Tx
    BY DEF Open
  <1>2. Increasing(List(t)) /\ ToSet(List(t)) = Shown(t)
    BY <1>1, ListLists DEF Lists
  <1>3. Visible(t) \subseteq Shown(t) /\ Shown(t) \cap Leaf \subseteq Visible(t)
    BY <1>1, VisibleShown, ShownLeafVisible
  <1> QED BY <1>2, <1>3 DEF Increasing

\* Whatever is stored and logged, each page that is not empty passes a child.
LEMMA TypeAdvance == TypeOK => PagesAdvance
  <1> SUFFICES ASSUME NEW t \in Open, NEW n \in 1 .. MaxPage, NEW a \in {0} \cup Child,
                      ListPage(t, a, n) # <<>>
               PROVE  Last(ListPage(t, a, n)) > a
    BY DEF PagesAdvance
  <1>1. t \in Tx /\ n \in Nat \ {0}
    BY ShimListAssumption DEF Open
  <1>2. a \in Nat
    BY ChildrenFinite
  <1>3. Last(ListPage(t, a, n)) \in Nat /\ a < Last(ListPage(t, a, n))
    BY <1>1, <1>2, PageLast
  <1> QED BY <1>2, <1>3

\* A page, in order or not, shows nothing that Get does not find.
LEMMA TypeShowNothing == TypeOK => PagesShowNothingDeleted
  <1> SUFFICES ASSUME TypeOK, NEW t \in Open, NEW n \in 1 .. MaxPage
               PROVE  ToSet(Paged(t, n)) \cap Leaf \subseteq Visible(t)
    BY DEF PagesShowNothingDeleted
  <1>1. t \in Tx /\ n \in Nat \ {0}
    BY ShimListAssumption DEF Open
  <1>2. PICK p \in Walked(t) : Paged(t, n) = p.shown
    BY <1>1, PagedEnds
  <1>3. ToSet(Paged(t, n)) \subseteq Shown(t)
    BY <1>2 DEF Walked
  <1> QED BY <1>1, <1>3, ShownLeafVisible

\* The walk over the pages of a directory that is not crowded comes to its end.
LEMMA TypePagesComplete == TypeOK => SparsePagesComplete
  <1> SUFFICES ASSUME TypeOK, NEW t \in Open, ~Crowded(t), NEW n \in 1 .. MaxPage
               PROVE  Paged(t, n) = List(t)
    BY DEF SparsePagesComplete
  <1>1. t \in Tx /\ n \in Nat \ {0}
    BY ShimListAssumption DEF Open
  <1>2. PICK p \in Walked(t) : Paged(t, n) = p.shown /\ ListPage(t, p.after, n) = <<>>
    BY <1>1, PagedEnds
  <1> DEFINE a == p.after
             full == From(Shown(t), a)
  <1>3. a \in Nat /\ Lists(Paged(t, n), {b \in Shown(t) : b <= a})
    BY <1>2 DEF Walked
  <1>4. full = {}
    <2>1. Take(Sorted(full), n) = <<>>
      <3>1. ListPage(t, a, n) = Take(Sorted(full), n)
        <4> HIDE DEF a
        <4> QED BY <1>1, <1>3, PageOf
      <3> QED BY <1>2, <3>1
    <2>2. Lists(Sorted(full), full)
      <3>1. full \in SUBSET Child
        BY <1>1, Parts DEF From
      <3> HIDE DEF full
      <3> QED BY <3>1, ChildrenFinite, SortedLists
    <2> HIDE DEF full
    <2>3. ToSet(Take(Sorted(full), n)) = {}
      BY <2>1, ToSetFew
    <2>4. n > 0 /\ full # {} => ToSet(Take(Sorted(full), n)) # {}
      BY <1>1, <2>2, ListsTake
    <2> QED BY <1>1, <2>3, <2>4
  <1>5. {b \in Shown(t) : b <= a} = Shown(t)
    <2>1. Shown(t) \in SUBSET Nat
      BY <1>1, Parts, ChildrenFinite
    <2>2. \A b \in Shown(t) : ~(b > a)
      BY <1>4 DEF From
    <2> HIDE DEF a
    <2>3. \A b \in Shown(t) : b <= a
      BY <1>3, <2>1, <2>2
    <2> QED BY <2>3
  <1> HIDE DEF a
  <1>6. Lists(Paged(t, n), Shown(t))
    BY <1>3, <1>5
  <1> QED BY <1>1, <1>6, ListLists, ListsUnique

\* List of a transaction (inmem_transaction.go:71) is sorted, without
\* repetition, and agrees with Get, whatever was logged and committed.
THEOREM ListAgreement == Spec => []ListAgreesWithGet
  BY TypeCorrect, TypeListAgrees, PTL

\* In a directory that is not crowded, a listing by pages of any size
\* (listPaged over ListPage) is the list.
THEOREM SparsePages == Spec => []SparsePagesComplete
  BY TypeCorrect, TypePagesComplete, PTL

\* In any directory, the pages show no key that Get does not find.
THEOREM PagesShowOnlyFound == Spec => []PagesShowNothingDeleted
  BY TypeCorrect, TypeShowNothing, PTL

\* In any directory, each page that is not empty ends behind where it began, so
\* that the loop of listPaged ends.
THEOREM PagesEnd == Spec => []PagesAdvance
  BY TypeCorrect, TypeAdvance, PTL
=============================================================================
