------------------------------ MODULE ShimList ------------------------------
(***************************************************************************)
(* Listing a directory inside a transaction of ShimTx: List and ListPage of *)
(* inmemTransaction weave what the log creates and deletes into what the    *)
(* storage lists, and listPaged (backend.go) asks for page after page.      *)
(*                                                                          *)
(* A key of the directory is <<c, n>>: its direct child c, and n = 0 when   *)
(* the child is the key itself, n > 0 when c is a folder ("c/") it lies in. *)
(* Children are numbered in the order of their names, from 1.               *)
(***************************************************************************)
EXTENDS ShimTx, SequencesExt

CONSTANTS
  MaxPage   \* bound: page sizes

ASSUME ShimListAssumption ==
  /\ Key \subseteq (Nat \ {0}) \X Nat /\ IsFiniteSet(Key)
  /\ \A k, m \in Key : k[1] = m[1] => (k[2] = 0 <=> m[2] = 0)
  /\ MaxPage \in Nat

Child == {k[1] : k \in Key}
Leaf == {k[1] : k \in {m \in Key : m[2] = 0}}

\* What the storage lists: a folder as long as there is a key in it.
StoredChildren == {k[1] : k \in {m \in Key : store[m] # Absent}}

Increasing(s) == \A i, j \in DOMAIN s : i < j => s[i] < s[j]

Sorted(S) == CHOOSE s \in [1 .. Cardinality(S) -> S] : Increasing(s)

Take(s, n) == IF Len(s) <= n THEN s ELSE SubSeq(s, 1, n)

-----------------------------------------------------------------------------
(* buildActionMap for the children after a: a Put of a key marks the child  *)
(* as created, a Delete marks it as deleted if it is a key of its own.  The *)
(* last mark counts.                                                        *)

Mark(x) ==
  CASE x.val # Absent              -> "created"
    [] x.val = Absent /\ x.key[2] = 0 -> "deleted"
    [] OTHER                       -> "ignored"

Marks(t, c) == {i \in DOMAIN log[t] : log[t][i].key[1] = c /\ Mark(log[t][i]) # "ignored"}

Mod(t, c) == IF Marks(t, c) = {} THEN "none" ELSE Mark(log[t][LastOf(Marks(t, c))])

\* The mutant of Created takes the child it is to begin after for one of them.
CreatedFrom(t, a) == {c \in Child : c >= a /\ Mod(t, c) = "created"}

Created(t, a) == {c \in Child : c > a /\ Mod(t, c) = "created"}
Deleted(t, a) == {c \in Child : c > a /\ Mod(t, c) = "deleted"}

-----------------------------------------------------------------------------

\* List: before each stored child come the created ones that sort before it
\* and were not woven yet; those left over come last.
WeaveAll(t, r, c) ==
  r \o Sorted({n \in Created(t, 0) : n < c /\ n \notin ToSet(r) /\ n \notin StoredChildren})
    \o (IF c \in Deleted(t, 0) THEN <<>> ELSE <<c>>)

Woven(t) ==
  LET stored == Sorted(StoredChildren)
      woven[i \in 0 .. Len(stored)] ==
        IF i = 0 THEN <<>> ELSE WeaveAll(t, woven[i - 1], stored[i])
  IN woven[Len(stored)]

\* The mutant of List forgets what is created behind the last stored child.
ListNoTail(t) == Woven(t)

List(t) == Woven(t) \o Sorted({n \in Created(t, 0) : \A c \in StoredChildren : c < n})

-----------------------------------------------------------------------------
(* ListPage.  A result r has the children listed so far (out), the created  *)
(* ones still to be woven (pend), the deletions still to come (del), the    *)
(* stored child it has come to (at), and whether the loop goes on (more).   *)

\* One turn of the inner loop: at most one created child goes before the
\* stored child c, since the loop compares the next one with the one it has
\* just woven.
Weave(t, after, r, c) ==
  LET lead == r.pend # <<>> /\ Head(r.pend) < c
      rest == IF lead THEN Tail(r.pend) ELSE r.pend
      gone == c \in Deleted(t, after)
  IN [r EXCEPT !.out  = @ \o (IF lead THEN <<Head(r.pend)>> ELSE <<>>)
                          \o (IF gone THEN <<>> ELSE <<c>>),
               !.pend = IF rest # <<>> /\ Head(rest) = c THEN Tail(rest) ELSE rest,
               !.del  = IF gone THEN @ - 1 ELSE @,
               !.at   = c]

\* The inner loop, over a page of stored children.
WeavePage(t, after, r, page) ==
  LET x[i \in 0 .. Len(page)] ==
        IF i = 0 THEN r ELSE Weave(t, after, x[i - 1], page[i])
  IN x[Len(page)]

\* The storage's own ListPage.
StoredPage(a, n) == Take(Sorted({c \in StoredChildren : c > a}), n)

\* The mutant of NothingPending forgets the deletions that are still to come.
NothingCreated(r) == r.pend = <<>>

NothingPending(r) == r.pend = <<>> /\ r.del <= 0

\* One turn of the outer loop, and none when it has ended.
Turn(t, after, limit, r) ==
  LET page == StoredPage(r.at, limit - Len(r.out) + r.del)
      next == WeavePage(t, after, r, page)
  IN IF ~r.more THEN r
     ELSE IF page = <<>> THEN [r EXCEPT !.more = FALSE]
     ELSE IF NothingPending(r) THEN [r EXCEPT !.out = @ \o page, !.more = FALSE]
     ELSE [next EXCEPT !.more = Len(next.out) < limit]

\* The outer loop. A turn that does not end it passes a stored child.
Fill(t, after, limit) ==
  LET start == [out |-> <<>>, pend |-> Sorted(Created(t, after)),
                del |-> Cardinality(Deleted(t, after)), at |-> after, more |-> TRUE]
      turn[n \in 0 .. Cardinality(Child) + 1] ==
        IF n = 0 THEN start ELSE Turn(t, after, limit, turn[n - 1])
  IN turn[Cardinality(Child) + 1]

ListPage(t, after, limit) ==
  IF Created(t, after) \cup Deleted(t, after) = {} THEN StoredPage(after, limit)
  ELSE LET r == Fill(t, after, limit) IN Take(r.out \o r.pend, limit)

\* listPaged: the caller's loop asks for the page after the last one until
\* that is empty. A page that is not passes a child.
NextPage(t, size, p) ==
  LET page == ListPage(t, p.after, size)
  IN IF page = <<>> THEN p ELSE [shown |-> p.shown \o page, after |-> Last(page)]

Paged(t, size) ==
  LET pages[n \in 0 .. Cardinality(Child)] ==
        IF n = 0 THEN [shown |-> <<>>, after |-> 0] ELSE NextPage(t, size, pages[n - 1])
  IN pages[Cardinality(Child)].shown

-----------------------------------------------------------------------------

Open == {t \in Tx : pc[t] = "open"}

\* A child of t's directory is visible when Get finds a key of it.
Visible(t) == {k[1] : k \in {m \in Key : Overlay(store, log[t], 0)[m] # Absent}}

\* inmem_transaction.go:71: List is sorted, lists each child once, every child
\* that Get finds, and no key that Get does not find, whatever was logged and
\* whatever other transactions have committed meanwhile. A folder may be listed
\* after the transaction has deleted what was in it.
ListAgreesWithGet ==
  \A t \in Open :
    LET l == List(t)
    IN /\ \A i, j \in DOMAIN l : i < j => l[i] < l[j]
       /\ Visible(t) \subseteq ToSet(l)
       /\ ToSet(l) \cap Leaf \subseteq Visible(t)

\* Two children created in the same gap before a stored child.
Crowded(t) ==
  LET new == Created(t, 0) \ StoredChildren
  IN \E a, b \in new, s \in StoredChildren :
       a < b /\ b < s /\ \A r \in StoredChildren : ~(a < r /\ r < b)

\* Whatever the page size, a listing by pages (listPaged over ListPage) is the
\* list, as long as no two children are created in one gap between stored ones,
\* which is what the tests try (inmem_transaction_test.go).
SparsePagesComplete ==
  \A t \in Open : ~Crowded(t) => \A n \in 1 .. MaxPage : Paged(t, n) = List(t)

\* inmem_transaction.go:133: "ListPage weaves created keys into the results
\* returned by the underlying storage backend, respecting the after and limit
\* arguments." A listing by pages is the list.
PagesComplete == \A t \in Open : \A n \in 1 .. MaxPage : Paged(t, n) = List(t)

\* A page, in order or not, never shows a key that Get does not find: a caller
\* that walks the pages of a directory it is deleting (deleteAccount) does not
\* meet a key it has deleted.
PagesShowNothingDeleted ==
  \A t \in Open : \A n \in 1 .. MaxPage : ToSet(Paged(t, n)) \cap Leaf \subseteq Visible(t)

\* listPaged (backend.go:374) goes on until a page is empty. Every other page,
\* in order or not, ends with a child behind the one it was to begin after, so
\* that the loop ends in a crowded directory too, and Paged goes far enough.
PagesAdvance ==
  \A t \in Open : \A n \in 1 .. MaxPage : \A a \in {0} \cup Child :
    LET page == ListPage(t, a, n) IN page = <<>> \/ Last(page) > a
=============================================================================
