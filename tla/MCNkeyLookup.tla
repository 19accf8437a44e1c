--------------------------- MODULE MCNkeyLookup -----------------------------
(* NkeyLookup on a small instance; operators and accounts are symmetric.     *)
EXTENDS NkeyLookup, TLC

Symm == Permutations(Operator) \cup Permutations(Account)
=============================================================================
