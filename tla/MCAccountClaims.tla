--------------------------- MODULE MCAccountClaims ---------------------------
EXTENDS AccountClaims, TLC

\* The handlers are interchangeable.
Symm == Permutations(Handler)
=============================================================================
