---------------------------- MODULE MCTrustChain ----------------------------
(* TrustChain on a small instance. Names of accounts and of signing keys are  *)
(* only compared for equality, so each set is a symmetry set.                 *)
EXTENDS TrustChain, TLC

Symm == Permutations(Account) \cup Permutations(SigningKey)
=============================================================================
