----------------------- MODULE MCAccountServerConn --------------------------
(* AccountServerConn on a small instance; connections are symmetric.         *)
EXTENDS AccountServerConn, TLC

Symm == Permutations(Conn)
=============================================================================
