----------------------------- MODULE MCShimList -----------------------------
(* ShimList on a directory of keys 1, 3, 4 and a folder 2 with two keys.      *)
EXTENDS ShimList

Keys == {<<1, 0>>, <<2, 1>>, <<2, 2>>, <<3, 0>>, <<4, 0>>}
=============================================================================
