------------------------- MODULE MCUserRevocation ---------------------------
(* UserRevocation on a small instance.                                        *)
EXTENDS UserRevocation
=============================================================================
