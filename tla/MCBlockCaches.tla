--------------------------- MODULE MCBlockCaches ---------------------------
(* BlockCaches on a small instance. *)
EXTENDS BlockCaches

CONSTANTS r1, r2, a1
=============================================================================
