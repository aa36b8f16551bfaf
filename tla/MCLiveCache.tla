---------------------------- MODULE MCLiveCache ----------------------------
(* LiveCache on a small instance. *)
EXTENDS LiveCache

CONSTANTS w1, w2
=============================================================================
