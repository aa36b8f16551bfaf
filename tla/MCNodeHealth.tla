---------------------------- MODULE MCNodeHealth ----------------------------
(* NodeHealth on a small instance. *)
EXTENDS NodeHealth

CONSTANTS w1, w2
=============================================================================
