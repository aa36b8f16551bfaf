------------------------------- MODULE MCHub -------------------------------
(* Hub on a small instance. *)
EXTENDS Hub

CONSTANTS c1, c2, t1, t2
=============================================================================
