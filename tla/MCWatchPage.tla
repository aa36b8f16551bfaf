---------------------------- MODULE MCWatchPage ----------------------------
(* WatchPage on a small instance. *)
EXTENDS WatchPage

CONSTANTS t1, t2
=============================================================================
