----------------------------- MODULE MCMempool -----------------------------
(* Mempool on a small instance: c1's RPCs may be stranded. *)
EXTENDS Mempool

CONSTANTS c1, c2
=============================================================================
