----------------------------- MODULE MCLiveFeed -----------------------------
(* LiveFeed on a small instance. *)
EXTENDS LiveFeed

CONSTANTS w1, w2
=============================================================================
