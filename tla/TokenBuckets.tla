---------------------------- MODULE TokenBuckets ----------------------------
(***************************************************************************)
(* What the rate limiter of internal/api/middleware.go promises: every     *)
(* client there ever was owns a bucket for good, which starts full, refills*)
(* with time and pays for the requests that are let through.  RateLimiter  *)
(* implements it with buckets that are made on demand and swept away.      *)
(***************************************************************************)
EXTENDS Integers

CONSTANTS Clients, Routes, RouteCost, Burst, Rate

VARIABLES level,   \* tokens a client can spend now
          verdict  \* the last request: its client, let through?

Least(a, b) == IF a <= b THEN a ELSE b

NoRequest == [client |-> "none", ok |-> TRUE]

Init == /\ level = [c \in Clients |-> Burst]
        /\ verdict = NoRequest

Tick == /\ level' = [c \in Clients |-> Least(Burst, level[c] + Rate)]
        /\ UNCHANGED verdict

Request(c, r) ==
    /\ verdict' = [client |-> c, ok |-> level[c] >= RouteCost[r]]
    /\ level' = IF level[c] >= RouteCost[r]
                THEN [level EXCEPT ![c] = @ - RouteCost[r]]
                ELSE level

Next == Tick \/ \E c \in Clients, r \in Routes : Request(c, r)

Spec == Init /\ [][Next]_<<level, verdict>>
=============================================================================
