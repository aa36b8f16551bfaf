---------------------------- MODULE RateLimiter ----------------------------
(***************************************************************************)
(* The per-client token buckets in front of /api:                          *)
(* internal/api/middleware.go.  Time is counted in ticks; Rate tokens are  *)
(* refilled in a tick.  A bucket's idle time (now - updated) is kept as the*)
(* tokens it has earned, and stops being counted once it has earned more   *)
(* than a full bucket: nothing in the code tells longer times apart.       *)
(* allow runs under the mutex, so a request is one step.                   *)
(*                                                                         *)
(* The history variables spent and elapsed measure one client over a       *)
(* window that may begin at any moment.                                    *)
(***************************************************************************)
EXTENDS Integers

CONSTANTS Clients,     \* what clientIP returns
          Routes,      \* request paths
          RouteCost,   \* tokens of a path; 0 stands for a path outside /api/
          Burst,       \* rateLimiter.burst
          Rate,        \* perSec, as tokens per tick
          SweepEvery,  \* sweepEvery, in ticks
          MaxWindow    \* bound: length of the measured window

ASSUME BurstAssumption == Burst \in Nat /\ Burst > 0
ASSUME RateAssumption == Rate \in Nat /\ Rate > 0
ASSUME CostAssumption == RouteCost \in [Routes -> Nat]
ASSUME WindowAssumption == SweepEvery \in Nat /\ MaxWindow \in Nat

VARIABLES
    held,      \* the keys of l.buckets
    tokens,    \* b.tokens
    idle,      \* tokens earned since b.updated, not yet credited
    sweepIn,   \* ticks until now.After(l.sweepAt)
    verdict,   \* the last request and whether it was let through
    observed,  \* history: the client measured
    spent,     \* history: tokens it spent in the window
    elapsed    \* history: ticks in the window

window == <<observed, spent, elapsed>>
vars == <<held, tokens, idle, sweepIn, verdict, window>>

Least(a, b) == IF a <= b THEN a ELSE b

NoRequest == [client |-> "none", ok |-> TRUE]

TypeOK ==
    /\ held \in SUBSET Clients
    /\ tokens \in [Clients -> 0..Burst]
    /\ idle \in [Clients -> 0..Burst + Rate]
    /\ sweepIn \in 0..SweepEvery + 1
    /\ verdict \in [client : Clients \cup {"none"}, ok : BOOLEAN]
    /\ observed \in Clients
    /\ spent \in Nat
    /\ elapsed \in 0..MaxWindow

Init ==
    /\ held = {}
    /\ tokens = [c \in Clients |-> 0]
    /\ idle = [c \in Clients |-> 0]
    /\ sweepIn = 0
    /\ verdict = NoRequest
    /\ observed \in Clients
    /\ spent = 0
    /\ elapsed = 0

-----------------------------------------------------------------------------

\* The tokens of a known client once its idle time is credited.
Refilled(c) == Least(Burst, tokens[c] + idle[c])

\* Mutant of Swept: a bucket goes as soon as it is idle.
SweptIdle == {c \in held : idle[c] > 0}

\* sweep: the buckets idle for longer than a full refill.
Swept == {c \in held : idle[c] > Burst}

\* The buckets a request finds, after the sweep that is due.
Kept == IF sweepIn = 0 THEN held \ Swept ELSE held

\* Mutant of Available: a new bucket starts empty.
AvailableEmpty(c) == IF c \in Kept THEN Refilled(c) ELSE 0

\* The tokens allow finds or makes for a client.
Available(c) == IF c \in Kept THEN Refilled(c) ELSE Burst

\* allow for a request of client c to route r.  An address lookup on a
\* burst below 8 is never let through; everything else follows the budget.
Request(c, r) ==
    LET ok == Available(c) >= RouteCost[r]
        charge == IF ok THEN RouteCost[r] ELSE 0
    IN  /\ RouteCost[r] > 0
        /\ sweepIn' = IF sweepIn = 0 THEN SweepEvery + 1 ELSE sweepIn
        /\ held' = Kept \cup {c}
        /\ tokens' = [k \in Clients |->
                         IF k = c THEN Available(c) - charge
                         ELSE IF k \in Kept THEN tokens[k] ELSE 0]
        /\ idle' = [k \in Clients |-> IF k # c /\ k \in Kept THEN idle[k] ELSE 0]
        /\ verdict' = [client |-> c, ok |-> ok]
        /\ spent' = IF c = observed THEN spent + charge ELSE spent
        /\ UNCHANGED <<observed, elapsed>>

\* withRateLimit: assets and the page itself are never charged.
Unlimited(c, r) ==
    /\ RouteCost[r] = 0
    /\ verdict' = [client |-> c, ok |-> TRUE]
    /\ UNCHANGED <<held, tokens, idle, sweepIn, window>>

Tick ==
    /\ elapsed < MaxWindow
    /\ elapsed' = elapsed + 1
    /\ idle' = [c \in Clients |->
                  IF c \in held /\ idle[c] <= Burst THEN idle[c] + Rate
                  ELSE idle[c]]
    /\ sweepIn' = IF sweepIn > 0 THEN sweepIn - 1 ELSE 0
    /\ UNCHANGED <<held, tokens, verdict, observed, spent>>

\* A new window begins, for any client.
StartWindow(c) ==
    /\ elapsed > 0
    /\ observed' = c
    /\ spent' = 0
    /\ elapsed' = 0
    /\ UNCHANGED <<held, tokens, idle, sweepIn, verdict>>

Next ==
    \/ Tick
    \/ \E c \in Clients :
          \/ StartWindow(c)
          \/ \E r \in Routes : Request(c, r) \/ Unlimited(c, r)

Spec == Init /\ [][Next]_vars

-----------------------------------------------------------------------------
(* Properties *)

\* What a client could spend now.
Level(c) == IF c \in held THEN Refilled(c) ELSE Burst

\* However its requests, the sweeps and the other clients interleave, in any
\* window a client gets at most a full bucket and what refills meanwhile:
\* forgetting a bucket gives nothing away.
GrantBound == spent + Level(observed) <= Burst + Rate * elapsed

Buckets == INSTANCE TokenBuckets WITH level <- [c \in Clients |-> Level(c)]

\* Nobody can tell that buckets are swept away and made anew.
ImplementsTokenBuckets == Buckets!Spec
=============================================================================
