----------------------------- MODULE MCWindows -----------------------------
(***************************************************************************)
(* Two parts that keep accounts over windows of time, on small instances:  *)
(* the rate limiter, with the costs of routeCost, and the landing page's   *)
(* windows.  They share nothing, so one stands still while the other runs; *)
(* nor do the windows of arrivals and of depths, which take turns too.     *)
(***************************************************************************)
EXTENDS RateLimiter, TLC

CONSTANTS k1, k2, t1, t2, t3

\* A route of each cost; the page itself is free.
AllRoutes == {"address", "search", "tx", "fees", "page"}
Costs == [r \in AllRoutes |->
            CASE r = "address" -> 8 [] r = "search" -> 4 [] r = "tx" -> 2
              [] r = "fees" -> 1 [] r = "page" -> 0]

CONSTANTS Txs, Depths, ArrivalsCap, ArrivalMaxAge, InflowBuckets, PeakWidth,
          PeakBuckets, Start, MaxStep, MaxTime, MaxNotes, MaxUpdates

TxPerms == Permutations(Txs)

VARIABLES now, shift, stepped, arrivals, inflow, peaks, peak, nNotes, nUpdates,
          last, noted, depths,
          part    \* the part that runs

Board == INSTANCE Landing
ASSUME BoardAssumption == Board!LandingAssumption

boardVars == <<now, shift, stepped, arrivals, inflow, peaks, peak, nNotes,
               nUpdates, last, noted, depths>>

MCInit ==
    /\ Init /\ Board!Init
    /\ part \in {"limiter", "arrivals", "depths"}
    /\ part # "limiter" => observed = k1

MCNext ==
    /\ UNCHANGED part
    /\ \/ part = "limiter" /\ Next /\ UNCHANGED boardVars
       \/ part = "arrivals" /\ Board!Next /\ nUpdates' <= 1 /\ UNCHANGED vars
       \/ part = "depths" /\ Board!Next /\ nNotes' = 0 /\ UNCHANGED vars

MCSpec == MCInit /\ [][MCNext]_<<vars, boardVars, part>>

\* Landing's invariants: the inflow rate counts the last window exactly, the
\* feed holds what came last, and the peak is the deepest recent mempool.
InflowExact == Board!InflowExact
FeedIsNewest == Board!FeedIsNewest
PeakIsRecent == Board!PeakIsRecent
=============================================================================
