------------------------------ MODULE LiveFeed ------------------------------
(***************************************************************************)
(* How the live feeds reach a browser: the live cache (module LiveCache),  *)
(* the hub's pushes of statistics and mempool updates                      *)
(* (internal/api/hub.go) and the page's data                               *)
(* (web/src/hooks/useNetworkData.ts), composed for one browser whose       *)
(* socket comes and goes and which asks for statistics by REST meanwhile.  *)
(* Hub says when a push starts and whom it reaches; here a push may start  *)
(* at any time.  This module says what is pushed: a push reads the live    *)
(* cache, never the node.                                                  *)
(*                                                                         *)
(* A payload is named by the version of the mempool snapshot it was        *)
(* computed from, which may go back, as in LiveCache.                      *)
(***************************************************************************)
EXTENDS Integers

CONSTANTS Workers, Strandable, FeedCount, RefreshEvery, RefreshStuck, MaxVersion

VARIABLES source, live, inFlight, attemptAge, kickedAge, running, next, result

\* The live cache; its variables are those above.  Its two histories are not
\* kept here: as TRUE they allow everything.
Cache == INSTANCE LiveCache WITH overlap <- TRUE, wentBack <- TRUE

VARIABLES
    open,   \* the browser's socket is open
    push,   \* where the push of every kind is
    held,   \* the value a push is about to send
    seen,   \* what the page holds of statistics and mempool update
    count   \* the snapshot whose size the page tells: stats.mempool.txCount

cacheVars == <<source, live, inFlight, attemptAge, kickedAge, running, next,
               result>>
pageVars  == <<seen, count>>
vars      == <<cacheVars, open, push, held, pageVars>>

Nil == -1

\* Pushes of statistics and of mempool updates, and the REST call for
\* statistics.  Bound: one of each is under way at a time.
Pushes   == {"stats", "update"}
Kinds    == Pushes \cup {"rest"}
Payloads == {"stats", "update"}
PayloadOf(k) == IF k = "update" THEN "update" ELSE "stats"

\* The statistics are the first feed of a recompute, the update the last.
Cached(k) == live[IF PayloadOf(k) = "stats" THEN 1 ELSE FeedCount]

Init ==
    /\ Cache!Start
    /\ open = FALSE
    /\ push = [k \in Kinds |-> "idle"]
    /\ held = [k \in Kinds |-> Nil]
    /\ seen = [p \in Payloads |-> Nil]
    /\ count = Nil

-----------------------------------------------------------------------------
(* The hub's loop *)

Begin(ks) ==
    /\ \A k \in ks : push[k] = "idle"
    /\ push' = [k \in Kinds |-> IF k \in ks THEN "start" ELSE push[k]]

\* The browser's socket has opened, and the loop registers it.
Register ==
    /\ ~open
    /\ open' = TRUE
    /\ Begin({"stats", "update"})
    /\ UNCHANGED <<cacheVars, held, pageVars>>

PushTo(ks) ==
    /\ open
    /\ Begin(ks)
    /\ UNCHANGED <<cacheVars, open, held, pageVars>>

\* Run's cases of a block and of the two tickers.
TakeBlock == PushTo({"stats", "update"})
MempoolTick == PushTo({"update"})

\* Mutant of PeriodicTick: pushAll refreshes the watched transactions only.
PeriodicTickWatches == PushTo({})

PeriodicTick == PushTo({"stats"})

-----------------------------------------------------------------------------
(* Pushes and the cache *)

\* Service.Stats and Service.MempoolUpdate: liveSnapshot starts a recompute
\* when one is due, and returns what is cached now.
ReadCache(k) ==
    /\ push[k] = "start"
    /\ \/ \E w \in Workers : Cache!Kick(w)
       \/ /\ ~Cache!Due \/ running = Workers
          /\ UNCHANGED cacheVars
    /\ IF Cached(k) = Nil
       THEN push' = [push EXCEPT ![k] = "idle"] /\ UNCHANGED held
       ELSE /\ push' = [push EXCEPT ![k] = "send"]
            /\ held' = [held EXCEPT ![k] = Cached(k)]
    /\ UNCHANGED <<open, pageVars>>

\* Statistics bring a count, and a mempool update replaces the count of the
\* statistics the page has.
Counted(p) == p = "stats" \/ seen["stats"] # Nil

\* send and onmessage, or the REST answer: the page takes what it is given.
Send(k) ==
    /\ push[k] = "send"
    /\ push' = [push EXCEPT ![k] = "idle"]
    /\ held' = [held EXCEPT ![k] = Nil]
    /\ seen' = [seen EXCEPT ![PayloadOf(k)] = held[k]]
    /\ count' = IF Counted(PayloadOf(k)) THEN held[k] ELSE count
    /\ UNCHANGED <<cacheVars, open>>

\* The cache on its own: its workers, its clocks, the snapshot, and the
\* readers that are not pushes (requests and the ticker of RunLiveRefresh).
CacheStep ==
    /\ \/ Cache!Tick
       \/ \E v \in Cache!Version : Cache!Change(v)
       \/ \E w \in Workers :
             \/ Cache!Kick(w) \/ Cache!Install(w)
             \/ \E f \in Cache!Feeds, v \in {source, Nil} : Cache!Compute(w, f, v)
    /\ UNCHANGED <<open, push, held, pageVars>>

-----------------------------------------------------------------------------
(* The page's data *)

\* useNetworkData's load, on mount and on its timer: statistics by REST
\* while the socket is not open.  The answer may come after newer pushes.
Load ==
    /\ ~open
    /\ Begin({"rest"})
    /\ UNCHANGED <<cacheVars, open, held, pageVars>>

\* Mutant of Unshadowed: the update outlives the socket.
Shadowed == seen

\* The page drops the mempool update, which it would show before the queue of
\* the statistics.
Unshadowed == [seen EXCEPT !["update"] = Nil]

\* The socket closes: what is being pushed to it is lost.
Close ==
    /\ open
    /\ open' = FALSE
    /\ push' = [k \in Kinds |-> IF k \in Pushes THEN "idle" ELSE push[k]]
    /\ held' = [k \in Kinds |-> IF k \in Pushes THEN Nil ELSE held[k]]
    /\ seen' = Unshadowed
    /\ UNCHANGED <<cacheVars, count>>

Next ==
    \/ Register \/ TakeBlock \/ MempoolTick \/ PeriodicTick
    \/ \E k \in Kinds : ReadCache(k) \/ Send(k)
    \/ CacheStep \/ Load \/ Close

Spec == Init /\ [][Next]_vars

\* The hub's periodic ticker and the page's timer fire, pushes of statistics
\* and REST calls run, and the cache is as fair as LiveCache says.  Neither
\* blocks nor arrivals need come.  A timer that finds the socket in the wrong
\* state does nothing: fairness is weak, and promises nothing of a socket
\* that comes and goes for ever.
Fairness ==
    /\ Cache!Fairness
    /\ WF_vars(PeriodicTick) /\ WF_vars(Load)
    /\ \A k \in {"stats", "rest"} : WF_vars(ReadCache(k)) /\ WF_vars(Send(k))

FairSpec == Spec /\ Fairness

-----------------------------------------------------------------------------
(* Properties *)

\* The snapshot stops changing and the socket comes and goes no more: it stays
\* open or stays closed.
Settled == <>[][UNCHANGED <<source, open>>]_vars

\* Once things settle, the statistics on the page become and stay what the
\* snapshot says, their transaction count included: whatever recomputes are
\* stranded, although a late REST answer may replace a newer push, and although
\* mempool updates, whose pushes nothing obliges to be made or sent soon, write
\* into them.
StatsReachClient ==
    Settled => <>[](seen["stats"] = source /\ count = source)

\* What MempoolQueue.tsx draws: the update's queue before the statistics'.
QueueShown == IF seen["update"] # Nil THEN seen["update"] ELSE seen["stats"]

\* While the socket stays closed the queue the page draws becomes current by
\* REST: no push it received before, or on its way when the socket closed,
\* shadows it.
QueueFallsBack == Settled => <>[](open \/ QueueShown = source)
=============================================================================
