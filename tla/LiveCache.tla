----------------------------- MODULE LiveCache -----------------------------
(***************************************************************************)
(* The shared cache of the live feeds (statistics, fees, mempool update):  *)
(* internal/explorer/live.go.  Whoever reads it kicks a recompute in the   *)
(* background when one is due; the recompute runs in a goroutine of its    *)
(* own, holds no lock while it asks the node, and installs what it got.    *)
(*                                                                         *)
(* A feed is named by the version of the mempool snapshot it was computed  *)
(* from.  The snapshot is a cache of its own (module Mempool), which may   *)
(* lag behind the node, and go back when its fetches overlap: source is    *)
(* what reading it now would give, and moves as it likes.  Times are ages, *)
(* as in Mempool.  A worker is a goroutine running refreshLive.            *)
(***************************************************************************)
EXTENDS Integers

CONSTANTS Workers,       \* bound: refreshLive goroutines alive at once
          Strandable,    \* workers the node may never answer
          FeedCount,     \* feeds of a recompute, 3 in refreshLive
          RefreshEvery,  \* liveRefreshEvery, in ticks
          RefreshStuck,  \* liveRefreshStuck, in ticks
          MaxVersion     \* bound: versions of the source

ASSUME WorkersAssumption == Strandable \subseteq Workers
ASSUME TimesAssumption ==
    /\ RefreshEvery \in Nat /\ RefreshStuck \in Nat
    /\ 0 < RefreshEvery /\ RefreshEvery < RefreshStuck
ASSUME SizesAssumption == MaxVersion \in Nat /\ FeedCount \in Nat

VARIABLES
    source,      \* version a feed computed now would have
    live,        \* s.live: version of every feed, or Nil
    inFlight,    \* s.liveInFlight
    attemptAge,  \* time since s.liveAttemptAt
    kickedAge,   \* time since s.liveKickedAt
    running,     \* the workers that are alive
    next,        \* the feed a worker is computing
    result,      \* what a worker computed: a version, or Nil on error
    overlap,     \* history: two workers have been alive at once
    wentBack     \* history: the source has gone back

cacheVars  == <<live, inFlight, attemptAge, kickedAge>>
workerVars == <<running, next, result>>
histVars   == <<overlap, wentBack>>
vars       == <<source, cacheVars, workerVars, histVars>>

Nil     == -1
Version == 0..MaxVersion

\* The feeds in the order refreshLive computes them: 1 is the statistics, 2
\* the fees, 3 the mempool update.
Feeds == 1..FeedCount

TypeOK ==
    /\ source \in Version
    /\ live \in [Feeds -> Version \cup {Nil}]
    /\ inFlight \in BOOLEAN
    /\ attemptAge \in 0..RefreshEvery
    /\ kickedAge \in 0..RefreshStuck
    /\ running \in SUBSET Workers
    /\ next \in [Workers -> 1..FeedCount + 1]
    /\ result \in [Workers -> [Feeds -> Version \cup {Nil}]]
    /\ overlap \in BOOLEAN /\ wentBack \in BOOLEAN

\* A service that has just started.
Start ==
    /\ source = 0
    /\ live = [f \in Feeds |-> Nil]
    /\ inFlight = FALSE
    /\ attemptAge = RefreshEvery
    /\ kickedAge = RefreshStuck
    /\ running = {}
    /\ next = [w \in Workers |-> 1]
    /\ result = [w \in Workers |-> [f \in Feeds |-> Nil]]

Init == Start /\ overlap = FALSE /\ wentBack = FALSE

-----------------------------------------------------------------------------
\* Mutants of Due: there is no watchdog; it goes by the last attempt.
DueNoWatchdog == attemptAge = RefreshEvery /\ ~inFlight
DueByAttempt == attemptAge = RefreshEvery

\* liveSnapshot's condition for a recompute.
Due == /\ attemptAge = RefreshEvery
       /\ ~inFlight \/ kickedAge = RefreshStuck

\* What a step adds to the histories.
Remember(overlaps, back) ==
    /\ overlap' = (overlap \/ overlaps)
    /\ wentBack' = (wentBack \/ back)

\* liveSnapshot, called by a request, a hub push, WarmLive or the ticker of
\* RunLiveRefresh, starts a recompute.  When none is due it changes nothing.
Kick(w) ==
    /\ Due
    /\ w \notin running
    /\ inFlight' = TRUE
    /\ kickedAge' = 0
    /\ running' = running \cup {w}
    /\ Remember(running # {}, FALSE)
    /\ UNCHANGED <<source, live, attemptAge, next, result>>

\* A worker computes a feed; v is the version it got, Nil if it failed.
Compute(w, f, v) ==
    /\ w \in running
    /\ next[w] = f
    /\ next' = [next EXCEPT ![w] = f + 1]
    /\ result' = [result EXCEPT ![w][f] = v]
    /\ Remember(FALSE, FALSE)
    /\ UNCHANGED <<source, cacheVars, running>>

\* Mutant of Merged: a feed that failed overwrites its previous value.
MergedFailures(w) == result[w]

\* The feeds a worker leaves: one that failed keeps its previous value.
Merged(w) ==
    [f \in Feeds |-> IF result[w][f] = Nil THEN live[f] ELSE result[w][f]]

\* The critical section that ends refreshLive.
Install(w) ==
    /\ w \in running
    /\ next[w] = FeedCount + 1
    /\ inFlight' = FALSE
    /\ attemptAge' = 0
    /\ live' = Merged(w)
    /\ running' = running \ {w}
    /\ result' = [result EXCEPT ![w] = [f \in Feeds |-> Nil]]
    /\ next' = [next EXCEPT ![w] = 1]
    /\ Remember(FALSE, FALSE)
    /\ UNCHANGED <<source, kickedAge>>

\* The snapshot is replaced: by a newer one, or by the older one of a fetch
\* that was overtaken.
Change(v) ==
    /\ v # source
    /\ source' = v
    /\ Remember(FALSE, v < source)
    /\ UNCHANGED <<cacheVars, workerVars>>

Tick ==
    /\ attemptAge < RefreshEvery \/ kickedAge < RefreshStuck
    /\ attemptAge' = IF attemptAge < RefreshEvery THEN attemptAge + 1
                     ELSE attemptAge
    /\ kickedAge' = IF kickedAge < RefreshStuck THEN kickedAge + 1
                    ELSE kickedAge
    /\ Remember(FALSE, FALSE)
    /\ UNCHANGED <<source, live, inFlight, workerVars>>

Next ==
    \/ Tick
    \/ \E v \in Version : Change(v)
    \/ \E w \in Workers :
          \/ Kick(w) \/ Install(w)
          \/ \E f \in Feeds, v \in {source, Nil} : Compute(w, f, v)

Spec == Init /\ [][Next]_vars

\* The ticker of RunLiveRefresh keeps reading the cache, whatever the
\* traffic; goroutines and clocks run.  The node answers or fails every
\* call, save those of the stranded workers, and does not fail for ever.
Fairness ==
    /\ WF_vars(Tick)
    /\ WF_vars(\E w \in Workers : Kick(w))
    /\ \A w \in Workers :
          /\ WF_vars(Install(w))
          /\ \A f \in Feeds : \/ SF_vars(Compute(w, f, source))
                              \/ w \in Strandable /\ <>[](next[w] = f)

FairSpec == Spec /\ Fairness

-----------------------------------------------------------------------------
(* Properties *)

\* A feed that was once served is served for good, however often later
\* recomputes of it fail: a dashboard with stale numbers, never a dead one.
FeedsNeverUnwarm ==
    [][\A f \in Feeds : live[f] # Nil => live'[f] # Nil]_vars

\* No feed goes back to an older value, failed recomputes or not, unless
\* recomputes overlapped or the snapshot they read went back itself.
FeedsMonotone ==
    [][~overlap' /\ ~wentBack' => \A f \in Feeds : live'[f] >= live[f]]_vars

\* Two recomputes run at once for the first time only when the one in
\* flight was started liveRefreshStuck ago: the watchdog does not let them
\* pile up on a node that is merely slow.
FirstOverlapIsStuck ==
    [][~overlap /\ overlap' => kickedAge = RefreshStuck]_vars

\* Once the snapshot stops changing, every feed becomes and stays what it
\* says, also after going back, and even if some recomputes are stranded for
\* ever.
EventuallyCurrent ==
    <>[][UNCHANGED source]_vars => <>[](\A f \in Feeds : live[f] = source)
=============================================================================
