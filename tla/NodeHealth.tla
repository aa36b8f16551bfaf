----------------------------- MODULE NodeHealth -----------------------------
(***************************************************************************)
(* Whether the node can be asked: the cached sync check of                 *)
(* internal/explorer/stats.go, and what handleHealthz and gateSyncing of   *)
(* internal/api/handlers.go make of it.  The session is one variable here, *)
(* available(): NodeClient has its detail.                                 *)
(*                                                                         *)
(* The sync check is the live cache's mechanism with one feed: LiveCache   *)
(* is instantiated for it, its feed being the tip last seen (syncTip) and  *)
(* its source the node's tip itself.                                       *)
(* The tip's age is abstracted: blocks below FirstSynced are old ones.     *)
(***************************************************************************)
EXTENDS Integers

CONSTANTS Workers,      \* bound: refreshSync goroutines alive at once
          Strandable,   \* workers a mute node may never answer
          CheckEvery,   \* syncCheckEvery, in ticks
          CheckStuck,   \* syncRefreshStuck, in ticks
          MaxStale,     \* healthMaxStale, in ticks
          FirstSynced,  \* first block whose time is recent; 0: no tipAgeGated
          MaxVersion    \* bound: blocks mined

ASSUME HealthAssumption == MaxStale \in Nat /\ FirstSynced \in Nat

VARIABLES nodeVer,      \* the node's tip
          live, inFlight, attemptAge, kickedAge, running, next, result,
          available,    \* the session is up and was ready once
          mute,         \* the node answers no RPC: it is flushing
          checkedAge    \* time since syncCheckedAt, or since the start

\* LiveCache's histories are not kept here: as TRUE they allow everything.
Sync == INSTANCE LiveCache WITH
          FeedCount <- 1, RefreshEvery <- CheckEvery, RefreshStuck <- CheckStuck,
          source <- nodeVer, overlap <- TRUE, wentBack <- TRUE

syncVars == <<live, inFlight, attemptAge, kickedAge, running, next, result>>
env == <<available, mute>>
vars == <<nodeVer, syncVars, env, checkedAge>>

Init ==
    /\ Sync!Start
    /\ available = FALSE
    /\ mute = FALSE
    /\ checkedAge = 0

-----------------------------------------------------------------------------

\* Mutant of Syncing: without an answer the node is taken to be synced.
SyncingOnceKnown == live[1] # Sync!Nil /\ live[1] < FirstSynced

\* s.syncing: the tip the check last saw is an old block.  A service that has
\* not had an answer yet says so too where the tip's age counts (NewService):
\* Nil is below every FirstSynced but 0.
Syncing == FirstSynced > 0 /\ live[1] < FirstSynced

\* SyncStatus, asked by healthz, by gateSyncing before every lookup and by
\* computeStats: it starts a check when one is due.
SyncStatus(w) ==
    /\ Sync!Kick(w)
    /\ UNCHANGED <<env, checkedAge>>

\* refreshSync's GetBlockCount and headerTimeAt are answered.
ProbeAnswered(w) ==
    /\ available /\ ~mute
    /\ Sync!Compute(w, 1, nodeVer)
    /\ UNCHANGED <<env, checkedAge>>

\* One of them fails, at once with ErrUnavailable when not available.
ProbeFails(w) ==
    /\ Sync!Compute(w, 1, Sync!Nil)
    /\ UNCHANGED <<env, checkedAge>>

\* Mutant of ProbeStored: a probe that failed counts as an answer.
ProbeStoredAnyway(w) ==
    /\ Sync!Install(w)
    /\ checkedAge' = 0
    /\ UNCHANGED env

\* The critical section that ends refreshSync; it is also the time since
\* which the next check counts.
ProbeStored(w) ==
    /\ Sync!Install(w)
    /\ checkedAge' = IF result[w][1] = Sync!Nil THEN checkedAge ELSE 0
    /\ UNCHANGED env

\* External: the node stops answering RPCs, or answers again; the session
\* comes or goes; a block is mined.
Flush == /\ mute' = ~mute
         /\ UNCHANGED <<nodeVer, syncVars, available, checkedAge>>

Session == /\ available' = ~available
           /\ UNCHANGED <<nodeVer, syncVars, mute, checkedAge>>

NodeBlock ==
    /\ nodeVer < MaxVersion
    /\ Sync!Change(nodeVer + 1)
    /\ UNCHANGED <<env, checkedAge>>

Older(age, cap) == IF age < cap THEN age + 1 ELSE age

Tick ==
    /\ attemptAge' = Older(attemptAge, CheckEvery)
    /\ kickedAge' = Older(kickedAge, CheckStuck)
    /\ checkedAge' = Older(checkedAge, MaxStale + 1)
    /\ UNCHANGED <<nodeVer, live, inFlight, running, next, result, env>>

\* handleHealthz, which waits for nothing.
HealthStatus ==
    IF ~available \/ checkedAge > MaxStale THEN "degraded"
    ELSE IF Syncing THEN "syncing" ELSE "ok"

Next ==
    \/ Flush \/ Session \/ NodeBlock \/ Tick
    \/ \E w \in Workers :
          SyncStatus(w) \/ ProbeAnswered(w) \/ ProbeFails(w) \/ ProbeStored(w)

Spec == Init /\ [][Next]_vars

\* Goroutines and clocks run.  The page's feeds keep asking for the sync
\* state, and so does a monitor.  A check the node can answer is answered in
\* the end, save one the node took and never answers.
Fairness ==
    /\ WF_vars(Tick)
    /\ WF_vars(\E w \in Workers : SyncStatus(w))
    /\ \A w \in Workers :
          /\ WF_vars(ProbeStored(w))
          /\ \/ SF_vars(ProbeAnswered(w))
             \/ w \in Strandable /\ <>[](w \in running /\ next[w] = 1)

FairSpec == Spec /\ Fairness

-----------------------------------------------------------------------------
(* Properties *)

\* A node that is connected but answers nothing for long is reported, even
\* while a check is stuck in it.
MuteIsReported == <>[]mute => <>[](HealthStatus = "degraded")

\* Once the session stays up and the node answers again, healthz recovers and
\* says rightly whether the node is syncing, even if a check it took before is
\* never answered.
HealthRecovers ==
    <>[](available /\ ~mute) =>
        []<>(HealthStatus = IF nodeVer < FirstSynced THEN "syncing" ELSE "ok")

\* Lookups never pass the gate before the node has synced: not in a service
\* that has just started, nor after checks that failed or came late.
GateWaits == ~Syncing => nodeVer >= FirstSynced
=============================================================================
