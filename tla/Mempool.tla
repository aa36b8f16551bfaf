------------------------------ MODULE Mempool ------------------------------
(***************************************************************************)
(* The shared, lazily refreshed copy of the node's mempool:                *)
(* internal/explorer/mempool.go, with the callers that read it             *)
(* (computeStats, computeFees, computeMempoolUpdate, derivePending) and    *)
(* the notifications that invalidate it (Service.OnBlock, NoteArrival).    *)
(*                                                                         *)
(* The contents of a mempool are abstracted to a version: the node's       *)
(* mempool is at version nodeVer, every change of it (a transaction        *)
(* accepted, a block connected) is a new version, and a snapshot or a      *)
(* histogram is named by the version it was taken from.  Of the            *)
(* notifications btcd sends, one per change and in order, the first        *)
(* `delivered` have been handled.                                          *)
(*                                                                         *)
(* A time.Time read through time.Since is its age in ticks, which stops    *)
(* counting at the largest threshold it is compared with; the zero         *)
(* time.Time has that largest age.  A critical section of m.mu is one      *)
(* step; the RPC runs between two of them.                                 *)
(***************************************************************************)
EXTENDS Integers

CONSTANTS Callers,     \* goroutines that read the snapshot
          Strandable,  \* callers whose RPC the node may never answer
          Calls,       \* the reads the callers make
          MinAge,      \* snapshotMinAge, in ticks
          MaxAge,      \* snapshotMaxAge, in ticks
          FetchStuck,  \* fetchStuck, in ticks
          MaxVersion,  \* bound: changes of the node's mempool
          MaxGen       \* bound: no lookup of a pending tx starts past it

ASSUME CallersAssumption == Strandable \subseteq Callers
ASSUME CallsAssumption ==
    Calls \subseteq {"snapshot", "queue", "stats", "pending"}
ASSUME AgesAssumption ==
    /\ MinAge \in Nat /\ MaxAge \in Nat /\ FetchStuck \in Nat
    /\ 0 < MinAge /\ MinAge < MaxAge /\ MaxAge < FetchStuck
ASSUME BoundsAssumption == MaxVersion \in Nat /\ MaxGen \in Nat

VARIABLES
    nodeVer,    \* version of the mempool the node holds
    delivered,  \* changes whose notification has been handled
    entries,    \* m.entries: version of the snapshot, or Nil
    queue,      \* m.queue: version the histogram was derived from, or Nil
    dirty,      \* m.dirty
    gen,        \* m.gen
    age,        \* time since m.fetched
    fetching,   \* m.fetching
    fetchAge,   \* time since m.fetchStarted
    pc,         \* where each caller is
    op,         \* what each caller has still to read
    startGen,   \* the local gen of each caller's refresh
    resp,       \* the answer of the node to each caller's RPC
    wanted,     \* version in which the tx of a lookup had entered
    counted,    \* the snapshot computeStats counted, or Nil
    overlap     \* history: two fetches have been in flight at once

nodeVars   == <<nodeVer, delivered>>
cacheVars  == <<entries, queue, dirty, gen, age, fetching, fetchAge>>
callerVars == <<pc, op, startGen, resp, wanted, counted>>
vars       == <<nodeVars, cacheVars, callerVars, overlap>>

Nil     == -1
Version == 0..MaxVersion

\* "refresh": about to run refresh; "rpc": waiting for the node; "answered"
\* and "failed": the RPC returned; "read": refresh returned nil; "missed":
\* derivePending did not find its tx.
PCs == {"idle", "refresh", "rpc", "answered", "failed", "read", "missed"}

\* "snapshot": Snapshot, as computeFees calls it.  "queue":
\* SnapshotAndQueue, as Queue and computeMempoolUpdate call it.  "stats":
\* computeStats, Snapshot and then Queue.  "pending": derivePending,
\* Snapshot and, when the tx is missing, Invalidate and Snapshot again,
\* which is then "retry".
Ops == {"snapshot", "queue", "stats", "pending", "retry"}

InFlight(c) == pc[c] \in {"rpc", "answered", "failed"}

TypeOK ==
    /\ nodeVer \in Version /\ delivered \in 0..nodeVer
    /\ entries \in 0..nodeVer \cup {Nil}
    /\ queue \in 0..nodeVer \cup {Nil}
    /\ dirty \in BOOLEAN
    /\ gen \in Nat
    /\ age \in 0..MaxAge
    /\ fetching \in BOOLEAN
    /\ fetchAge \in 0..FetchStuck
    /\ pc \in [Callers -> PCs]
    /\ op \in [Callers -> Ops]
    /\ startGen \in [Callers -> Nat]
    /\ resp \in [Callers -> 0..nodeVer]
    /\ wanted \in [Callers -> 0..nodeVer]
    /\ counted \in [Callers -> 0..nodeVer \cup {Nil}]
    /\ overlap \in BOOLEAN

Init ==
    /\ nodeVer = 0 /\ delivered = 0
    /\ entries = Nil /\ queue = Nil
    /\ dirty = FALSE /\ gen = 0
    /\ age = MaxAge
    /\ fetching = FALSE /\ fetchAge = FetchStuck
    /\ pc = [c \in Callers |-> "idle"]
    /\ op = [c \in Callers |-> "snapshot"]
    /\ startGen = [c \in Callers |-> 0]
    /\ resp = [c \in Callers |-> 0]
    /\ wanted = [c \in Callers |-> 0]
    /\ counted = [c \in Callers |-> Nil]
    /\ overlap = FALSE

-----------------------------------------------------------------------------
(* Callers *)

\* The call is over and its locals are gone.
Return(c) ==
    /\ pc' = [pc EXCEPT ![c] = "idle"]
    /\ op' = [op EXCEPT ![c] = "snapshot"]
    /\ wanted' = [wanted EXCEPT ![c] = 0]
    /\ counted' = [counted EXCEPT ![c] = Nil]

\* A goroutine starts to read: a live recompute or a lookup of a pending
\* tx, which the node has just reported unconfirmed.
Call(c, o) ==
    /\ pc[c] = "idle"
    /\ o = "pending" => gen < MaxGen
    /\ pc' = [pc EXCEPT ![c] = "refresh"]
    /\ op' = [op EXCEPT ![c] = o]
    /\ wanted' = [wanted EXCEPT ![c] = IF o = "pending" THEN nodeVer ELSE 0]
    /\ UNCHANGED <<nodeVars, cacheVars, startGen, resp, counted, overlap>>

Fresh == /\ entries # Nil
         /\ age < MaxAge
         /\ ~(dirty /\ age >= MinAge)

\* Mutants of FetchUnderway: nobody checks that there is a copy to serve;
\* there is no watchdog; it goes by the wrong age.
FetchUnderwayCold == fetching /\ fetchAge < FetchStuck
FetchUnderwayForever == fetching /\ entries # Nil
FetchUnderwayYoung == fetching /\ fetchAge < MinAge /\ entries # Nil

\* A recent fetch is in flight and there is an older copy to serve.
FetchUnderway == /\ fetching
                 /\ fetchAge < FetchStuck
                 /\ entries # Nil

\* refresh returns nil at once: the copy is fresh, or stale but being
\* refetched by someone else.
ServeCached(c) ==
    /\ pc[c] = "refresh"
    /\ Fresh \/ FetchUnderway
    /\ pc' = [pc EXCEPT ![c] = "read"]
    /\ UNCHANGED <<nodeVars, cacheVars, op, startGen, resp, wanted, counted,
                   overlap>>

StartFetch(c) ==
    /\ pc[c] = "refresh"
    /\ ~Fresh /\ ~FetchUnderway
    /\ fetching' = TRUE
    /\ fetchAge' = 0
    /\ startGen' = [startGen EXCEPT ![c] = gen]
    /\ pc' = [pc EXCEPT ![c] = "rpc"]
    /\ overlap' = (overlap \/ \E d \in Callers \ {c} : InFlight(d))
    /\ UNCHANGED <<nodeVars, entries, queue, dirty, gen, age, op, resp,
                   wanted, counted>>

\* The RPC failed: the error goes to the caller, whatever it was doing.
FetchFailed(c) ==
    /\ pc[c] = "failed"
    /\ fetching' = FALSE
    /\ startGen' = [startGen EXCEPT ![c] = 0]
    /\ Return(c)
    /\ UNCHANGED <<nodeVars, entries, queue, dirty, gen, age, fetchAge, resp,
                   overlap>>

\* Mutant of StillDirty: an install always cleans.
NeverDirty(c) == FALSE

\* Something was invalidated since this caller's fetch began, so that what
\* it installs is not clean.
StillDirty(c) == dirty /\ gen # startGen[c]

\* Mutant of Install: the memoised histogram stays.
InstallKeepsQueue(c) ==
    /\ pc[c] = "answered"
    /\ fetching' = FALSE
    /\ entries' = resp[c]
    /\ age' = 0
    /\ dirty' = StillDirty(c)
    /\ pc' = [pc EXCEPT ![c] = "read"]
    /\ startGen' = [startGen EXCEPT ![c] = 0]
    /\ resp' = [resp EXCEPT ![c] = 0]
    /\ UNCHANGED <<nodeVars, queue, gen, fetchAge, op, wanted, counted,
                   overlap>>

\* The second critical section of refresh.
Install(c) ==
    /\ pc[c] = "answered"
    /\ fetching' = FALSE
    /\ entries' = resp[c]
    /\ queue' = Nil
    /\ age' = 0
    /\ dirty' = StillDirty(c)
    /\ pc' = [pc EXCEPT ![c] = "read"]
    /\ startGen' = [startGen EXCEPT ![c] = 0]
    /\ resp' = [resp EXCEPT ![c] = 0]
    /\ UNCHANGED <<nodeVars, gen, fetchAge, op, wanted, counted, overlap>>

\* The locked read that ends Snapshot, and what its caller does next.  A
\* lookup cannot find its tx in a snapshot taken before the tx entered the
\* mempool; it may also miss it because the tx was mined in the meantime.
ReadSnapshot(c) ==
    /\ pc[c] = "read"
    /\ op[c] # "queue"
    /\ \/ /\ op[c] \in {"snapshot", "retry"}
          /\ Return(c)
       \/ /\ op[c] = "stats"
          /\ pc' = [pc EXCEPT ![c] = "refresh"]
          /\ op' = [op EXCEPT ![c] = "queue"]
          /\ counted' = [counted EXCEPT ![c] = entries]
          /\ UNCHANGED wanted
       \/ /\ op[c] = "pending" /\ entries >= wanted[c]
          /\ Return(c)
       \/ /\ op[c] = "pending"
          /\ pc' = [pc EXCEPT ![c] = "missed"]
          /\ UNCHANGED <<op, wanted, counted>>
    /\ UNCHANGED <<nodeVars, cacheVars, startGen, resp, overlap>>

\* The locked read that ends SnapshotAndQueue; the histogram is derived
\* from the entries at most once per snapshot.
ReadQueue(c) ==
    /\ pc[c] = "read"
    /\ op[c] = "queue"
    /\ queue' = IF queue = Nil THEN entries ELSE queue
    /\ Return(c)
    /\ UNCHANGED <<nodeVars, entries, dirty, gen, age, fetching, fetchAge,
                   startGen, resp, overlap>>

\* m.Invalidate: the zero time is older than every threshold.
Invalidate ==
    /\ age' = MaxAge
    /\ dirty' = TRUE
    /\ gen' = gen + 1

\* m.MarkDirty
MarkDirty ==
    /\ dirty' = TRUE
    /\ gen' = gen + 1
    /\ UNCHANGED age

\* derivePending invalidates and asks once more.
LookupInvalidate(c) ==
    /\ pc[c] = "missed"
    /\ Invalidate
    /\ pc' = [pc EXCEPT ![c] = "refresh"]
    /\ op' = [op EXCEPT ![c] = "retry"]
    /\ UNCHANGED <<nodeVars, entries, queue, fetching, fetchAge, startGen,
                   resp, wanted, counted,
                   overlap>>

-----------------------------------------------------------------------------
(* The node, its notifications and time *)

\* External: the node's mempool changes; a notification is on its way.
Change ==
    /\ nodeVer < MaxVersion
    /\ nodeVer' = nodeVer + 1
    /\ UNCHANGED <<delivered, cacheVars, callerVars, overlap>>

\* Mutant of NotifyTx: a notification may be delivered twice.
NotifyTxTwice ==
    /\ delivered' = delivered + 1
    /\ MarkDirty
    /\ UNCHANGED <<nodeVer, entries, queue, fetching, fetchAge, callerVars,
                   overlap>>

\* OnTxAccepted: NoteArrival marks the snapshot dirty.
NotifyTx ==
    /\ delivered < nodeVer
    /\ delivered' = delivered + 1
    /\ MarkDirty
    /\ UNCHANGED <<nodeVer, entries, queue, fetching, fetchAge, callerVars,
                   overlap>>

\* OnBlock: Service.OnBlock invalidates the snapshot.
NotifyBlock ==
    /\ delivered < nodeVer
    /\ delivered' = delivered + 1
    /\ Invalidate
    /\ UNCHANGED <<nodeVer, entries, queue, fetching, fetchAge, callerVars,
                   overlap>>

\* External: getrawmempoolverbose returns what the node holds.
Answer(c) ==
    /\ pc[c] = "rpc"
    /\ resp' = [resp EXCEPT ![c] = nodeVer]
    /\ pc' = [pc EXCEPT ![c] = "answered"]
    /\ UNCHANGED <<nodeVars, cacheVars, op, startGen, wanted, counted,
                   overlap>>

\* External: the RPC returns an error.
AnswerError(c) ==
    /\ pc[c] = "rpc"
    /\ pc' = [pc EXCEPT ![c] = "failed"]
    /\ UNCHANGED <<nodeVars, cacheVars, op, startGen, resp, wanted, counted,
                   overlap>>

Tick ==
    /\ age < MaxAge \/ fetchAge < FetchStuck
    /\ age' = IF age < MaxAge THEN age + 1 ELSE age
    /\ fetchAge' = IF fetchAge < FetchStuck THEN fetchAge + 1 ELSE fetchAge
    /\ UNCHANGED <<nodeVars, entries, queue, dirty, gen, fetching,
                   callerVars, overlap>>

-----------------------------------------------------------------------------
CallerStep(c) ==
    \/ ServeCached(c) \/ StartFetch(c) \/ FetchFailed(c) \/ Install(c)
    \/ ReadSnapshot(c) \/ ReadQueue(c) \/ LookupInvalidate(c)

Next ==
    \/ Change \/ NotifyTx \/ NotifyBlock \/ Tick
    \/ \E c \in Callers :
          \/ \E o \in Calls : Call(c, o)
          \/ CallerStep(c)
          \/ Answer(c) \/ AnswerError(c)

Spec == Init /\ [][Next]_vars

\* Goroutines and clocks run, notifications arrive, the live ticker keeps
\* computing the statistics, and a node that is asked again and again does
\* not fail every time.  A strandable caller's RPC may also hang for ever.
Fairness ==
    /\ WF_vars(Tick)
    /\ WF_vars(NotifyTx \/ NotifyBlock)
    /\ \A c \in Callers : WF_vars(CallerStep(c))
    /\ \A c \in Callers \ Strandable : WF_vars(Call(c, "stats"))
    /\ \A c \in Callers \ Strandable : SF_vars(Answer(c))
    /\ \A c \in Strandable : SF_vars(Answer(c)) \/ <>[](pc[c] = "rpc")

FairSpec == Spec /\ Fairness

-----------------------------------------------------------------------------
(* Properties *)

\* The memoised histogram always belongs to the snapshot served next to it:
\* installing a snapshot drops the histogram of the previous one.
QueueMatchesEntries == queue \in {Nil, entries}

\* refresh returns nil only when there is a snapshot to read, also to those
\* who come while the first fetch is under way: a mempool never fetched is
\* not shown as an empty one.
ReadsFindSnapshot == \A c \in Callers : pc[c] = "read" => entries # Nil

\* A snapshot that is not marked dirty misses no change the service has
\* been told of, even when the notification arrived during the fetch: the
\* purpose of gen.  This is what lets a fresh copy be served for
\* snapshotMaxAge.  It is claimed as long as fetches did not overlap.
CleanMeansCaughtUp ==
    entries # Nil /\ ~dirty /\ ~overlap => entries >= delivered

\* Two fetches run at once for the first time only at a cold start or when
\* the fetch in flight has been running for fetchStuck.
FirstOverlapIsAllowed ==
    [][~overlap /\ overlap' => entries = Nil \/ fetchAge >= FetchStuck]_vars

\* While fetches do not overlap the snapshot never goes back in time, not
\* even when an RPC fails.
SnapshotMonotone == [][~overlap' => entries' >= entries]_vars

\* computeStats counts transactions from one locked read and draws the
\* queue from a second one: the queue may be newer than the count, never
\* older, unless fetches overlapped.
StatsQueueNotOlder ==
    [][\A c \in Callers :
          /\ op[c] = "queue" /\ pc[c] = "read" /\ pc'[c] = "idle"
          /\ ~overlap
          => queue' >= counted[c]]_vars

\* Once the node's mempool stops changing, the snapshot becomes and stays
\* what the node holds, although some RPCs are never answered.
EventuallyCurrent == <>[](entries = nodeVer)
=============================================================================
