# btcd.watch: TLA+ models and proofs

btcd.watch is a block explorer in front of one btcd node: a Go server that
keeps shared copies of what the node knows, pushes them to browsers over
WebSockets and answers REST lookups, and a React page.  This directory holds
models of the parts of it that are concurrent or easy to get wrong, the TLC runs
that check them and the TLAPS proofs about them.

Contents: 1 the system, 2 the models, 3 the runs, 4 fairness, 5 what is proved,
6 where code and documentation differ, 7 what is not modelled, 8 the plan.

## 1. The system

| Part | Code | State it keeps | Operations |
|---|---|---|---|
| Node client | `internal/node/client.go` | `ready`, `handlers`, `lastBlockHash` | connect and reconnect, register for notifications, deliver blocks and transactions, forward RPCs |
| Mempool snapshot | `internal/explorer/mempool.go` | `entries`, `queue`, `dirty`, `gen`, `fetched`, `fetching`, `fetchStarted`, `peaks` | `Snapshot`, `SnapshotAndQueue`, `Invalidate`, `MarkDirty` |
| Live cache | `internal/explorer/live.go` | `live` (statistics, fees, mempool update), `liveInFlight`, `liveAttemptAt`, `liveKickedAt` | `liveSnapshot` (and through it `Stats`, `Fees`, `MempoolUpdate`, `WarmLive`, `RunLiveRefresh`), `refreshLive` |
| Sync check | `internal/explorer/stats.go` | `syncing`, `syncTip`, `syncInFlight`, ... | `SyncStatus`, `refreshSync`; gates lookups, feeds `healthz` |
| Arrivals, inflow | `arrivals.go`, `inflow.go` | a capped list, six rotating counters | `NoteArrival`, `ratePerMin` |
| Lookups | `tx.go`, `block.go`, `address.go`, `cache.go` | LRU caches of headers, prevouts and address totals; the measured block interval | `GetTx`, `Block...`, `Address`, `OnBlock` |
| Hub | `internal/api/hub.go` | `clients`, `watchers`, `mempoolDirty`, five channels | the cases of `Run`, pushes, `NotifyBlock`, `NotifyMempool` |
| Connections | `internal/api/ws.go` | `send`, `done`, `watched` | `handleWS`, `readPump`, `writePump`, `trySend`, `shutdown` |
| REST | `internal/api/handlers.go`, `middleware.go` | scan semaphore, token buckets | routing, gates, rate limit |
| Price | `internal/price` | the last quote | `Quote`, a refresh loop |
| Browser | `web/src` | socket, watches, page state | reconnect and replay, search, watch, paging |

**How they interact.**  btcd notifies the node client, in one goroutine.  A
block goes to `Service.OnBlock` (invalidate the snapshot and the address
totals) and then `Hub.NotifyBlock`; a transaction goes to `NoteArrival` (mark
the snapshot dirty) and then `Hub.NotifyMempool`.  The hub's loop turns these,
its two tickers and the clients' commands into pushes, each a goroutine that
reads the live cache (statistics, mempool update) or the node (a watched
transaction, a block) and fans the answer out.  Reading the live cache starts a
recompute when one is due; a recompute reads the snapshot, and reading the
snapshot refetches it when it is stale.  Nothing holds a lock while it waits for
the node.  REST handlers read the same caches.

**What is hard.**
- RPCs run between two critical sections, may take minutes, fail, or never
  return; a watchdog lets a second one start beside the first.
- Three layers of caching (snapshot, live cache, what the page shows), each
  refreshed on its own terms.
- Pushes run concurrently and reach clients through bounded buffers; a client
  may leave, be dropped or be rejected at any step.
- Bounded queues between goroutines that wait for each other.
- Bursts of notifications that coalesce: what is merged must not be lost.
- Lookups that ask the node many times while the chain and the mempool move.
- A session that breaks and comes back, on both ends: btcd's and the browser's.
- REST answers, pushes and watch checks that reach one page in any order.
- Windows of time kept in rotating buckets, on a clock that may be stepped.

`PROJECT.json` lists each such hazard at its line, with the property that
covers it or the reason none does yet.

**What makes each part correct.**
- Node client: one `OnBlock` per connect event; whatever became of an earlier
  session, a session that stays up ends with its notifications registered.
- Snapshot: a copy not marked dirty misses nothing the service was told of; it
  goes back only when fetches overlap; histogram and entries belong together; it becomes current in
  the end, whatever RPC hangs.
- Live cache: a feed once served is served for good, becomes what the snapshot
  says, and goes back only when recomputes overlapped or the snapshot itself did;
  recomputes do not pile up.
- Health: a node that has gone mute is reported, the report ends with it, and no
  lookup passes the gate before the node has synced.
- Address totals, block interval: not older than the last block unless a block
  overtook the measurement; scan slots are conserved; every request ends.
- Lookups: an answer was true at some moment of the lookup.
- Derived numbers: cards agree with rows, pages cover a history, the place of a
  transaction in the queue agrees with the queue, tiers cover it.
- Windows: rate, feed and peak show exactly what their windows hold; the limiter
  gives no tokens away.
- Hub: its indexes agree; no client that left is served or leaked; limits hold;
  notifications are neither lost nor reordered and never block the notifier.
- Page: its statistics become current, a push from before the socket closed does
  not shadow them, its watches are the hub's, and a confirmation reaches it.

## 2. The models

| Module | Models | Checked through |
|---|---|---|
| `NodeClient` | the session to btcd: registrations, `ready`, deduplication | itself |
| `NodeClientProofs` | theorems about it | TLAPS |
| `NodeHealth` | the cached sync check (an instance of `LiveCache`) and `healthz` | `MCNodeHealth` |
| `Mempool` | the snapshot and everyone who reads or invalidates it | `MCMempool` |
| `MempoolProofs` | theorems about it | TLAPS |
| `LiveCache` | the live cache and its recomputes | `MCLiveCache` |
| `LiveCacheProofs` | theorems about it | TLAPS |
| `Hub` | the hub's loop, pushes, connections, notifier | `MCHub` |
| `HubProofs` | theorems about it | TLAPS |
| `LiveFeed` | `LiveCache` (by `INSTANCE`), the hub's pushes of feeds and the page's data composed for one browser | `MCLiveFeed` |
| `WatchPage` | a page that watches: socket, watch, search, reducer, against the hub's watches | `MCWatchPage` |
| `WatchPageProofs` | a theorem about it | TLAPS |
| `BlockCaches` | totals of addresses, block interval, scan slots, and the block that outdates them | `MCBlockCaches` |
| `BlockCachesProofs` | theorems about it | TLAPS |
| `LRU` | `cache.go` as operators on the order of use | through `BlockCaches`, `Lookup` |
| `Lookup` | lookups of transactions and blocks, and searches, call by call | `MCLookup` |
| `FeeLine`, `Derivations` | histogram and tiers; outputs, rows, pages, halvings | `MCLookup` |
| `LookupProofs` | theorems about the three | TLAPS |
| `Landing` | arrivals, inflow rate, peak | `MCWindows` |
| `RateLimiter` | the token buckets with their sweep | `MCWindows` |
| `TokenBuckets` | what they promise: buckets never forgotten | refined by `RateLimiter` |
| `WindowsProofs` | theorems about all three | TLAPS |

Three abstractions are common to them.

*Contents are versions.*  The node's state is a counter; a snapshot, histogram,
feed or push is the version it was made from.  What matters is which of two
copies is older, and what a copy can know about.

*Times are ages.*  A `time.Time` that the code reads with `time.Since` is the
number of ticks since, which stops at the largest threshold it is compared with.
The zero time has the largest age.  Thresholds keep their order
(`snapshotMinAge < snapshotMaxAge < fetchStuck`, `liveRefreshEvery <
liveRefreshStuck`), not their ratio.

*A critical section is a step.*  What runs under a mutex, or between two channel
operations, or in one JavaScript callback, is one action; the RPC lies between
two of them.

### Mempool

`pc[c]` is where caller `c` stands: `refresh` (before the first critical section
of `refresh`), `rpc`, `answered` or `failed` (before the second), `read` (before
the locked read that ends `Snapshot` or `SnapshotAndQueue`), `missed`
(`derivePending` found no entry for its transaction).  `op[c]` is what the
caller has still to read: `computeStats` is a snapshot read followed by a queue
read; `derivePending` is a snapshot read and, if its transaction is missing, an
`Invalidate` and a second read.

| Action | Code |
|---|---|
| `ServeCached`, `StartFetch` | first critical section of `refresh` (fresh, in flight, or go and fetch) |
| `Answer`, `AnswerError` | the node (external) |
| `FetchFailed`, `Install` | the two ways `refresh` ends |
| `ReadSnapshot`, `ReadQueue` | the locked reads, with what `computeStats` and `derivePending` do next |
| `LookupInvalidate` | `Invalidate` in `derivePending` |
| `NotifyTx`, `NotifyBlock` | `NoteArrival`, `OnBlock` |
| `Change`, `Tick` | the node and the clock |

`delivered` counts the changes the service was told of; notifications arrive in
order and may lag behind the node.  `overlap` is a history variable: it becomes
true when two fetches are in flight at once.  Several promises hold only while it
is false; section 6 says how they fail afterwards.

### LiveCache

`running` are the goroutines inside `refreshLive`, `next[w]` the feed that
worker `w` computes, `result[w]` what it got (`Nil` for an error).  `Kick` is
`liveSnapshot` when a recompute is due; when none is due it only reads.
`Install` is the critical section that ends `refreshLive`.

A feed is computed from the mempool snapshot (`live.go:55-57`), so its version is
the snapshot's.  `source` is what the snapshot gives to whoever reads it now, and
`Compute` sees that or fails.  `Change` replaces it, as `Mempool.Install` does: by
a newer version, or by an older one when a fetch that was overtaken installs last
(`mempool.go:198`).  Nothing is assumed of when, or of how far the snapshot lags
behind the node.  Two histories say when the order of a feed's values may be lost:
`overlap`, two recomputes were alive at once, and `wentBack`, the snapshot went
back.

### Hub

A client is a connection.  `reader[c]` and `writer[c]` say where its two pumps
are, `cmd[c]` the command its read pump is handing over on the unbuffered
channel, `buf[c]` how many messages its `send` channel holds.  A push is known
by the set of clients it has still to reach, and pushes in flight are counted by
that set: `fetching` before its call of the explorer service returned, `sending`
in the middle of its fan-out.  `trySend` and the attempt to unregister that
follows are one step: a client that is dropped between the two is queued once
more, which `drop` ignores, and `Leave` already queues clients that are gone.
The log ticker changes nothing and is left out, and so is the periodic tick when
there are no clients.

| Action | Code |
|---|---|
| `Register`, `Unregister`, `IgnoreCommand`, `Watch`, `Unwatch`, `TakeBlock`, `TakeMempool`, `MempoolTick`, `PeriodicTick`, `Stop` | the cases of `Run` |
| `FetchFails`, `SendQueued`, `SendSwallowed`, `SendDropped` | `push...`, `send`, `trySend` |
| `Connect`, `ReadCommand`, `ReadFails`, `Leave` | `handleWS`, `readPump` |
| `TakeMessage`, `WriteSucceeds`, `WriterLeaves` | `writePump` |
| `DrainBlocks`, `SendBlock`, `NotifyMempool` | `NotifyBlock` (two steps), `NotifyMempool` |

### LiveFeed

`LiveFeed` instantiates `LiveCache` on its own variables and adds the pushes of
statistics and mempool updates to one browser, and that browser's
`useNetworkData`: a socket that opens (`Register`) and closes (`Close`), and the
REST call that stands in for it (`Load`), whose answer may come after newer
pushes.  `Hub` says when a push starts and whom it reaches; here blocks and mempool
ticks may start one at any time, and `LiveFeed` says which version it carries.  A
mempool update changes two things on the page: the update that the queue is drawn
from, and `stats.mempool.txCount` (`useNetworkData.ts:96-106`), which is `count`
here; `Close` takes back the first (`useNetworkData.ts:117-125`), not the second.

### NodeClient

`starter[s]` is where the goroutine of `onClientConnected` of session `s` stands:
it registers for blocks, then for transactions, then sets `ready`; each
registration may fail, and may find a later session up.  A connect event is a
block joining the node's chain, again too after a reorganisation; btcd's two
notifications of it are one or two entries of `inbox`, which a broken session
cuts short.  `available` is the guard of every RPC.

### NodeHealth

The sync check has the mechanism of the live cache, with one feed: the tip last
seen.  `LiveCache` is instantiated for it with `syncCheckEvery` and
`syncRefreshStuck`.  `checkedAge` is the age of the last answer; `HealthStatus` is
what `handleHealthz` says.  The source of this feed is the node's tip, which moves
forward.  `Syncing` is TRUE until the first answer, as `NewService` has it, where the
tip's age counts (`FirstSynced > 0`).

### BlockCaches

btcd's answers and notifications come over one websocket, and rpcclient runs
`OnBlock` in the goroutine that delivers answers: `wire` is that queue.  A request
takes a slot (`Acquire`) or gives up, looks in the cache, scans page by page
while the history changes under it, stores its totals and reads the page to show.
`avgBlockInterval` measures without its mutex; the mutant that holds it stops the
websocket, as the comment at `tx.go:493` explains.  A history variable marks the
scans and measurements that a block, an arrival or an eviction overtook: only
those may leave a wrong value, for `totalsTTL` at most or until the next block.
The last page before the cap is cut to what is left of it (`Count`), and a page is
full when it has that many.  `Slots` is positive; a server without a limit
(`addrSem` is nil, `handlers.go:44`) behaves as one with a slot for every request,
and has no semaphore to conserve.

### Lookup, FeeLine, Derivations

In `Lookup` an action is one call of the node with what the code does with the
answer; `chain`, `stale` and `pool` change between any two.  A job remembers the
facts that held at some moment since it began, and `AnswerWasTrue` compares its
answer with them.  `BlockAssumption` and `GenesisAssumption` say that a block has a
coinbase first, and that what the chain begins with spends only its own; the
guards of `Accept` and `Fits` are those rules of the node that the lookups rely
on: a parent is known before its child, and a coinbase is not spent before it has
matured, so that no transaction outlives its parents when a block is taken back.

`FeeLine` and `Derivations` are operators; `MCLookup` calls them with every argument
of small sets, each call a step from the first state, and the invariants relate
what two operators make of the same argument.  `CallAssumption` says what an
argument is: satoshis and counts are not negative, sizes and limits not zero, the
mempool is finite.

### Landing, RateLimiter, TokenBuckets

`Landing` has two clocks: ages are measured on the monotonic one, buckets are
those of the wall clock, which may be stepped.  `depths` records the mempools the
updates saw, each with its bucket and with the latest bucket of an update from
then on, for `PeakIsRecent`: what an update saw is part of the peak while no later
one came a whole window after it.  The converse has a proviso.  After a step back
an old bucket stays in the list behind a newer one, since only the head is looked
at, and outlives the window: by no more than the step, in whole buckets.  `RateLimiter` counts time in ticks
of `Rate` tokens; `TokenBuckets` is the same without sweeps and without a
distinction between a bucket that is full and one that is not there.  `MCWindows`
runs the limiter, the arrivals or the depths while the others stand still: they
share nothing but the clock.

### WatchPage

A page is `[view, tx, watching]`.  A dispatch, the render and the effects it causes
are one step (`Show`), which sends the commands that the change of the watched
transaction calls for, if the socket is taken to be open.  `checks` are calls of
`api.tx`; `ours` says whether the component that made the call is still mounted,
since `checking` belongs to it, while the answer is dispatched either way.  `wire`,
`watched` and `pushes` are the connection and the hub's part in it.  A socket in
state `closing` is broken and the page does not know.

| Action | Code |
|---|---|
| `Search`, `SearchShown`, `GoHome`, `ToggleWatch` | `useSearch`, `goHome`, the reducer |
| `CheckAnswered`, `CheckFails`, `CheckTaken`, `Poll` | `confirm` of `useWatchTx` and its fallback |
| `OnOpen`, `OnClose`, `Reconnect` | `ws.ts` |
| `TakeCommand`, `PushAll`, `Fetched`, `FetchFails`, `Delivered` | the hub, `pushTx`, the watch's callback |

## 3. The runs

| Run | Specification | Shows | Distinct states |
|---|---|---|---|
| `mempool` | `FairSpec` | safety of the snapshot; fetches do not pile up; it becomes current although one caller's RPC may hang | 696 thousand |
| `live_cache` | `FairSpec` | safety and progress of the feeds, one worker may hang, the snapshot goes either way | 155 thousand |
| `feed` | `FairSpec` | what the page shows becomes current once the socket and the snapshot settle, one worker may hang | 375 thousand |
| `hub` | `ConnSpec` | two connections for one place: the indexes agree, and the closed, dropped or rejected are forgotten | 139 thousand |
| `hub_notify` | `FairSpec` | notifications are kept and served, the latest block gets through | 33 thousand |
| `windows` | `MCSpec` | the limiter's budget and its refinement of `TokenBuckets`; inflow, feed and peak | 532 thousand |
| `node` | `FairSpec` | blocks passed on once; registrations return | 13 thousand |
| `health` | `FairSpec` | `healthz` reports a mute node and recovers; the gate | 10 thousand |
| `caches` | `FairSpec` | totals and interval after a block, slots, every request ends | 346 thousand |
| `lookup` | `MCSpec` | answers were true; derived numbers agree | 29 thousand |
| `watch_page` | `FairSpec` | watches agree, confirmations arrive | 155 thousand |
| `page_confirmed` | `Spec` | the difference that opens section 6 | violation |

Bounds, and why they are enough:
- *Two callers, two workers, two clients, two requests.*  Every hazard here is
  between two parties: a fetch and the one that overtakes it, a client that
  leaves and a push that still holds it, two connections for one place, a scan
  and a measurement.  The proofs cover any number.
- *Versions*: one change before and one during what is measured; where progress
  is asked for, one change, since it is asked for after the last.
- *Thresholds 1, 2, 3*, the smallest that keep their order: every side of every
  comparison of ages is reached.
- `MaxGen = 1` starts a lookup of a pending transaction only before the second
  invalidation; lookups already started go on, so `gen` stays finite.
- *Buffers, queues, caches and limits of one element*: full and empty are both
  reached in a few steps.  `SendBuffer` is 32 and the unregister queue 8 in the
  code.
- `MaxPushes = 0` lets the loop start pushes only when none is in flight.  The
  pushes started together run in every order.
- `MaxBlocks = 3` in `hub_notify`: a block that replaces one the loop has not
  taken, with an older and a newer one around it.
- `node`: three events and two blocks give a block that comes back; two sessions
  give a goroutine that outlives its own.
- `hub`: two connections and one place, so that one is rejected, or waits for room in
  the unregister queue that the other fills, with a command still to hand over.  There
  is one transaction to watch, and never two who watch it at once; that the indexes
  agree for any number of both is `WatchIndexSafe`'s, and the cap on watches
  `LimitsSafe`'s.
- `live_cache`: three versions, and the snapshot moves between them for as long as it
  likes; two feeds, so that one may fail.  `feed`: a recompute has one feed, which
  stands for both payloads, and there are two workers, of which one may hang.
- `caches`: chunks of one, a cap of two, two transactions: a scan of two pages, a
  last page that is full, a cap that is met.  That the last page is cut to
  what is left of a cap that is no multiple of the chunk (`Count`) only shows with
  more transactions than two requests leave room for; `TotalsSafe` covers any cap.
- `lookup`: a chain of three blocks, one parent spent twice and one more spent
  once, six events (extend, disconnect, mempool in and out); cache capacity 1.
- `windows`: the bucket and costs of the code (8, 4, 2, 1), a refill that does
  not divide them; three transactions, a feed of two, two buckets of each kind,
  a step of one bucket either way, three updates: one before the step, one after
  it, and one that should have forgotten the first.  The wall clock is stepped once
  at most, in the theorems too.
- `watch_page`: two transactions, so that the page may leave one for the other;
  one call of `api.tx` and one toggle on the wire at a time, two of each in
  `page_confirmed`.

`SYMMETRY` is used in the safety run `windows` only.
`CHECK_DEADLOCK FALSE` stands in two cfgs, `NodeClient` and `MCWindows`, where
bounds on events and time let the system stop; `Hub` stutters once the loop has
stopped, because the process then exits.

Every property has a mutant: a definition next to the one it mutates, changed the
way a slip in the code would change it (a dropped guard, a flag not reset, a
missing case), under which the run finds the property violated.

Defined and proved, but not checked by a run: `StatsQueueNotOlder` and
`SnapshotMonotone` of `Mempool`, `FeedsNeverUnwarm` of `LiveCache`, `NoDoneClient`,
`WithinLimits` and `BlocksInOrder` of `Hub`, and the type invariants.

## 4. Fairness

`FairSpec` adds to each specification only what the scheduler, the clock or the
node grants (`ConnSpec` of `Hub` leaves out what only notifications need):
- clocks tick, goroutines that can run do run, a `select` that is ready for a
  case again and again takes it (Go picks among ready cases at random), hence
  strong fairness on the cases of `Run`;
- `RunLiveRefresh` reads the live cache for ever, whatever the traffic, so the
  statistics are computed again and again;
- the node answers a call it is asked again and again in the end: strong fairness
  on `Answer` and on `Compute`.  A caller in `Strandable` is exempt: its call may
  hang for ever.  There is always another who is not;
- a read on a closed connection fails, and a write ends within `writeWait`;
- `NodeClient`: rpcclient fails or completes a call while the link is up;
- `NodeHealth`: the page's feeds and a monitor keep asking for the sync state;
- `BlockCaches`: the node answers or fails every call, and timers fire;
- `LiveFeed`: the hub's periodic ticker (while the socket is open) and the page's
  timer (while it is not) fire again and again.  Fairness is weak, as a timer that
  finds the socket in the other state does nothing: nothing is promised of a socket
  that comes and goes for ever, and the properties say so (`Settled`).  No block and
  no arrival is needed for the statistics to arrive, and no mempool update need be
  sent;
- `WatchPage`: the link breaks finitely often, or is never up again.  A link that
  comes and goes for ever starves both ways: each reconnection starts the
  countdown of the fallback anew (`useWatchTx.ts:75`), and the connection need not
  last until the next push.
Nothing obliges a peer to close, a client to send, a block to come, or an RPC to
succeed the first time.

## 5. What is proved

For all values of the constants that satisfy the named assumptions (thresholds in
the order of the code, capacities positive, finitely many connections, requests
and txids).

*`MempoolProofs`*: `TypeCorrect`, `ReadsSafe`, `QueueSafe`, `CleanSafe`,
`FirstOverlap`, `Monotone`, `StatsForward`.  That a clean copy misses nothing is
not inductive: it needs to know what a fetch in flight knows.  The invariant
`IInv` adds, while fetches do not overlap: at most one fetch is in flight and
`fetching` is set (`AtMostOneFetch`, `FetchIsFlagged`); if `gen` moved since the
fetch began then `dirty` is set (`FetchSeesChange`); the answer is not older than
what it replaces, and if `gen` did not move it covers every notification handled
(`AnswerIsCurrent`).

*`LiveCacheProofs`*: `TypeCorrect`, `NeverUnwarm`, `Monotone`, `FirstOverlap`.
The invariant has two parts (`WhileAlone`, `WhileForward`).  Until recomputes overlap
there is at most one worker, and it is flagged; if the snapshot has not gone back
either, nothing served or computed is newer than it, and what a worker computed is
not older than the feed it will replace.  `Monotone` needs both provisos, and the
code needs them: each alone lets a feed go back.

*`HubProofs`*: `TypeCorrect`, `WatchIndexSafe`, `NoDoneSafe`, `NoZombieSafe`,
`LimitsSafe`, `NotifierSafe`, `RequestSafe`.  The invariant is their conjunction
with `Fresh`: a connection the loop has not taken yet is not registered, not shut
down and watches nothing, so registering it disturbs no index.  `InOrder`, for
`BlocksInOrder`, has an invariant of its own (`Ordered`): the block in the channel
is neither older than the last one taken nor newer than the last one notified.

*`WindowsProofs`*: of the limiter `TypeCorrect`; `Granted`, the bound on what any
client gets in any window; `Refines`, that the limiter with its sweeps implements
`TokenBuckets`.  All rest on lemmas that say what each action does to `Level(c)`,
what client `c` could spend now: a request takes its cost from its own, a tick adds
`Rate` up to a full bucket, and a sweep changes none, because it takes only buckets
that are full by then.  Of the landing page:
- `PeakSafe`.  The list of buckets is not sorted once the clock was set back; the
  invariant (`PeakInv`) says how far out of order it may be, and that every depth
  seen is in its bucket or was followed by an update a window later.
- `FeedSafe`.  `FeedInv` says that the entries are last notifications in their order
  and that one which is not listed was too old or older than a full list.
- `InflowSafe`.  Each bucket of the counter holds the notifications of the one slot
  of the last window that has its remainder, so that the sum over the buckets is
  the sum over the slots (`RateInv`).  This is where a step of the clock must be
  shorter than the window.

*`NodeClientProofs`*: `BlocksPassedOn`, for any number of events and sessions.
`OncePerConnect` speaks of counts; inductive is that there is an event `p` such
that nothing after `p` was passed on, `p`'s block is `lastBlock`, and what is under
way is not before `p` (`SeenUpTo`).

*`BlockCachesProofs`*: `SlotsSafe`.  The proof follows each request through its
lookup and shows that every way out gives back exactly the slot it took.
`IntervalSafe`, for `IntervalCurrent`, rests on the order of the one websocket
(`TipInv`): an answer on the wire is no older than a block in front of it, nor
than what `OnBlock` has handled, and no request has two answers on the wire.
`TotalsSafe`, for `TotalsCurrent`, adds (`TotInv`) what a scan has counted so far:
unless something overtook it, the history up to its next page; and what a cached
entry counts: each transaction once, and all of those in handled blocks unless it
met the cap.

*`WatchPageProofs`*: `WatchesSafe`.  `Played(w, ts)` is what the hub watches once it
has taken the commands `w`; lemmas say what one more command at the end, or the
first one taken, does to it.  The invariant adds that a hub knows of no watches of
a connection that is not open, which makes the replay right.

*`LookupProofs`*: `AnswersTrue` and `ParentsOnce`, from an invariant in two parts
(`Consistent`).  `NodeOK` says that all parents of what is known are known, and
which of them are coinbases that may not be taken back.  `JobOK` says of a lookup
at each of its calls why it is there: the block it is in is on the chain, the
transaction it has is known, the try that failed failed for a reason, *or* the facts
have it that something was taken away since.  A change of the node keeps the first
or notes the second, which is all that lookups need to know about each other.
`RunIsLookup` says that these theorems hold of the run's specification.

The rest of the module is about derived numbers: `PagesSafe`, `HalvingsSafe`,
`LineSafe`, `TiersSafe`, `CardsSafe`, for arguments of any size.  They are sums over
finite sets (`SumFunctionOnSet`, whose fold takes members in an order nobody knows)
and results of loops.  `SumExists` and `SumUnique` say that a fold has one result,
`SumTake` that any member may be taken first; from these come the sum of a union
(`SumSplit`) and of equal functions (`SumSame`).  `Recursion` does the same for loops,
and `LineExists` for the sort.  On them rest the walks: the entry that fills the
next block is where the shares ahead of it say (`NextBlockIs`), the bands are a
partition (`BandsAreAll`), a percentile covers its share (`PercentileIs`), each
halving shifts by one bit (`PowersOfTwo`), the best code so far stays the best
(`BestStays`).

Inductions over data are proved from the order of the naturals: the library's
induction takes an operator as its parameter, which these provers cannot
instantiate, so the statement is written as the set of numbers, or of parts of a
finite set, that it holds of (`Induction`, `SetInduction`), with
`WellFoundedInduction` underneath.

Only model-checked: everything under fairness, as liveness and `ENABLED` are beyond
the prover, and `GateWaits` of `NodeHealth`.  Every other property of a passing run
is a theorem.

## 6. Where code and documentation differ

`page_confirmed`: `tx-updated` (`web/src/state.ts:91`) looks neither at the view
nor at the txid.  A pending page asks for its transaction (`useWatchTx.ts:35`);
the user goes home and opens another transaction, which is confirmed; the answer
comes and replaces `state.tx` while the view stays: the page says "Confirmed",
"This payment is complete and permanent" (`ConfirmedTx.tsx:58-61`) of a
transaction that is pending.  The comment on the case says "a pending tx either
refreshed its queue position or just landed in a block" (`state.ts:89`).

Seen while modelling and not given a run.  On the page:
- `goHome` does not cancel a search under way: its answer replaces the landing
  page.  A late check that finds its transaction confirmed opens that page over
  whatever is shown.
- The next page of activity starts where the list ends (`AddressView.tsx:32`),
  and a stale page is dropped by comparing the address (`state.ts:124`): when the
  same address is searched again with a page in flight, that page is appended and
  leaves a gap.  Blocks likewise.

In the server:
- The mempool push of a block shows the cache as it is, from before the block
  (ARCHITECTURE.md:413, `hub.go:185`).  The last arrival before a quiet spell does
  not appear "within ~a second" (ARCHITECTURE.md:416), as the tick that pushes
  it clears the dirty flag whatever the cache holds.
- With two fetches in flight an older answer, installed last, can be declared
  clean, against the comment at `mempool.go:202`; `CleanMeansCaughtUp` has the
  proviso.  The one flag for all fetches lets a third start when the one that was
  overtaken returns (`mempool.go:142`); `live.go` has the same pattern.
- While a fetch is in flight the read after `Invalidate` is served the invalidated
  copy (`mempool.go:210`, `tx.go:434`).
- `ready` is set even when a registration failed (`client.go:216`).  Blocks are
  deduplicated by hash, not by height (ARCHITECTURE.md:444): when the half of a
  reorganisation that is lost in an outage leads back to the last block seen, its
  reconnection is dropped.
- The latest of several blocks in a burst replaces the others, so the `block`
  message is not sent "once per connected block" (ARCHITECTURE.md:421); the
  10-second ticker pushes confirmed watches too (ARCHITECTURE.md:423).
- A slow client is not disconnected when the unregister queue is full
  (ARCHITECTURE.md:433; the comment in `send` says so).
- A snapshot that goes back takes the feeds with it: the dashboard can go back
  although no two recomputes overlapped.
- Fee floors are not "used verbatim when the mempool is empty" (`fees.go:10-11`):
  they are put in order, rounded and raised to 1 there too, which shows if they are
  configured out of order, finer than the rounding or below 1.
- `approximate` is set when a history is exactly as long as the cap
  (`address.go:138`); a self-payment's amount is negative although
  `address.go:24` says "always positive"; the interval can be more than "one block
  stale" (`tx.go:491`); `BlocksUntilHalving` divides by an interval of 0 that
  `BlockSubsidy` guards against (`params.go:94`).
- A `burst` below 8 never lets an address lookup through.

## 7. What is not modelled

- *Price service*: one goroutine overwrites one quote under a lock.
- *Configuration, start-up, static files, headers*: read once, or pure I/O.
- *Parsing, JSON, routing, query classification, script types*: a query reaches
  `Lookup` classified, a command reaches `Hub` parsed.
- *Plain arithmetic*: fiat amounts, the RBF flag, the average fee rate, ages.
- *Views and components*: rendering.  Of the page's state the lists of addresses
  and blocks, the detail switch and the length of the backoff are left out.
- *The wire behaviour of btcd and rpcclient* is an input, as is the browser's
  WebSocket.

Simplifications to know of: `time.Now()` is read before the limiter's mutex is
taken, so two requests may use times in the wrong order, a difference the model's
ticks do not show; arrivals and evictions between two pages of a scan count a
transaction twice or not at all, and the model allows that for scans it marks as
overtaken; a stall of a node whose chain has been old from the start is one of
`NodeHealth`'s old tips, however long it lasts.

## 8. The plan

Next, in this order:
1. The page's lists: `address-more` and `block-more` against repeated searches.
2. `LiveFeed` and `NodeHealth` implement `LiveCache`: what is proved of it, of them.
3. An abstract `StaleCopy` (a copy of a versioned source that only moves forward),
   implemented by `LiveCache` and `Mempool` while nothing overlaps.
