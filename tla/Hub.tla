-------------------------------- MODULE Hub --------------------------------
(***************************************************************************)
(* The WebSocket hub: internal/api/hub.go and the connections of           *)
(* internal/api/ws.go.  One loop owns the registry of clients and their    *)
(* watch registrations.  Pushes run in goroutines of their own, which      *)
(* touch a client only through its buffered send channel; every connection *)
(* has a read pump and a write pump.                                       *)
(*                                                                         *)
(* A case of the loop's select is one action, and so is each step of a     *)
(* pump or of a push between two channel operations.  The payload of a     *)
(* push is left out: a push is known by whom it has still to reach, and    *)
(* pushes are counted by that set.  A client stands for one connection;    *)
(* reconnecting makes another client.                                      *)
(***************************************************************************)
EXTENDS Integers, Sequences, FiniteSets

CONSTANTS Clients,        \* bound: connections ever made
          Txids,          \* txids a client may watch
          MaxClients,     \* Hub.MaxClients, 0 for no limit
          MaxWatched,     \* maxWatchedPerClient
          SendBuffer,     \* sendBufferSize
          UnregisterCap,  \* capacity of the unregister channel
          MaxBlocks,      \* bound: blocks connected
          Arrivals,       \* whether transactions arrive in the mempool
          MaxPushes       \* bound: the loop starts no push beyond it

ASSUME FiniteAssumption == IsFiniteSet(Clients) /\ IsFiniteSet(Txids)
ASSUME LimitsAssumption ==
    /\ MaxClients \in Nat /\ MaxWatched \in Nat \ {0}
    /\ SendBuffer \in Nat \ {0} /\ UnregisterCap \in Nat \ {0}
    /\ MaxBlocks \in Nat /\ MaxPushes \in Nat
    /\ Arrivals \in BOOLEAN

VARIABLES
    \* owned by the loop
    running,       \* Run has not returned
    clients,       \* h.clients
    watchers,      \* h.watchers; {} for a txid that has no entry
    watched,       \* c.watched of every client
    mempoolDirty,  \* h.mempoolDirty
    \* channels
    unregister,    \* h.unregister
    blocks,        \* h.blocks: the block in it, or NoBlock
    mempoolCh,     \* h.mempoolCh holds its one element
    \* connections
    reader,        \* where readPump is, "register" being handleWS
    writer,        \* where writePump is
    cmd,           \* the command readPump is handing over, {} if none
    open,          \* clients whose connection is open
    done,          \* clients whose done channel is closed
    buf,           \* messages in c.send
    \* pushes, by the set of clients they have still to reach
    fetching,      \* calling the explorer service
    sending,       \* in send's loop, past its first client
    \* the notifier
    notifier,      \* NotifyBlock is between its two statements
    notified,      \* blocks NotifyBlock was called for
    \* history
    taken,         \* the last block the loop has received
    owed           \* a mempool notification no push has followed yet

loopVars == <<running, clients, watchers, watched, mempoolDirty>>
connVars == <<reader, writer, cmd, open, done, buf>>
pushVars == <<fetching, sending>>
noteVars == <<notifier, notified, blocks, mempoolCh>>
histVars == <<taken, owed>>
vars     == <<loopVars, connVars, pushVars, noteVars, histVars, unregister>>

NoBlock  == 0
Audience == SUBSET Clients \ {{}}
Command  == [watch : BOOLEAN, txid : Txids]

Readers == {"none", "register", "reading", "leaving", "gone"}
Writers == {"none", "waiting", "writing", "gone"}

TypeOK ==
    /\ running \in BOOLEAN
    /\ clients \in SUBSET Clients
    /\ watchers \in [Txids -> SUBSET Clients]
    /\ watched \in [Clients -> SUBSET Txids]
    /\ mempoolDirty \in BOOLEAN
    /\ unregister \in Seq(Clients) /\ Len(unregister) <= UnregisterCap
    /\ blocks \in 0..MaxBlocks
    /\ mempoolCh \in BOOLEAN
    /\ reader \in [Clients -> Readers]
    /\ writer \in [Clients -> Writers]
    /\ cmd \in [Clients -> SUBSET Command]
    /\ open \in SUBSET Clients
    /\ done \in SUBSET Clients
    /\ buf \in [Clients -> 0..SendBuffer]
    /\ fetching \in [Audience -> Nat]
    /\ sending \in [Audience -> Nat]
    /\ notifier \in {"idle", "drained"}
    /\ notified \in 0..MaxBlocks
    /\ taken \in 0..MaxBlocks
    /\ owed \in BOOLEAN

Init ==
    /\ running = TRUE
    /\ clients = {}
    /\ watchers = [t \in Txids |-> {}]
    /\ watched = [c \in Clients |-> {}]
    /\ mempoolDirty = FALSE
    /\ unregister = << >>
    /\ blocks = NoBlock
    /\ mempoolCh = FALSE
    /\ reader = [c \in Clients |-> "none"]
    /\ writer = [c \in Clients |-> "none"]
    /\ cmd = [c \in Clients |-> {}]
    /\ open = {} /\ done = {}
    /\ buf = [c \in Clients |-> 0]
    /\ fetching = [S \in Audience |-> 0]
    /\ sending = [S \in Audience |-> 0]
    /\ notifier = "idle" /\ notified = 0
    /\ taken = NoBlock /\ owed = FALSE

-----------------------------------------------------------------------------
(* The loop: one action for each case of Run's select *)

\* The bound on pushes under way, at every place that starts some.
Room == \A S \in Audience : fetching[S] + sending[S] <= MaxPushes

\* Start n[S] goroutines that push to S.
Start(n) == fetching' = [S \in Audience |-> fetching[S] + n[S]]

Once(S, T) == IF S = T THEN 1 ELSE 0

\* The pushes of pushAll: the statistics to all clients, and every watched
\* txid to those who watch it.
PushAll == [S \in Audience |-> Once(S, clients)
              + Cardinality({t \in Txids : watchers[t] = S})]

\* shutdown closes done and the connection.
Shutdown(c) ==
    /\ done' = done \cup {c}
    /\ open' = open \ {c}

Full == MaxClients > 0 /\ Cardinality(clients) >= MaxClients

\* Registration of a new connection; handleWS then starts the two pumps.
Register(c) ==
    /\ running /\ Room
    /\ reader[c] = "register"
    /\ reader' = [reader EXCEPT ![c] = "reading"]
    /\ writer' = [writer EXCEPT ![c] = "waiting"]
    /\ \/ /\ Full
          /\ Shutdown(c)
          /\ UNCHANGED <<clients, fetching>>
       \/ /\ ~Full
          /\ clients' = clients \cup {c}
          /\ Start([S \in Audience |-> 2 * Once(S, {c})])
          /\ UNCHANGED <<done, open>>
    /\ UNCHANGED <<running, watchers, watched, mempoolDirty, cmd, buf,
                   sending, noteVars, histVars, unregister>>

\* Mutant of WatchersWithout: the registrations of the client stay.
WatchersKept(c) == watchers

\* drop calls removeWatcher for every txid the client watches.
WatchersWithout(c) ==
    [t \in Txids |-> IF t \in watched[c] THEN watchers[t] \ {c}
                     ELSE watchers[t]]

\* drop, for the client at the head of the unregister queue.
Unregister ==
    /\ running
    /\ unregister # << >>
    /\ unregister' = Tail(unregister)
    /\ LET c == Head(unregister) IN
       \/ /\ c \notin clients
          /\ UNCHANGED <<clients, watchers, done, open>>
       \/ /\ c \in clients
          /\ clients' = clients \ {c}
          /\ watchers' = WatchersWithout(c)
          /\ Shutdown(c)
    /\ UNCHANGED <<running, watched, mempoolDirty, reader, writer, cmd, buf,
                   pushVars, noteVars, histVars>>

\* Mutant of IgnoreCommand: nobody takes the command of a client that is not
\* registered any more.
IgnoreIfRegistered(c) ==
    /\ running
    /\ c \in clients
    /\ \E m \in cmd[c] :
          /\ m.watch
          /\ Cardinality(watched[c]) >= MaxWatched
          /\ m.txid \notin watched[c]
    /\ cmd' = [cmd EXCEPT ![c] = {}]
    /\ UNCHANGED <<loopVars, reader, writer, open, done, buf, pushVars,
                   noteVars, histVars, unregister>>

\* A command of a client that is not registered is ignored, and so is a
\* watch beyond the cap.
IgnoreCommand(c) ==
    /\ running
    /\ \E m \in cmd[c] :
          \/ c \notin clients
          \/ /\ m.watch
             /\ Cardinality(watched[c]) >= MaxWatched
             /\ m.txid \notin watched[c]
    /\ cmd' = [cmd EXCEPT ![c] = {}]
    /\ UNCHANGED <<loopVars, reader, writer, open, done, buf, pushVars,
                   noteVars, histVars, unregister>>

\* The watcher is sent the state of its tx at once.
Watch(c) ==
    /\ running /\ Room
    /\ c \in clients
    /\ \E m \in cmd[c] :
          /\ m.watch
          /\ Cardinality(watched[c]) < MaxWatched \/ m.txid \in watched[c]
          /\ watchers' = [watchers EXCEPT ![m.txid] = @ \cup {c}]
          /\ watched' = [watched EXCEPT ![c] = @ \cup {m.txid}]
    /\ cmd' = [cmd EXCEPT ![c] = {}]
    /\ Start([S \in Audience |-> Once(S, {c})])
    /\ UNCHANGED <<running, clients, mempoolDirty, reader, writer, open, done,
                   buf, sending, noteVars, histVars, unregister>>

Unwatch(c) ==
    /\ running
    /\ c \in clients
    /\ \E m \in cmd[c] :
          /\ ~m.watch
          /\ watched' = [watched EXCEPT ![c] = @ \ {m.txid}]
          /\ watchers' = [watchers EXCEPT ![m.txid] = @ \ {c}]
    /\ cmd' = [cmd EXCEPT ![c] = {}]
    /\ UNCHANGED <<running, clients, mempoolDirty, reader, writer, open, done,
                   buf, pushVars, noteVars, histVars, unregister>>

\* A block: everything is pushed, the mempool and the block's flash too.
TakeBlock ==
    /\ running /\ Room
    /\ blocks # NoBlock
    /\ blocks' = NoBlock
    /\ taken' = blocks
    /\ mempoolDirty' = FALSE
    /\ owed' = FALSE
    /\ Start([S \in Audience |-> PushAll[S] + 2 * Once(S, clients)])
    /\ UNCHANGED <<running, clients, watchers, watched, connVars, sending,
                   notifier, notified, mempoolCh, unregister>>

\* Mutant of TakeMempool: without clients the request is forgotten.
TakeMempoolIfSeen ==
    /\ running
    /\ mempoolCh
    /\ mempoolCh' = FALSE
    /\ mempoolDirty' = (clients # {})
    /\ UNCHANGED <<running, clients, watchers, watched, connVars, pushVars,
                   notifier, notified, blocks, histVars, unregister>>

TakeMempool ==
    /\ running
    /\ mempoolCh
    /\ mempoolCh' = FALSE
    /\ mempoolDirty' = TRUE
    /\ UNCHANGED <<running, clients, watchers, watched, connVars, pushVars,
                   notifier, notified, blocks, histVars, unregister>>

\* mpTicker
MempoolTick ==
    /\ running /\ Room
    /\ mempoolDirty
    /\ mempoolDirty' = FALSE
    /\ owed' = FALSE
    /\ Start([S \in Audience |-> Once(S, clients)])
    /\ UNCHANGED <<running, clients, watchers, watched, connVars, sending,
                   noteVars, taken, unregister>>

\* ticker
PeriodicTick ==
    /\ running /\ Room
    /\ clients # {}
    /\ Start(PushAll)
    /\ UNCHANGED <<loopVars, connVars, sending, noteVars, histVars,
                   unregister>>

\* ctx.Done: Run shuts every client down and returns.
Stop ==
    /\ running
    /\ running' = FALSE
    /\ done' = done \cup clients
    /\ open' = open \ clients
    /\ UNCHANGED <<clients, watchers, watched, mempoolDirty, reader, writer,
                   cmd, buf, pushVars, noteVars, histVars, unregister>>

LoopStep ==
    \/ Unregister \/ TakeBlock \/ TakeMempool \/ MempoolTick \/ PeriodicTick
    \/ \E c \in Clients :
          Register(c) \/ IgnoreCommand(c) \/ Watch(c) \/ Unwatch(c)

-----------------------------------------------------------------------------
(* Pushes *)

\* The call of the explorer service failed: nothing is pushed.
FetchFails(S) ==
    /\ fetching[S] > 0
    /\ fetching' = [fetching EXCEPT ![S] = @ - 1]
    /\ UNCHANGED <<loopVars, connVars, sending, noteVars, histVars,
                   unregister>>

\* A push to S deals with c.  For the first of its clients this includes
\* the service's answer, which nothing else here can see.
Reached(S, c) ==
    /\ c \in S
    /\ \/ /\ fetching[S] > 0
          /\ fetching' = [fetching EXCEPT ![S] = @ - 1]
          /\ sending' = [T \in Audience |-> sending[T] + Once(T, S \ {c})]
       \/ /\ sending[S] > 0
          /\ sending' = [T \in Audience |-> sending[T] - Once(T, S)
                                              + Once(T, S \ {c})]
          /\ UNCHANGED fetching

\* Mutant of SendQueued: nobody looks whether there is room.
SendUnbounded(S, c) ==
    /\ Reached(S, c)
    /\ buf' = [buf EXCEPT ![c] = @ + 1]
    /\ UNCHANGED <<loopVars, reader, writer, cmd, open, done,
                   noteVars, histVars, unregister>>

\* trySend queues the message, or swallows it for a client being dropped;
\* when both are possible its select takes either.
SendQueued(S, c) ==
    /\ Reached(S, c)
    /\ buf[c] < SendBuffer
    /\ buf' = [buf EXCEPT ![c] = @ + 1]
    /\ UNCHANGED <<loopVars, reader, writer, cmd, open, done,
                   noteVars, histVars, unregister>>

SendSwallowed(S, c) ==
    /\ Reached(S, c)
    /\ c \in done
    /\ UNCHANGED <<loopVars, connVars, noteVars, histVars,
                   unregister>>

\* The buffer is full: the message is lost and the client is queued for
\* unregistration, unless that queue is full as well.
SendDropped(S, c) ==
    /\ Reached(S, c)
    /\ c \notin done
    /\ buf[c] = SendBuffer
    /\ unregister' = IF Len(unregister) < UnregisterCap
                     THEN Append(unregister, c) ELSE unregister
    /\ UNCHANGED <<loopVars, connVars, noteVars, histVars>>

PushStep(S) ==
    \/ FetchFails(S)
    \/ \E c \in S :
          SendQueued(S, c) \/ SendSwallowed(S, c) \/ SendDropped(S, c)

-----------------------------------------------------------------------------
(* Connections *)

\* handleWS has upgraded a connection and waits for the loop to take it.
Connect(c) ==
    /\ reader[c] = "none"
    /\ reader' = [reader EXCEPT ![c] = "register"]
    /\ open' = open \cup {c}
    /\ UNCHANGED <<loopVars, writer, cmd, done, buf, pushVars, noteVars,
                   histVars, unregister>>

\* readPump has read a command and hands it to the loop.
ReadCommand(c, m) ==
    /\ reader[c] = "reading" /\ cmd[c] = {}
    /\ c \in open
    /\ cmd' = [cmd EXCEPT ![c] = {m}]
    /\ UNCHANGED <<loopVars, reader, writer, open, done, buf, pushVars,
                   noteVars, histVars, unregister>>

\* ReadJSON fails: the peer went away, fell silent for pongWait or broke
\* the protocol, or the connection was closed on this side.
ReadFails(c) ==
    /\ reader[c] = "reading" /\ cmd[c] = {}
    /\ reader' = [reader EXCEPT ![c] = "leaving"]
    /\ UNCHANGED <<loopVars, writer, cmd, open, done, buf, pushVars, noteVars,
                   histVars, unregister>>

\* Mutant of Leave: readPump does not wait for room in the queue.
LeaveWithoutWaiting(c) ==
    /\ reader[c] = "leaving"
    /\ unregister' = IF Len(unregister) < UnregisterCap
                     THEN Append(unregister, c) ELSE unregister
    /\ open' = open \ {c}
    /\ reader' = [reader EXCEPT ![c] = "gone"]
    /\ UNCHANGED <<loopVars, writer, cmd, done, buf, pushVars, noteVars,
                   histVars>>

\* readPump's deferred function waits for room in the unregister queue,
\* then closes the connection.
Leave(c) ==
    /\ reader[c] = "leaving"
    /\ Len(unregister) < UnregisterCap
    /\ unregister' = Append(unregister, c)
    /\ open' = open \ {c}
    /\ reader' = [reader EXCEPT ![c] = "gone"]
    /\ UNCHANGED <<loopVars, writer, cmd, done, buf, pushVars, noteVars,
                   histVars>>

TakeMessage(c) ==
    /\ writer[c] = "waiting" /\ buf[c] > 0
    /\ buf' = [buf EXCEPT ![c] = @ - 1]
    /\ writer' = [writer EXCEPT ![c] = "writing"]
    /\ UNCHANGED <<loopVars, reader, cmd, open, done, pushVars, noteVars,
                   histVars, unregister>>

WriteSucceeds(c) ==
    /\ writer[c] = "writing"
    /\ c \in open
    /\ writer' = [writer EXCEPT ![c] = "waiting"]
    /\ UNCHANGED <<loopVars, reader, cmd, open, done, buf, pushVars, noteVars,
                   histVars, unregister>>

\* writePump returns and closes the connection: a message or a ping could
\* not be written within writeWait, or done was closed.
WriterLeaves(c) ==
    /\ writer[c] \in {"waiting", "writing"}
    /\ writer' = [writer EXCEPT ![c] = "gone"]
    /\ open' = open \ {c}
    /\ UNCHANGED <<loopVars, reader, cmd, done, buf, pushVars, noteVars,
                   histVars, unregister>>

ConnStep(c) ==
    \/ Connect(c) \/ ReadFails(c) \/ Leave(c)
    \/ \E m \in Command : ReadCommand(c, m)
    \/ TakeMessage(c) \/ WriteSucceeds(c) \/ WriterLeaves(c)

-----------------------------------------------------------------------------
(* Notifications, delivered one at a time by the node client *)

\* Mutants of DrainBlocks: it does not drain; the first block wins.
DrainNothing ==
    /\ notifier = "idle" /\ notified < MaxBlocks
    /\ notifier' = "drained"
    /\ notified' = notified + 1
    /\ UNCHANGED <<loopVars, connVars, pushVars, blocks, mempoolCh, histVars,
                   unregister>>
DrainUnlessFull ==
    /\ notifier = "idle" /\ notified < MaxBlocks
    /\ notifier' = IF blocks = NoBlock THEN "drained" ELSE "idle"
    /\ notified' = notified + 1
    /\ UNCHANGED <<loopVars, connVars, pushVars, blocks, mempoolCh, histVars,
                   unregister>>

\* NotifyBlock first drains the channel ...
DrainBlocks ==
    /\ notifier = "idle" /\ notified < MaxBlocks
    /\ notifier' = "drained"
    /\ notified' = notified + 1
    /\ blocks' = NoBlock
    /\ UNCHANGED <<loopVars, connVars, pushVars, mempoolCh, histVars,
                   unregister>>

\* ... and then sends; it would wait if the channel were full.
SendBlock ==
    /\ notifier = "drained" /\ blocks = NoBlock
    /\ notifier' = "idle"
    /\ blocks' = notified
    /\ UNCHANGED <<loopVars, connVars, pushVars, notified, mempoolCh,
                   histVars, unregister>>

NotifyMempool ==
    /\ Arrivals
    /\ notifier = "idle"
    /\ mempoolCh' = TRUE
    /\ owed' = TRUE
    /\ UNCHANGED <<loopVars, connVars, pushVars, notifier, notified, blocks,
                   taken, unregister>>

-----------------------------------------------------------------------------
Next ==
    \/ LoopStep \/ Stop
    \/ \E S \in Audience : PushStep(S)
    \/ \E c \in Clients : ConnStep(c)
    \/ DrainBlocks \/ SendBlock \/ NotifyMempool
    \/ ~running /\ UNCHANGED vars  \* the process exits, nothing need happen

Spec == Init /\ [][Next]_vars

\* The loop, pumps and pushes run.  A select that is ready for a case over
\* and over takes it in the end, since it picks among ready cases at
\* random.  A read on a closed connection fails; a write ends within
\* writeWait, and done or a failing ping ends the write pump; the explorer
\* service answers or fails.
ConnFairness ==
    /\ SF_vars(Unregister)
    /\ \A c \in Clients :
          /\ SF_vars(Register(c))
          /\ SF_vars(IgnoreCommand(c) \/ Watch(c) \/ Unwatch(c))
          /\ WF_vars(c \notin open /\ ReadFails(c))
          /\ SF_vars(Leave(c))
          /\ WF_vars(writer[c] = "writing"
                     /\ (WriteSucceeds(c) \/ WriterLeaves(c)))
          /\ WF_vars((c \in done \/ c \notin open) /\ WriterLeaves(c))
    /\ \A S \in Audience : WF_vars(PushStep(S))

\* The loop takes what it is notified of, and NotifyBlock goes on.
NotifyFairness ==
    /\ SF_vars(TakeBlock) /\ SF_vars(TakeMempool) /\ SF_vars(MempoolTick)
    /\ WF_vars(SendBlock)

ConnSpec == Spec /\ ConnFairness
FairSpec == ConnSpec /\ NotifyFairness

-----------------------------------------------------------------------------
(* Properties *)

Queued(c) == \E i \in 1..Len(unregister) : unregister[i] = c

\* The two indexes of the watch registrations agree: a txid is watched by
\* the registered clients that watch it, and by no client that is gone.
WatchIndex ==
    \A t \in Txids : watchers[t] = {c \in clients : t \in watched[c]}

\* While the loop runs, a client that has been shut down is not registered:
\* nothing is fanned out to it any more.
NoDoneClient == running => clients \cap done = {}

\* The registry and the watch registrations stay within their caps.
WithinLimits ==
    /\ MaxClients > 0 => Cardinality(clients) <= MaxClients
    /\ \A c \in Clients : Cardinality(watched[c]) <= MaxWatched

\* A registered client whose read pump has ended is always about to be
\* unregistered; otherwise it would stay in the registry for ever.
NoZombie ==
    running => \A c \in clients : reader[c] = "gone" => Queued(c)

\* NotifyBlock never waits on the channel it has drained: it runs in the
\* goroutine that delivers the node's notifications.
NotifierNeverBlocks == notifier = "drained" => blocks = NoBlock

\* A mempool notification that no push has followed is still remembered by
\* the channel or the dirty flag, however notifications, ticks and blocks
\* interleave.
NoLostRequest == owed => mempoolCh \/ mempoolDirty

\* The loop takes blocks in the order they were connected.
BlocksInOrder == [][taken' >= taken]_vars

\* A connection that was closed by either side, dropped for being slow or
\* rejected leaves nothing behind while the loop runs: it is not registered
\* and both its pumps have ended, though its read pump may have had to hand a
\* command to the loop first, and to wait for room in the unregister queue.
\* A client that has to be forgotten stays one, and a forgotten one stays
\* forgotten, so that this says as much of each of them.
ToForget(c)  == c \in done \/ c \in clients \ open
Forgotten(c) == c \notin clients /\ reader[c] = "gone" /\ writer[c] = "gone"
ClosedIsForgotten ==
    []<>(running => \A c \in Clients : ToForget(c) => Forgotten(c))

\* The latest of the notified blocks reaches the loop, though earlier ones
\* may be skipped.
LatestBlockTaken ==
    \A b \in 1..MaxBlocks :
        (notified = b) ~> (taken >= b \/ ~running)

\* A mempool notification is followed by a push.
RequestServed == owed ~> ~owed \/ ~running
=============================================================================
