----------------------------- MODULE HubProofs -----------------------------
(***************************************************************************)
(* What the hub promises, for any finite set of connections and txids and  *)
(* any capacities.  The invariants about the registry rest on the life of  *)
(* a connection: before the loop has taken it, it is neither registered    *)
(* nor shut down and watches nothing (Fresh), and a registered client has  *)
(* a read pump, which queues it for unregistration when it ends (NoZombie).*)
(***************************************************************************)
EXTENDS Hub, FiniteSetTheorems, TLAPS

\* A connection the loop has not taken yet.
Waiting(c) == reader[c] \in {"none", "register"}

Fresh ==
    \A c \in Clients :
        Waiting(c) => c \notin clients /\ c \notin done /\ watched[c] = {}

IInv == /\ TypeOK
        /\ Fresh
        /\ WatchIndex
        /\ NoDoneClient
        /\ NoZombie
        /\ WithinLimits
        /\ NotifierNeverBlocks
        /\ NoLostRequest

-----------------------------------------------------------------------------
(* Type correctness *)

\* A set of connections is finite, and so is its cardinality a number.
LEMMA FiniteClients == \A S \in SUBSET Clients : /\ IsFiniteSet(S)
                                                 /\ Cardinality(S) \in Nat
  BY FiniteAssumption, FS_Subset, FS_CardinalityType DEF FiniteAssumption

\* The same of a set of txids.
LEMMA FiniteTxids == \A T \in SUBSET Txids : /\ IsFiniteSet(T)
                                             /\ Cardinality(T) \in Nat
  BY FiniteAssumption, FS_Subset, FS_CardinalityType DEF FiniteAssumption

\* pushAll starts a number of goroutines for every audience.
LEMMA PushAllType == \A S \in Audience : PushAll[S] \in Nat
<1> SUFFICES ASSUME NEW S \in Audience
             PROVE  PushAll[S] \in Nat
  OBVIOUS
<1>1. Cardinality({t \in Txids : watchers[t] = S}) \in Nat
  BY FiniteTxids
<1>2. Once(S, clients) \in Nat
  BY DEF Once
<1>3. QED
  BY <1>1, <1>2 DEF PushAll

\* Starting goroutines keeps their count a natural number.
LEMMA StartType ==
    ASSUME NEW n, \A S \in Audience : n[S] \in Nat,
           fetching \in [Audience -> Nat], Start(n)
    PROVE  fetching' \in [Audience -> Nat]
  BY DEF Start

\* A push moves on to one client less.
LEMMA ReachedType ==
    ASSUME TypeOK, NEW S \in Audience, NEW c \in S, Reached(S, c)
    PROVE  /\ fetching' \in [Audience -> Nat]
           /\ sending' \in [Audience -> Nat]
<1>1. S \ {c} # S
  OBVIOUS
<1>2. CASE fetching[S] > 0 /\ fetching' = [fetching EXCEPT ![S] = @ - 1]
           /\ sending' = [T \in Audience |-> sending[T] + Once(T, S \ {c})]
  BY <1>2 DEF TypeOK, Once
<1>3. CASE /\ sending[S] > 0
           /\ sending' = [T \in Audience |-> sending[T] - Once(T, S)
                                             + Once(T, S \ {c})]
           /\ UNCHANGED fetching
  <2>1. \A T \in Audience : sending[T] - Once(T, S) \in Nat
    BY <1>3 DEF TypeOK, Once
  <2>2. \A T \in Audience : Once(T, S \ {c}) \in Nat
    BY DEF Once
  <2>3. \A T \in Audience : sending[T] - Once(T, S) + Once(T, S \ {c}) \in Nat
    BY <2>1, <2>2
  <2>4. QED
    BY <1>3, <2>3 DEF TypeOK
<1>4. QED
  BY <1>2, <1>3 DEF Reached

\* The initial state has the right types.
LEMMA TypeInit == Init => TypeOK
<1> SUFFICES ASSUME Init
             PROVE  TypeOK
  OBVIOUS
<1> USE DEF Init, TypeOK
<1>1. /\ running \in BOOLEAN /\ mempoolDirty \in BOOLEAN
      /\ mempoolCh \in BOOLEAN /\ owed \in BOOLEAN
  BY Zenon
<1>2. unregister \in Seq(Clients) /\ Len(unregister) <= UnregisterCap
  BY LimitsAssumption DEF LimitsAssumption
<1>3. /\ watchers \in [Txids -> SUBSET Clients]
      /\ watched \in [Clients -> SUBSET Txids]
      /\ cmd \in [Clients -> SUBSET Command]
  OBVIOUS
<1>4. /\ reader \in [Clients -> Readers]
      /\ writer \in [Clients -> Writers]
  BY DEF Readers, Writers
<1>5. /\ buf \in [Clients -> 0..SendBuffer]
      /\ fetching \in [Audience -> Nat]
      /\ sending \in [Audience -> Nat]
  BY LimitsAssumption DEF LimitsAssumption
<1>6. QED
  BY <1>1, <1>2, <1>3, <1>4, <1>5, LimitsAssumption
  DEF LimitsAssumption, NoBlock

\* The loop: what it starts, registers and unregisters is well typed.
LEMMA TypeLoop == TypeOK /\ LoopStep => TypeOK'
<1> SUFFICES ASSUME TypeOK, LoopStep
             PROVE  TypeOK'
  OBVIOUS
<1> USE LimitsAssumption
<1> USE DEF TypeOK, LimitsAssumption, loopVars, connVars, pushVars, noteVars,
            histVars
<1>0. \A S, T : Once(S, T) \in Nat
  BY DEF Once
<1>1. ASSUME NEW c \in Clients, Register(c)
      PROVE  TypeOK'
  <2>1. fetching' \in [Audience -> Nat]
    <3> DEFINE n == [S \in Audience |-> 2 * Once(S, {c})]
    <3>1. \A S \in Audience : n[S] \in Nat
      BY <1>0
    <3>2. Start(n) \/ UNCHANGED fetching
      BY <1>1 DEF Register
    <3> HIDE DEF n
    <3>3. QED
      BY <3>1, <3>2, StartType
  <2>2. /\ clients' \in SUBSET Clients /\ done' \in SUBSET Clients
        /\ open' \in SUBSET Clients
    BY <1>1 DEF Register, Shutdown
  <2>3. reader' \in [Clients -> Readers] /\ writer' \in [Clients -> Writers]
    BY <1>1 DEF Register, Readers, Writers
  <2>4. QED
    BY <1>1, <2>1, <2>2, <2>3 DEF Register
<1>2. CASE Unregister
  <2>1. Head(unregister) \in Clients
    BY <1>2 DEF Unregister, WatchersWithout
  <2>2. /\ unregister' \in Seq(Clients)
        /\ Len(unregister') <= UnregisterCap
    BY <1>2 DEF Unregister, WatchersWithout
  <2>3. /\ clients' \in SUBSET Clients /\ done' \in SUBSET Clients
        /\ open' \in SUBSET Clients
    BY <1>2, <2>1 DEF Unregister, WatchersWithout, Shutdown
  <2>4. watchers' \in [Txids -> SUBSET Clients]
    BY <1>2 DEF Unregister, WatchersWithout
  <2>5. QED
    BY <1>2, <2>2, <2>3, <2>4 DEF Unregister, WatchersWithout
<1>3. ASSUME NEW c \in Clients, IgnoreCommand(c)
      PROVE  TypeOK'
  BY <1>3 DEF IgnoreCommand
<1>4. ASSUME NEW c \in Clients, Watch(c)
      PROVE  TypeOK'
  <2>1. fetching' \in [Audience -> Nat]
    BY <1>0, <1>4, StartType DEF Watch
  <2>2. PICK m \in Command :
           /\ watchers' = [watchers EXCEPT ![m.txid] = @ \cup {c}]
           /\ watched' = [watched EXCEPT ![c] = @ \cup {m.txid}]
    BY <1>4 DEF Watch
  <2>3. m.txid \in Txids
    BY DEF Command
  <2>4. /\ watchers' \in [Txids -> SUBSET Clients]
        /\ watched' \in [Clients -> SUBSET Txids]
    BY <2>2, <2>3
  <2>5. QED
    BY <1>4, <2>1, <2>4 DEF Watch
<1>5. ASSUME NEW c \in Clients, Unwatch(c)
      PROVE  TypeOK'
  <2>1. PICK m \in Command :
           /\ watchers' = [watchers EXCEPT ![m.txid] = @ \ {c}]
           /\ watched' = [watched EXCEPT ![c] = @ \ {m.txid}]
    BY <1>5 DEF Unwatch
  <2>2. m.txid \in Txids
    BY DEF Command
  <2>3. /\ watchers' \in [Txids -> SUBSET Clients]
        /\ watched' \in [Clients -> SUBSET Txids]
    BY <2>1, <2>2
  <2>4. QED
    BY <1>5, <2>3 DEF Unwatch
<1>6. CASE TakeBlock
  <2>1. fetching' \in [Audience -> Nat]
    <3> DEFINE n == [S \in Audience |-> PushAll[S] + 2 * Once(S, clients)]
    <3>1. \A S \in Audience : n[S] \in Nat
      BY <1>0, PushAllType
    <3>2. Start(n)
      BY <1>6 DEF TakeBlock
    <3> HIDE DEF n
    <3>3. QED
      BY <3>1, <3>2, StartType
  <2>2. mempoolDirty' \in BOOLEAN /\ owed' \in BOOLEAN
    BY <1>6, Zenon DEF TakeBlock
  <2>3. QED
    BY <1>6, <2>1, <2>2 DEF TakeBlock, NoBlock
<1>7. CASE TakeMempool
  <2>1. mempoolDirty' \in BOOLEAN /\ mempoolCh' \in BOOLEAN
    BY <1>7, Zenon DEF TakeMempool
  <2>2. QED
    BY <1>7, <2>1 DEF TakeMempool
<1>8. CASE MempoolTick
  <2>1. fetching' \in [Audience -> Nat]
    BY <1>0, <1>8, StartType DEF MempoolTick
  <2>2. mempoolDirty' \in BOOLEAN /\ owed' \in BOOLEAN
    BY <1>8, Zenon DEF MempoolTick
  <2>3. QED
    BY <1>8, <2>1, <2>2 DEF MempoolTick
<1>9. CASE PeriodicTick
  <2>1. fetching' \in [Audience -> Nat]
    BY <1>9, PushAllType, StartType DEF PeriodicTick
  <2>2. QED
    BY <1>9, <2>1 DEF PeriodicTick
<1>10. QED
  BY <1>1, <1>2, <1>3, <1>4, <1>5, <1>6, <1>7, <1>8, <1>9 DEF LoopStep

\* A step of a push keeps the types: it takes one push away and adds at
\* most one with a smaller audience.
LEMMA TypePush == ASSUME TypeOK, NEW S \in Audience, PushStep(S)
                  PROVE  TypeOK'
<1> USE LimitsAssumption
<1> USE DEF TypeOK, LimitsAssumption, loopVars, connVars, pushVars, noteVars,
            histVars
<1>1. CASE FetchFails(S)
  BY <1>1 DEF FetchFails
<1>2. ASSUME NEW c \in S, SendQueued(S, c)
      PROVE  TypeOK'
  <2>1. c \in Clients
    BY DEF Audience
  <2>2. /\ fetching' \in [Audience -> Nat] /\ sending' \in [Audience -> Nat]
    BY <1>2, ReachedType DEF SendQueued
  <2>3. QED
    BY <1>2, <2>1, <2>2 DEF SendQueued
<1>3. ASSUME NEW c \in S, SendSwallowed(S, c)
      PROVE  TypeOK'
  <2>1. /\ fetching' \in [Audience -> Nat] /\ sending' \in [Audience -> Nat]
    BY <1>3, ReachedType DEF SendSwallowed
  <2>2. QED
    BY <1>3, <2>1 DEF SendSwallowed
<1>4. ASSUME NEW c \in S, SendDropped(S, c)
      PROVE  TypeOK'
  <2>1. c \in Clients
    BY DEF Audience
  <2>2. /\ fetching' \in [Audience -> Nat] /\ sending' \in [Audience -> Nat]
    BY <1>4, ReachedType DEF SendDropped
  <2>3. /\ unregister' \in Seq(Clients)
        /\ Len(unregister') <= UnregisterCap
    BY <1>4, <2>1 DEF SendDropped
  <2>4. QED
    BY <1>4, <2>1, <2>2, <2>3 DEF SendDropped
<1>5. QED
  BY <1>1, <1>2, <1>3, <1>4 DEF PushStep

\* So does a step of a connection.
LEMMA TypeConn == ASSUME TypeOK, NEW c \in Clients, ConnStep(c)
                  PROVE  TypeOK'
<1> USE LimitsAssumption
<1> USE DEF TypeOK, LimitsAssumption, loopVars, connVars, pushVars, noteVars,
            histVars, Readers, Writers
<1>1. CASE Connect(c)
  BY <1>1 DEF Connect
<1>2. ASSUME NEW m \in Command, ReadCommand(c, m)
      PROVE  TypeOK'
  BY <1>2 DEF ReadCommand
<1>3. CASE ReadFails(c)
  BY <1>3 DEF ReadFails
<1>4. CASE Leave(c)
  BY <1>4 DEF Leave
<1>5. CASE TakeMessage(c)
  BY <1>5 DEF TakeMessage
<1>6. CASE WriteSucceeds(c)
  BY <1>6 DEF WriteSucceeds
<1>7. CASE WriterLeaves(c)
  BY <1>7 DEF WriterLeaves
<1>8. QED
  BY <1>1, <1>2, <1>3, <1>4, <1>5, <1>6, <1>7 DEF ConnStep

\* No step of the loop, a push, a connection or a notification leaves the
\* types.
LEMMA TypeStep == TypeOK /\ [Next]_vars => TypeOK'
<1> SUFFICES ASSUME TypeOK, [Next]_vars
             PROVE  TypeOK'
  OBVIOUS
<1> USE LimitsAssumption
<1> USE DEF TypeOK, LimitsAssumption, loopVars, connVars, pushVars, noteVars,
            histVars
<1>1. CASE Stop
  <2>1. running' \in BOOLEAN
    BY <1>1, Zenon DEF Stop
  <2>2. QED
    BY <1>1, <2>1 DEF Stop
<1>2. CASE DrainBlocks
  BY <1>2 DEF DrainBlocks, NoBlock
<1>3. CASE SendBlock
  BY <1>3 DEF SendBlock
<1>4. CASE NotifyMempool
  BY <1>4 DEF NotifyMempool
<1>5. CASE UNCHANGED vars
  BY <1>5 DEF vars
<1>6. QED
  BY <1>1, <1>2, <1>3, <1>4, <1>5, TypeLoop, TypePush, TypeConn DEF Next

\* Every variable stays in its type.
THEOREM TypeCorrect == Spec => []TypeOK
<1>1. Init => TypeOK
  BY TypeInit
<1>2. TypeOK /\ [Next]_vars => TypeOK'
  BY TypeStep
<1>3. QED
  BY <1>1, <1>2, PTL DEF Spec

-----------------------------------------------------------------------------
(* The inductive invariant *)

\* The inductive invariant holds at the start.
LEMMA IInvInit == Init => IInv
<1> SUFFICES ASSUME Init
             PROVE  IInv
  OBVIOUS
<1>1. TypeOK
  BY TypeInit
<1>2. Fresh /\ WatchIndex /\ NoDoneClient /\ NoZombie
  BY DEF Init, Fresh, WatchIndex, NoDoneClient, NoZombie
<1>3. WithinLimits
  BY LimitsAssumption, FS_EmptySet DEF LimitsAssumption, Init, WithinLimits
<1>4. NotifierNeverBlocks /\ NoLostRequest
  BY DEF Init, NotifierNeverBlocks, NoLostRequest
<1>5. QED
  BY <1>1, <1>2, <1>3, <1>4 DEF IInv

\* The registry and the watch registrations of the loop.
Registry == <<running, clients, watchers, watched, done>>

\* What the invariants about the notifications read.
Signals == <<notifier, blocks, owed, mempoolCh, mempoolDirty>>

\* A step that adds to the unregister queue loses nobody from it.
LEMMA QueueGrows ==
    ASSUME TypeOK, NEW c \in Clients, unregister' = Append(unregister, c)
    PROVE  Queued(c)' /\ \A d : Queued(d) => Queued(d)'
<1>1. /\ Len(unregister') = Len(unregister) + 1 /\ Len(unregister) \in Nat
      /\ unregister'[Len(unregister) + 1] = c
      /\ \A i \in 1..Len(unregister) : unregister'[i] = unregister[i]
  BY DEF TypeOK
<1>2. QED
  BY <1>1 DEF Queued

\* A step that leaves the registry and the readers alone, and may only add
\* to the queue, keeps what is said about them.
LEMMA RegistryKept ==
    ASSUME IInv, UNCHANGED Registry, UNCHANGED reader,
           \A d : Queued(d) => Queued(d)'
    PROVE  Fresh' /\ WatchIndex' /\ NoDoneClient' /\ NoZombie' /\ WithinLimits'
<1> USE DEF IInv, Registry
<1>1. Fresh'
  BY DEF Fresh, Waiting
<1>2. WatchIndex' /\ NoDoneClient'
  BY DEF WatchIndex, NoDoneClient
<1>3. NoZombie'
  BY DEF NoZombie
<1>4. WithinLimits'
  BY DEF WithinLimits
<1>5. QED
  BY <1>1, <1>2, <1>3, <1>4

\* What the loop, a push or a connection does not touch keeps the promises
\* of the notifier.
LEMMA SignalsKept ==
    ASSUME IInv, UNCHANGED Signals
    PROVE  NotifierNeverBlocks' /\ NoLostRequest'
  BY DEF IInv, Signals, NotifierNeverBlocks, NoLostRequest

\* A connection that the loop takes is new to it: it watches nothing.
LEMMA RegisterStep ==
    ASSUME IInv, TypeOK', NEW c \in Clients, Register(c)
    PROVE  IInv'
<1> USE DEF IInv
<1>1. c \notin clients /\ c \notin done /\ watched[c] = {}
  BY DEF Register, Fresh, Waiting
<1>2. UNCHANGED <<watchers, watched, running, unregister, Signals>>
  BY DEF Register, Signals, noteVars, histVars
<1>3. reader' = [reader EXCEPT ![c] = "reading"]
  BY DEF Register
<1>4. clients' \in {clients, clients \cup {c}}
  BY DEF Register
<1>5. Fresh'
  BY <1>1, <1>2, <1>3 DEF Register, Shutdown, Fresh, Waiting, TypeOK
<1>6. WatchIndex'
  BY <1>1, <1>2, <1>4 DEF WatchIndex, TypeOK
<1>7. NoDoneClient'
  BY <1>1, <1>2 DEF Register, Shutdown, NoDoneClient
<1>8. NoZombie'
  BY <1>1, <1>2, <1>3, <1>4 DEF NoZombie, TypeOK, Queued
<1>9. WithinLimits'
  <2>1. CASE Full
    BY <1>2, <2>1 DEF Register, WithinLimits
  <2>2. CASE ~Full
    <3>1. Cardinality(clients \cup {c}) = Cardinality(clients) + 1
      BY <1>1, FiniteClients, FS_AddElement DEF TypeOK
    <3>2. Cardinality(clients) \in Nat
      BY FiniteClients DEF TypeOK
    <3>3. clients' = clients \cup {c}
      BY <2>2 DEF Register
    <3>4. QED
      BY <1>2, <2>2, <3>1, <3>2, <3>3, LimitsAssumption
      DEF WithinLimits, LimitsAssumption, Full
  <2>3. QED
    BY <2>1, <2>2
<1>10. QED
  BY <1>2, <1>5, <1>6, <1>7, <1>8, <1>9, SignalsKept DEF Signals

\* drop takes a client out of the registry and out of every txid it watched.
LEMMA UnregisterStep ==
    ASSUME IInv, TypeOK', Unregister
    PROVE  IInv'
<1> USE DEF IInv
<1> DEFINE c == Head(unregister)
<1>1. c \in Clients
  BY DEF Unregister, TypeOK
<1>2. UNCHANGED <<running, watched, reader, Signals>>
  BY DEF Unregister, Signals, noteVars, histVars
<1>3. clients' = clients \ {c}
  BY DEF Unregister
<1>4. \A d : Queued(d) => d = c \/ Queued(d)'
  <2> SUFFICES ASSUME NEW d, NEW i \in 1..Len(unregister),
                      unregister[i] = d, d # c
               PROVE  Queued(d)'
    BY DEF Queued
  <2>1. i # 1
    BY DEF Unregister, TypeOK
  <2>2. /\ i - 1 \in 1..Len(unregister')
        /\ unregister'[i - 1] = d
    BY <2>1 DEF Unregister, TypeOK
  <2>3. QED
    BY <2>2 DEF Queued
<1>5. Fresh'
  <2>1. c \in clients => ~Waiting(c)
    BY <1>1 DEF Fresh
  <2>2. QED
    BY <1>2, <1>3, <2>1 DEF Unregister, Shutdown, Fresh, Waiting
<1>6. WatchIndex'
  BY <1>2, <1>3 DEF Unregister, WatchersWithout, WatchIndex, TypeOK
<1>7. NoDoneClient'
  BY <1>2, <1>3 DEF Unregister, Shutdown, NoDoneClient
<1>8. NoZombie'
  BY <1>2, <1>3, <1>4 DEF NoZombie
<1>9. WithinLimits'
  <2>1. /\ Cardinality(clients') <= Cardinality(clients)
        /\ Cardinality(clients') \in Nat /\ Cardinality(clients) \in Nat
    BY <1>3, FiniteClients, FS_Subset DEF TypeOK
  <2>2. QED
    BY <1>2, <2>1, LimitsAssumption DEF WithinLimits, LimitsAssumption
<1>10. QED
  BY <1>2, <1>5, <1>6, <1>7, <1>8, <1>9, SignalsKept DEF Signals

\* A watch enters both indexes, and only up to the cap.
LEMMA WatchStep ==
    ASSUME IInv, TypeOK', NEW c \in Clients, Watch(c)
    PROVE  IInv'
<1> USE DEF IInv
<1>1. PICK m \in Command :
         /\ Cardinality(watched[c]) < MaxWatched \/ m.txid \in watched[c]
         /\ watchers' = [watchers EXCEPT ![m.txid] = @ \cup {c}]
         /\ watched' = [watched EXCEPT ![c] = @ \cup {m.txid}]
  BY DEF Watch, TypeOK
<1>2. m.txid \in Txids
  BY DEF Command
<1>3. /\ c \in clients
      /\ UNCHANGED <<running, clients, done, reader, unregister, Signals>>
  BY DEF Watch, Signals, noteVars, histVars
<1>4. Fresh'
  BY <1>1, <1>3 DEF Fresh, Waiting, TypeOK
<1>5. WatchIndex'
  BY <1>1, <1>2, <1>3 DEF WatchIndex, TypeOK
<1>6. NoDoneClient' /\ NoZombie'
  BY <1>3 DEF NoDoneClient, NoZombie, Queued
<1>7. WithinLimits'
  <2> DEFINE W == watched[c]
  <2>1. W \in SUBSET Txids
    BY DEF TypeOK
  <2>2. IsFiniteSet(W) /\ Cardinality(W) \in Nat
    BY <2>1, FiniteTxids
  <2>3. Cardinality(W \cup {m.txid}) =
          IF m.txid \in W THEN Cardinality(W) ELSE Cardinality(W) + 1
    BY <2>2, FS_AddElement
  <2>4. Cardinality(W) <= MaxWatched
    BY DEF WithinLimits
  <2>5. Cardinality(W \cup {m.txid}) <= MaxWatched
    BY <1>1, <2>2, <2>3, <2>4, LimitsAssumption DEF LimitsAssumption
  <2>6. QED
    BY <1>1, <1>3, <2>5 DEF WithinLimits, TypeOK
<1>8. QED
  BY <1>3, <1>4, <1>5, <1>6, <1>7, SignalsKept DEF Signals

\* An unwatch leaves both indexes.
LEMMA UnwatchStep ==
    ASSUME IInv, TypeOK', NEW c \in Clients, Unwatch(c)
    PROVE  IInv'
<1> USE DEF IInv
<1>1. PICK m \in Command :
         /\ watchers' = [watchers EXCEPT ![m.txid] = @ \ {c}]
         /\ watched' = [watched EXCEPT ![c] = @ \ {m.txid}]
  BY DEF Unwatch, TypeOK
<1>2. m.txid \in Txids
  BY DEF Command
<1>3. /\ c \in clients
      /\ UNCHANGED <<running, clients, done, reader, unregister, Signals>>
  BY DEF Unwatch, Signals, noteVars, histVars
<1>4. Fresh'
  BY <1>1, <1>3 DEF Fresh, Waiting, TypeOK
<1>5. WatchIndex'
  BY <1>1, <1>2, <1>3 DEF WatchIndex, TypeOK
<1>6. NoDoneClient' /\ NoZombie'
  BY <1>3 DEF NoDoneClient, NoZombie, Queued
<1>7. WithinLimits'
  <2> DEFINE W == watched[c]
  <2>1. W \in SUBSET Txids /\ W \ {m.txid} \in SUBSET W
    BY DEF TypeOK
  <2>2. /\ Cardinality(W \ {m.txid}) <= Cardinality(W)
        /\ Cardinality(W) \in Nat /\ Cardinality(W \ {m.txid}) \in Nat
    BY <2>1, FiniteTxids, FS_Subset
  <2>3. Cardinality(W) <= MaxWatched
    BY DEF WithinLimits
  <2>4. Cardinality(W \ {m.txid}) <= MaxWatched
    BY <2>2, <2>3, LimitsAssumption DEF LimitsAssumption
  <2>5. QED
    BY <1>1, <1>3, <2>4 DEF WithinLimits, TypeOK
<1>8. QED
  BY <1>3, <1>4, <1>5, <1>6, <1>7, SignalsKept DEF Signals

\* A connection changes the registry only through the queue, and ends its
\* read pump by joining it.
LEMMA ConnKept ==
    ASSUME IInv, TypeOK', NEW c \in Clients, ConnStep(c)
    PROVE  IInv'
<1> USE DEF IInv
<1>1. UNCHANGED <<Registry, Signals>> \/ Connect(c)
  BY DEF ConnStep, ReadCommand, ReadFails, Leave, TakeMessage, WriteSucceeds,
     WriterLeaves, Registry, Signals, loopVars, noteVars, histVars
<1>2. CASE Connect(c)
  <2>1. /\ UNCHANGED <<Registry, Signals, unregister>>
        /\ reader[c] = "none" /\ reader' = [reader EXCEPT ![c] = "register"]
    BY <1>2 DEF Connect, Registry, Signals, loopVars, noteVars, histVars
  <2>2. Fresh' /\ NoZombie'
    BY <2>1 DEF Registry, Fresh, Waiting, NoZombie, Queued, TypeOK
  <2>3. WatchIndex' /\ NoDoneClient' /\ WithinLimits'
    BY <2>1 DEF Registry, WatchIndex, NoDoneClient, WithinLimits
  <2>4. QED
    BY <2>1, <2>2, <2>3, SignalsKept
<1>3. CASE Leave(c)
  <2>1. /\ UNCHANGED <<Registry, Signals>>
        /\ reader[c] = "leaving" /\ reader' = [reader EXCEPT ![c] = "gone"]
        /\ unregister' = Append(unregister, c)
    BY <1>3 DEF Leave, Registry, Signals, loopVars, noteVars, histVars
  <2>2. Queued(c)' /\ \A d : Queued(d) => Queued(d)'
    BY <2>1, QueueGrows
  <2>3. Fresh' /\ NoZombie'
    BY <2>1, <2>2 DEF Registry, Fresh, Waiting, NoZombie, TypeOK
  <2>4. WatchIndex' /\ NoDoneClient' /\ WithinLimits'
    BY <2>1 DEF Registry, WatchIndex, NoDoneClient, WithinLimits
  <2>5. QED
    BY <2>1, <2>3, <2>4, SignalsKept
<1>4. CASE ReadFails(c)
  <2>1. /\ UNCHANGED <<Registry, Signals, unregister>>
        /\ reader[c] = "reading" /\ reader' = [reader EXCEPT ![c] = "leaving"]
    BY <1>4 DEF ReadFails, Registry, Signals, loopVars, noteVars, histVars
  <2>2. Fresh' /\ NoZombie'
    BY <2>1 DEF Registry, Fresh, Waiting, NoZombie, Queued, TypeOK
  <2>3. WatchIndex' /\ NoDoneClient' /\ WithinLimits'
    BY <2>1 DEF Registry, WatchIndex, NoDoneClient, WithinLimits
  <2>4. QED
    BY <2>1, <2>2, <2>3, SignalsKept
<1>5. CASE /\ UNCHANGED <<reader, unregister>>
           /\ UNCHANGED <<Registry, Signals>>
  <2>1. \A d : Queued(d) => Queued(d)'
    BY <1>5 DEF Queued
  <2>2. QED
    BY <1>5, <2>1, RegistryKept, SignalsKept
<1>6. QED
  BY <1>1, <1>2, <1>3, <1>4, <1>5 DEF ConnStep, ReadCommand, TakeMessage,
     WriteSucceeds, WriterLeaves

\* A push touches the registry only through the unregister queue.
LEMMA PushKept ==
    ASSUME IInv, TypeOK', NEW S \in Audience, PushStep(S)
    PROVE  IInv'
<1> USE DEF IInv
<1>1. UNCHANGED <<Registry, reader, Signals>>
  BY DEF PushStep, FetchFails, SendQueued, SendSwallowed, SendDropped,
     Registry, Signals, loopVars, connVars, noteVars, histVars
<1>2. \/ UNCHANGED unregister
      \/ \E c \in S : unregister' = Append(unregister, c)
  BY DEF PushStep, FetchFails, SendQueued, SendSwallowed, SendDropped
<1>3. \A d : Queued(d) => Queued(d)'
  <2>1. CASE UNCHANGED unregister
    BY <2>1 DEF Queued
  <2>2. ASSUME NEW c \in S, unregister' = Append(unregister, c)
        PROVE  \A d : Queued(d) => Queued(d)'
    <3>1. c \in Clients
      BY DEF Audience
    <3>2. QED
      BY <2>2, <3>1, QueueGrows
  <2>3. QED
    BY <1>2, <2>1, <2>2
<1>4. QED
  BY <1>1, <1>3, RegistryKept, SignalsKept

\* Notifications and the pushes they cause leave the registry alone.
LEMMA SignalStep ==
    ASSUME IInv, TypeOK',
           \/ TakeBlock \/ TakeMempool \/ MempoolTick \/ PeriodicTick
           \/ DrainBlocks \/ SendBlock \/ NotifyMempool
    PROVE  IInv'
<1> USE DEF IInv
<1>1. UNCHANGED <<Registry, reader, unregister>>
  BY DEF TakeBlock, TakeMempool, MempoolTick, PeriodicTick, DrainBlocks,
     SendBlock, NotifyMempool, Registry, loopVars, connVars
<1>2. \A d : Queued(d) => Queued(d)'
  BY <1>1 DEF Queued
<1>3. NotifierNeverBlocks'
  BY DEF TakeBlock, TakeMempool, MempoolTick, PeriodicTick, DrainBlocks,
     SendBlock, NotifyMempool, NotifierNeverBlocks, noteVars, NoBlock, TypeOK
<1>4. NoLostRequest'
  BY Zenon DEF TakeBlock, TakeMempool, MempoolTick, PeriodicTick,
     DrainBlocks, SendBlock, NotifyMempool, NoLostRequest, noteVars,
     loopVars, histVars
<1>5. QED
  BY <1>1, <1>2, <1>3, <1>4, RegistryKept

\* Stopping shuts clients down and ends what is promised of a running loop.
LEMMA StopStep ==
    ASSUME IInv, TypeOK', Stop
    PROVE  IInv'
<1> USE DEF IInv
<1>1. /\ running' = FALSE /\ done' = done \cup clients
      /\ UNCHANGED <<clients, watchers, watched, reader, unregister, Signals>>
  BY DEF Stop, Signals, noteVars, histVars
<1>2. Fresh'
  BY <1>1 DEF Fresh, Waiting
<1>3. WatchIndex' /\ NoDoneClient' /\ NoZombie' /\ WithinLimits'
  BY <1>1 DEF WatchIndex, NoDoneClient, NoZombie, WithinLimits
<1>4. QED
  BY <1>1, <1>2, <1>3, SignalsKept

\* Every step keeps the inductive invariant.
LEMMA IInvStep == IInv /\ [Next]_vars => IInv'
<1> SUFFICES ASSUME IInv, [Next]_vars
             PROVE  IInv'
  OBVIOUS
<1>0. TypeOK'
  BY TypeStep DEF IInv
<1>1. ASSUME NEW c \in Clients, IgnoreCommand(c)
      PROVE  IInv'
  <2>1. UNCHANGED <<Registry, reader, unregister, Signals>>
    BY <1>1 DEF IgnoreCommand, Registry, Signals, loopVars, noteVars, histVars
  <2>2. \A d : Queued(d) => Queued(d)'
    BY <2>1 DEF Queued
  <2>3. QED
    BY <1>0, <2>1, <2>2, RegistryKept, SignalsKept DEF IInv
<1>2. CASE UNCHANGED vars
  <2>1. UNCHANGED <<Registry, reader, unregister, Signals>>
    BY <1>2 DEF vars, loopVars, connVars, noteVars, histVars, Registry,
       Signals
  <2>2. \A d : Queued(d) => Queued(d)'
    BY <2>1 DEF Queued
  <2>3. QED
    BY <1>0, <2>1, <2>2, RegistryKept, SignalsKept DEF IInv
<1>3. QED
  BY <1>0, <1>1, <1>2, RegisterStep, UnregisterStep, WatchStep, UnwatchStep,
     ConnKept, PushKept, SignalStep, StopStep DEF Next, LoopStep

\* The inductive invariant holds for ever.
LEMMA Invariance == Spec => []IInv
<1>1. Init => IInv
  BY IInvInit
<1>2. IInv /\ [Next]_vars => IInv'
  BY IInvStep
<1>3. QED
  BY <1>1, <1>2, PTL DEF Spec

-----------------------------------------------------------------------------
(* The theorems *)

\* A txid is watched by exactly the registered clients that watch it.
THEOREM WatchIndexSafe == Spec => []WatchIndex
<1>1. IInv => WatchIndex
  BY DEF IInv
<1>2. QED
  BY <1>1, Invariance, PTL

\* Nothing is fanned out to a client that was shut down.
THEOREM NoDoneSafe == Spec => []NoDoneClient
<1>1. IInv => NoDoneClient
  BY DEF IInv
<1>2. QED
  BY <1>1, Invariance, PTL

\* A registered client without a read pump is queued for unregistration.
THEOREM NoZombieSafe == Spec => []NoZombie
<1>1. IInv => NoZombie
  BY DEF IInv
<1>2. QED
  BY <1>1, Invariance, PTL

\* The registry and the registrations of every client respect their caps.
THEOREM LimitsSafe == Spec => []WithinLimits
<1>1. IInv => WithinLimits
  BY DEF IInv
<1>2. QED
  BY <1>1, Invariance, PTL

\* The notifier finds the channel it has drained empty.
THEOREM NotifierSafe == Spec => []NotifierNeverBlocks
<1>1. IInv => NotifierNeverBlocks
  BY DEF IInv
<1>2. QED
  BY <1>1, Invariance, PTL

\* A mempool notification no push has followed is not forgotten.
THEOREM RequestSafe == Spec => []NoLostRequest
<1>1. IInv => NoLostRequest
  BY DEF IInv
<1>2. QED
  BY <1>1, Invariance, PTL

-----------------------------------------------------------------------------
(* The order of the blocks *)

\* Neither the block in the channel nor the last one taken is newer than the
\* last one notified, and the one in the channel is not an older one than
\* the last one taken.
Ordered ==
    /\ taken <= notified
    /\ blocks <= notified
    /\ blocks # NoBlock => taken <= blocks

blockVars == <<taken, blocks, notified>>

\* Connections and pushes leave the blocks alone.
LEMMA OthersLeaveBlocks ==
    ASSUME \/ \E S \in Audience : PushStep(S)
           \/ \E c \in Clients : ConnStep(c)
    PROVE  UNCHANGED blockVars
<1>1. CASE \E S \in Audience : PushStep(S)
  BY <1>1 DEF PushStep, FetchFails, SendQueued, SendSwallowed, SendDropped,
              noteVars, histVars, blockVars
<1>2. CASE \E c \in Clients : ConnStep(c)
  BY <1>2 DEF ConnStep, Connect, ReadFails, Leave, ReadCommand, TakeMessage,
              WriteSucceeds, WriterLeaves, noteVars, histVars, blockVars
<1>3. QED
  BY <1>1, <1>2

\* Of the loop's steps, only the one that takes a block touches the blocks.
LEMMA LoopLeavesBlocks ==
    ASSUME LoopStep, ~TakeBlock
    PROVE  UNCHANGED blockVars
<1>1. CASE Unregister \/ TakeMempool \/ MempoolTick \/ PeriodicTick
  BY <1>1 DEF Unregister, TakeMempool, MempoolTick, PeriodicTick, noteVars,
              histVars, blockVars
<1>2. CASE \E c \in Clients :
             Register(c) \/ IgnoreCommand(c) \/ Watch(c) \/ Unwatch(c)
  BY <1>2 DEF Register, IgnoreCommand, Watch, Unwatch, noteVars, histVars,
              blockVars
<1>3. QED
  BY <1>1, <1>2 DEF LoopStep

\* Every step keeps the order, and takes no older block than the last one.
LEMMA OrderStep ==
    TypeOK /\ Ordered /\ [Next]_vars => Ordered' /\ taken' >= taken
<1> SUFFICES ASSUME TypeOK, Ordered, [Next]_vars
             PROVE  Ordered' /\ taken' >= taken
  OBVIOUS
<1>1. /\ taken \in Int /\ blocks \in Int /\ notified \in Int
      /\ notified >= 0 /\ NoBlock = 0
  BY LimitsAssumption DEF TypeOK, LimitsAssumption, NoBlock
<1>2. CASE UNCHANGED blockVars
  BY <1>1, <1>2 DEF Ordered, blockVars
<1>3. CASE TakeBlock
  BY <1>1, <1>3 DEF TakeBlock, Ordered
<1>4. CASE DrainBlocks
  BY <1>1, <1>4 DEF DrainBlocks, Ordered, histVars
<1>5. CASE SendBlock
  BY <1>1, <1>5 DEF SendBlock, Ordered, histVars
<1>6. CASE NotifyMempool \/ Stop
  BY <1>2, <1>6 DEF NotifyMempool, Stop, noteVars, histVars, blockVars
<1>7. CASE UNCHANGED vars
  BY <1>2, <1>7 DEF vars, noteVars, histVars, blockVars
<1>8. QED
  BY <1>2, <1>3, <1>4, <1>5, <1>6, <1>7, OthersLeaveBlocks, LoopLeavesBlocks
     DEF Next

\* The loop takes the blocks in the order they were connected: those that
\* NotifyBlock drained are skipped, and none is taken after a newer one.
THEOREM InOrder == Spec => BlocksInOrder
<1>1. Init => Ordered
  BY LimitsAssumption DEF Init, Ordered, LimitsAssumption, NoBlock
<1>2. TypeOK /\ Ordered /\ [Next]_vars => [taken' >= taken]_vars
  BY OrderStep
<1>3. QED
  BY <1>1, <1>2, OrderStep, TypeCorrect, PTL DEF Spec, BlocksInOrder
=============================================================================
