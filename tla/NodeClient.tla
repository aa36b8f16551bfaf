----------------------------- MODULE NodeClient -----------------------------
(***************************************************************************)
(* The websocket session to btcd: internal/node/client.go.  rpcclient is   *)
(* external: it connects and reconnects by itself, calls onClientConnected *)
(* each time, delivers notifications one at a time and in order, and holds *)
(* a call made while the link is down until it is up again, or fails it.   *)
(*                                                                         *)
(* A block is named by the number of the node's tip when it was mined.  A  *)
(* connect event is a block joining the node's chain, for the first time   *)
(* or again after a reorganisation; events are numbered.                   *)
(***************************************************************************)
EXTENDS Integers, Sequences

CONSTANTS MaxVersion,   \* bound: blocks mined
          MaxEvents,    \* bound: connect events
          MaxSessions   \* bound: sessions of rpcclient

ASSUME ClientBounds ==
    /\ MaxVersion \in Nat /\ MaxEvents \in Nat /\ MaxSessions \in Nat

VARIABLES
    nodeVer,   \* the node's tip
    events,    \* connect events so far, each the block connected
    link,      \* the session is up (not rpc.Disconnected())
    session,   \* sessions so far
    subs,      \* notifications registered on this session
    ready,     \* c.ready
    starter,   \* per session: what onClientConnected's goroutine does next
    failed,    \* history: sessions with a registration that failed
    inbox,     \* notifications under way: indexes of events
    lastBlock, \* c.lastBlockHash, 0 for none
    calls,     \* history: OnBlock calls made for each event
    heard      \* history: this session has carried an event

nodeVars == <<nodeVer, events>>
vars == <<nodeVars, link, session, subs, ready, starter, failed,
          inbox, lastBlock, calls, heard>>

Kinds == {"blocks", "txs"}

Init ==
    /\ nodeVer = 0 /\ events = <<>>
    /\ link = FALSE /\ session = 0 /\ subs = {} /\ ready = FALSE
    /\ starter = [s \in 1..MaxSessions |-> "none"]
    /\ failed = {}
    /\ inbox = <<>> /\ lastBlock = 0
    /\ calls = [e \in 1..MaxEvents |-> 0]
    /\ heard = FALSE

-----------------------------------------------------------------------------
\* Mutant of Connect: the registrations are taken to outlive the session.
ConnectOnce ==
    /\ ~link /\ session < MaxSessions
    /\ link' = TRUE
    /\ session' = session + 1
    /\ starter' = [starter EXCEPT
                     ![session'] = IF session = 0 THEN "blocks" ELSE "done"]
    /\ UNCHANGED <<nodeVars, subs, ready, failed,
                   inbox, lastBlock, calls, heard>>

\* A (re)connect: Start's rpc.Connect or the automatic reconnect, which runs
\* onClientConnected.  Nothing is registered on a fresh session.
Connect ==
    /\ ~link /\ session < MaxSessions
    /\ link' = TRUE
    /\ session' = session + 1
    /\ starter' = [starter EXCEPT ![session'] = "blocks"]
    /\ UNCHANGED <<nodeVars, subs, ready, failed,
                   inbox, lastBlock, calls, heard>>

\* External: the session breaks.  Some notifications under way are lost.
Drop ==
    /\ link
    /\ link' = FALSE
    /\ subs' = {} /\ heard' = FALSE
    /\ \E n \in 0..Len(inbox) : inbox' = SubSeq(inbox, 1, n)
    /\ UNCHANGED <<nodeVars, session, ready, starter, failed, lastBlock, calls>>

After(kind) == IF kind = "blocks" THEN "txs" ELSE "ready"

\* NotifyBlocks or NotifyNewTransactions succeeds, on whatever session is up.
Register(s, kind) ==
    /\ starter[s] = kind
    /\ link
    /\ subs' = subs \cup {kind}
    /\ starter' = [starter EXCEPT ![s] = After(kind)]
    /\ UNCHANGED <<nodeVars, link, session, ready, failed,
                   inbox, lastBlock, calls, heard>>

\* It fails: the error is logged and the goroutine goes on.
RegisterFails(s, kind) ==
    /\ starter[s] = kind
    /\ failed' = failed \cup {s}
    /\ starter' = [starter EXCEPT ![s] = After(kind)]
    /\ UNCHANGED <<nodeVars, link, session, subs, ready,
                   inbox, lastBlock, calls, heard>>

\* c.ready.Store(true), then OnConnect, which warms the live cache.
BecomeReady(s) ==
    /\ starter[s] = "ready"
    /\ ready' = TRUE
    /\ starter' = [starter EXCEPT ![s] = "done"]
    /\ UNCHANGED <<nodeVars, link, session, subs, failed,
                   inbox, lastBlock, calls, heard>>

\* The block of the latest event, 0 for none.
Latest == IF events = <<>> THEN 0 ELSE events[Len(events)]

\* External: block b joins the node's chain.  When blocks are registered
\* the session carries one or both of btcd's notifications of it.
NodeBlock(b, copies) ==
    /\ Len(events) < MaxEvents
    /\ b # Latest
    /\ events' = Append(events, b)
    /\ nodeVer' = IF b > nodeVer THEN b ELSE nodeVer
    /\ inbox' = IF "blocks" \in subs
                THEN inbox \o [i \in 1..copies |-> Len(events')] ELSE inbox
    /\ heard' = (heard \/ "blocks" \in subs)
    /\ UNCHANGED <<link, session, subs, ready, starter, failed,
                   lastBlock, calls>>

\* Mutant of onBlock: no deduplication.
OnBlockTwice ==
    /\ inbox # <<>>
    /\ inbox' = Tail(inbox)
    /\ lastBlock' = events[Head(inbox)]
    /\ calls' = [calls EXCEPT ![Head(inbox)] = @ + 1]
    /\ UNCHANGED <<nodeVars, link, session, subs, ready, starter, failed, heard>>

\* onBlock for the next notification: a block equal to the last is dropped,
\* any other is passed to Handlers.OnBlock.
onBlock ==
    /\ inbox # <<>>
    /\ inbox' = Tail(inbox)
    /\ IF events[Head(inbox)] = lastBlock
       THEN UNCHANGED <<lastBlock, calls>>
       ELSE /\ lastBlock' = events[Head(inbox)]
            /\ calls' = [calls EXCEPT ![Head(inbox)] = @ + 1]
    /\ UNCHANGED <<nodeVars, link, session, subs, ready, starter, failed, heard>>

\* available: what every Backend method asks before it calls the node.
available == ready /\ link

Next ==
    \/ Connect \/ Drop \/ onBlock
    \/ \E b \in 1..MaxVersion, copies \in 1..2 :
          b <= nodeVer + 1 /\ NodeBlock(b, copies)
    \/ \E s \in 1..MaxSessions :
          \/ BecomeReady(s)
          \/ \E kind \in Kinds : Register(s, kind) \/ RegisterFails(s, kind)

Spec == Init /\ [][Next]_vars

\* Goroutines run, notifications are dispatched, and rpcclient does not hold
\* a call for ever while the link is up.
Fairness ==
    /\ WF_vars(onBlock)
    /\ \A s \in 1..MaxSessions :
          /\ WF_vars(BecomeReady(s))
          /\ \A kind \in Kinds : WF_vars(Register(s, kind))

FairSpec == Spec /\ Fairness

-----------------------------------------------------------------------------
(* Properties *)

\* Though btcd may send two notifications of a connect event, and though a
\* reorganisation may bring a block back, OnBlock is called at most once for
\* each event; and once a session has carried events and all of them are
\* handled, the last block passed on is the node's.
OncePerConnect ==
    /\ \A e \in 1..Len(events) : calls[e] <= 1
    /\ heard /\ inbox = <<>> => lastBlock = Latest

\* However it began, once a session stays up and its own registrations have
\* not failed, every notification is registered and Connected says so for
\* good, whatever became of the goroutines of earlier sessions.
RegistrationReturns ==
    <>[](link /\ session \notin failed) => <>[](available /\ subs = Kinds)
=============================================================================
