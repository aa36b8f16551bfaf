----------------------------- MODULE WatchPage -----------------------------
(***************************************************************************)
(* A page that watches a transaction: the socket (web/src/api/ws.ts), the  *)
(* watch and its fallback (hooks/useWatchTx.ts), searches                  *)
(* (hooks/useSearch.ts) and the reducer (state.ts), against the hub's      *)
(* watch registrations (internal/api/hub.go) as one connection sees them.  *)
(*                                                                         *)
(* JavaScript runs one callback at a time: a dispatch, the render and the  *)
(* effects it causes are one step.  A page is [view, tx, watching]; of a   *)
(* transaction only its status matters.  Pages of addresses, blocks and    *)
(* errors are "other"; state.tx is None while no page shows it, as nothing *)
(* reads it then.  A confirmation is final here.                           *)
(***************************************************************************)
EXTENDS Integers, FiniteSets, Sequences

CONSTANTS Txs,
          MaxChecks,  \* bound: calls of api.tx under way
          MaxWire     \* bound: the user waits while so many commands are

VARIABLES
    confirmed,  \* the node: transactions in a block
    sock,       \* the socket: "down" (a timer runs), "opening", "open", or
                \* "closing": broken, which the browser has yet to notice
    wire,       \* commands on their way to the hub: [watch, tx]
    watched,    \* the hub: cmd.client.watched of this connection
    pushes,     \* pushTx goroutines for it: [tx, says]
    page,       \* the reducer's state
    search,     \* the search whose answer is taken: [for, says]
    checks      \* calls of api.tx: [tx, says, ours], ours when the PendingTx
                \* that made it is still there: its checking.current

hub == <<watched, pushes>>
vars == <<confirmed, sock, wire, hub, page, search, checks>>

Asked == "asked"
Other == "other"
None == "none"
NoSearch == [for |-> None, says |-> None]

\* What the server answers for a transaction.
Status(t) == IF t \in confirmed THEN "confirmed" ELSE "pending"

Landing == [view |-> "landing", tx |-> None, watching |-> FALSE]

Init ==
    /\ confirmed = {}
    /\ sock = "opening" /\ wire = <<>> /\ watched = {} /\ pushes = {}
    /\ page = Landing /\ search = NoSearch /\ checks = {}

-----------------------------------------------------------------------------
(* Dispatching *)

\* What the page p has in LiveSocket.watches: PendingTx is shown and watches.
Watches(p) == IF p.view = "pending" /\ p.watching THEN {p.tx} ELSE {}

Command(on, t) == [watch |-> on, tx |-> t]

\* The command for what a page watches: one transaction or none.
CommandsFor(on, ts) ==
    IF ts = {} THEN <<>> ELSE <<Command(on, CHOOSE t \in ts : TRUE)>>

\* Mutant of Commands: the cleanup does not unwatch.
CommandsNoUnwatch(old, new) ==
    IF old = new THEN <<>> ELSE CommandsFor(TRUE, new)

\* useWatchTx's effect when what is watched changes: cleanup, then watch.
Commands(old, new) ==
    IF old = new THEN <<>>
    ELSE CommandsFor(FALSE, old) \o CommandsFor(TRUE, new)

\* The page becomes p.  Commands are sent when the socket is taken to be
\* open; on a broken one they are lost.  A PendingTx that goes forgets its
\* calls, not so the answers.
Show(p, calls) ==
    /\ page' = p
    /\ wire' = IF sock = "open"
               THEN wire \o Commands(Watches(page), Watches(p)) ELSE wire
    /\ checks' = IF p.view = "pending" THEN calls
                 ELSE {[c EXCEPT !.ours = FALSE] : c \in calls}

\* The reducer's tx-updated.
Updated(t, status) ==
    IF status = "confirmed"
    THEN [view |-> "confirmed", tx |-> t, watching |-> FALSE]
    ELSE [page EXCEPT !.tx = IF @ = None THEN None ELSE t]

\* confirm of useWatchTx: one call at a time.
Confirm(t) ==
    checks' = IF (\E c \in checks : c.ours) \/ Cardinality(checks) = MaxChecks
              THEN checks
              ELSE checks \cup {[tx |-> t, says |-> Asked, ours |-> TRUE]}

-----------------------------------------------------------------------------
(* The user *)

\* useSearch and search-start, from any page but the one that waits.  A page
\* of a transaction has links to addresses and blocks only.
Search(q) ==
    /\ page.view # "loading"
    /\ page.view \in {"pending", "confirmed"} => q = Other
    /\ search' = [for |-> q, says |-> Asked]
    /\ Show([Landing EXCEPT !.view = "loading"], checks)
    /\ UNCHANGED <<confirmed, sock, hub>>

\* goHome: a search under way is not forgotten.
GoHome ==
    /\ page.view # "landing"
    /\ Show(Landing, checks)
    /\ UNCHANGED <<confirmed, sock, hub, search>>

\* watch-start and watch-stop.
ToggleWatch ==
    /\ page.view = "pending"
    /\ Len(wire) < MaxWire
    /\ Show([page EXCEPT !.watching = ~@], checks)
    /\ UNCHANGED <<confirmed, sock, hub, search>>

-----------------------------------------------------------------------------
(* Answers *)

\* External: the server answers a search; Other stands for an error too.
SearchAnswered ==
    /\ search.says = Asked
    /\ \E answer \in {Other} \cup {Status(t) : t \in Txs \cap {search.for}} :
          search' = [search EXCEPT !.says = answer]
    /\ UNCHANGED <<confirmed, sock, wire, hub, page, checks>>

\* search-result or search-error.  An answer to a superseded search has none.
SearchShown ==
    /\ search.says \notin {None, Asked}
    /\ search' = NoSearch
    /\ Show(IF search.says = Other THEN [Landing EXCEPT !.view = Other]
            ELSE [page EXCEPT !.view = search.says, !.tx = search.for], checks)
    /\ UNCHANGED <<confirmed, sock, hub>>

\* External: the server answers a call of api.tx ...
CheckAnswered(c) ==
    /\ c.says = Asked
    /\ checks' = (checks \ {c}) \cup {[c EXCEPT !.says = Status(c.tx)]}
    /\ UNCHANGED <<confirmed, sock, wire, hub, page, search>>

\* ... or fails: the next push or poll tries again.
CheckFails(c) ==
    /\ c.says = Asked
    /\ checks' = checks \ {c}
    /\ UNCHANGED <<confirmed, sock, wire, hub, page, search>>

\* The answer is dispatched, whatever page is shown by now.
CheckTaken(c) ==
    /\ c.says # Asked
    /\ Show(Updated(c.tx, c.says), checks \ {c})
    /\ UNCHANGED <<confirmed, sock, hub, search>>

-----------------------------------------------------------------------------
(* The socket *)

\* Mutant of OnOpen: nothing is replayed.
OnOpenForgets ==
    /\ sock = "opening"
    /\ sock' = "open"
    /\ wire' = <<>>
    /\ UNCHANGED <<confirmed, hub, page, search, checks>>

\* onopen: the watches are replayed to a hub that knows of none.
OnOpen ==
    /\ sock = "opening"
    /\ sock' = "open"
    /\ wire' = CommandsFor(TRUE, Watches(page))
    /\ UNCHANGED <<confirmed, hub, page, search, checks>>

\* External: the connection breaks, or the server drops it.  What is on the
\* way in either direction is lost, and the hub forgets the client.
Break ==
    /\ sock = "open"
    /\ sock' = "closing"
    /\ wire' = <<>> /\ watched' = {} /\ pushes' = {}
    /\ UNCHANGED <<confirmed, page, search, checks>>

\* onclose, also of an attempt that failed: the timer is started.
OnClose ==
    /\ sock \in {"closing", "opening"}
    /\ sock' = "down"
    /\ UNCHANGED <<confirmed, wire, hub, page, search, checks>>

\* The reconnect timer.
Reconnect ==
    /\ sock = "down"
    /\ sock' = "opening"
    /\ UNCHANGED <<confirmed, wire, hub, page, search, checks>>

\* The fallback: a check while the socket is down.
Poll ==
    /\ sock \in {"down", "opening"}
    /\ \E t \in Watches(page) : Confirm(t)
    /\ UNCHANGED <<confirmed, sock, wire, hub, page, search>>

-----------------------------------------------------------------------------
(* The hub *)

Fetch(ts) == pushes' = pushes \cup {[tx |-> t, says |-> Asked] : t \in ts}

\* Run's case of a command.
TakeCommand ==
    /\ wire # <<>>
    /\ wire' = Tail(wire)
    /\ IF Head(wire).watch
       THEN watched' = watched \cup {Head(wire).tx} /\ Fetch({Head(wire).tx})
       ELSE watched' = watched \ {Head(wire).tx} /\ UNCHANGED pushes
    /\ UNCHANGED <<confirmed, sock, page, search, checks>>

\* pushAll, on a block and on the ticker.
PushAll ==
    /\ watched # {}
    /\ Fetch(watched)
    /\ UNCHANGED <<confirmed, sock, wire, watched, page, search, checks>>

\* pushTx: GetTx answers ...
Fetched(t) ==
    LET p == [tx |-> t, says |-> Asked]
    IN  /\ p \in pushes
        /\ pushes' = (pushes \ {p}) \cup {[tx |-> t, says |-> Status(t)]}
        /\ UNCHANGED <<confirmed, sock, wire, watched, page, search, checks>>

\* ... or fails, and nothing is pushed.
FetchFails(t) ==
    LET p == [tx |-> t, says |-> Asked]
    IN  /\ p \in pushes
        /\ pushes' = pushes \ {p}
        /\ UNCHANGED <<confirmed, sock, wire, watched, page, search, checks>>

\* send, and the watch's callback in the browser: a confirmation is fetched
\* in full, a new place in the queue is shown.
Delivered(p) ==
    /\ p \in pushes /\ p.says # Asked
    /\ pushes' = pushes \ {p}
    /\ IF p.says = "confirmed" /\ p.tx \in Watches(page)
       THEN Confirm(p.tx) ELSE UNCHANGED checks
    /\ UNCHANGED <<confirmed, sock, wire, watched, page, search>>

\* External: a block.
NodeBlock(t) ==
    /\ t \notin confirmed
    /\ confirmed' = confirmed \cup {t}
    /\ UNCHANGED <<sock, wire, hub, page, search, checks>>

Next ==
    \/ GoHome \/ ToggleWatch \/ SearchAnswered \/ SearchShown
    \/ OnOpen \/ Break \/ OnClose \/ Reconnect \/ Poll
    \/ TakeCommand \/ PushAll
    \/ \E q \in Txs \cup {Other} : Search(q)
    \/ \E c \in checks : CheckAnswered(c) \/ CheckFails(c) \/ CheckTaken(c)
    \/ \E p \in pushes : Delivered(p)
    \/ \E t \in Txs : NodeBlock(t) \/ Fetched(t) \/ FetchFails(t)

Spec == Init /\ [][Next]_vars

\* Callbacks, goroutines and timers run; the hub's ticker fires.  The server
\* does not fail for ever.  The link may break any number of times, but not
\* for ever: each reconnection starts the countdown of the fallback anew, so
\* a link that breaks too often starves both ways.
Fairness ==
    /\ <>[](sock = "open") \/ <>[](sock \in {"down", "opening"})
    /\ WF_vars(OnClose) /\ WF_vars(TakeCommand) /\ SF_vars(PushAll) /\ WF_vars(Poll)
    /\ WF_vars(\E c \in checks : CheckTaken(c))
    /\ SF_vars(\E c \in checks : CheckAnswered(c))
    /\ SF_vars(\E t \in Txs : Fetched(t))
    /\ WF_vars(\E p \in pushes : Delivered(p))

FairSpec == Spec /\ Fairness

-----------------------------------------------------------------------------
(* Properties *)

\* What a hub that watches ts watches once it has taken the commands in w:
\* for each transaction the last of its commands counts.
Played(w, ts) ==
    {t \in Txs : LET own == {i \in DOMAIN w : w[i].tx = t}
                 IN  \/ own = {} /\ t \in ts
                     \/ \E i \in own : w[i].watch /\ \A j \in own : j <= i}

\* However pages change and connections break, an open connection serves, or
\* is about to serve, exactly what its page watches.
WatchesAgree == sock = "open" => Played(wire, watched) = Watches(page)

\* A watched transaction that is confirmed does not stay watched: the page
\* flips, though pushes, checks and connections fail on the way.
WatchFlips ==
    \A t \in Txs :
        t \in confirmed /\ Watches(page) = {t} ~> Watches(page) # {t}

\* The page that says "Confirmed" shows a transaction that is in a block.
ConfirmedIsConfirmed == page.view = "confirmed" => page.tx \in confirmed
=============================================================================
