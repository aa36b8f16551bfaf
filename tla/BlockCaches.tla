---------------------------- MODULE BlockCaches ----------------------------
(***************************************************************************)
(* What a new block outdates beside the mempool snapshot: the totals of    *)
(* addresses (internal/explorer/address.go, cache.go) and the measured     *)
(* block interval (tx.go); and the slots that bound the scans for totals   *)
(* (internal/api/handlers.go, acquireScan).                                *)
(*                                                                         *)
(* btcd's answers and notifications come over one websocket and rpcclient  *)
(* takes them in order in one goroutine, which runs OnBlock itself: wire.  *)
(* A history is a sequence of transactions, newest first, as               *)
(* searchrawtransactions lists them; it changes when one arrives, is       *)
(* evicted or replaced.  Sums over a history are abstracted to the         *)
(* sequence of the transactions added up.  A request is a goroutine: an    *)
(* address lookup, or someone who needs the block interval.                *)
(***************************************************************************)
EXTENDS Integers, FiniteSets, SequencesExt

CONSTANTS Requests, Addresses,
          Measurers,  \* requests that may need the block interval
          Slots,      \* MaxConcurrentScans
          ScanChunk,  \* scanChunk
          MaxScan,    \* s.maxScan
          CacheCap,   \* capacity of s.totals
          TTL,        \* totalsTTL and the interval's 30 seconds, in ticks
          MaxTxs,     \* bound: transactions that arrive
          MaxBlocks   \* bound: blocks, the first of which is there already

ASSUME RequestAssumption == IsFiniteSet(Requests)
ASSUME MeasurerAssumption == Measurers \subseteq Requests
ASSUME ScanAssumption == ScanChunk \in Nat \ {0} /\ MaxScan \in Nat \ {0}
ASSUME SizeAssumption ==
    Slots \in Nat \ {0} /\ CacheCap \in Nat /\ TTL \in Nat /\ MaxTxs \in Nat

VARIABLES
    hist,       \* the node: the history of every address
    nTxs,       \* the node: transactions so far
    confirmed,  \* the node: transactions in blocks
    nodeVer,    \* the node: its blocks, numbered
    wire,       \* messages from btcd not yet taken
    handled,    \* OnBlock's last block: its number, what was confirmed by it
    totals,     \* s.totals
    interval,   \* s.intervalMean; age TTL stands for an outdated one too
    mutex,      \* who holds s.intervalMu
    slots,      \* len(s.addrSem)
    pc,         \* what a request does
    addr,       \* the address it looks up
    got,        \* its call of the node: under way, on the wire, or answered
    skip,       \* addressTotals' skip
    counted,    \* addressTotals' t: the transactions added up so far
    raced       \* history: a change or a block overtook its reading

node == <<hist, nTxs, confirmed, nodeVer>>
caches == <<totals, interval>>
request == <<pc, addr, got, skip, counted, raced>>
vars == <<node, wire, handled, caches, mutex, slots, request>>

Lru == INSTANCE LRU

Txs == 1..MaxTxs
Asked == "asked"    \* the node works on the call
Sent == "sent"      \* its answer is on the wire
Error == "error"    \* it was answered with an error
NoCall == "none"
Unset == [ver |-> 0, age |-> TTL, raced |-> FALSE]

Init ==
    /\ hist = [a \in Addresses |-> <<>>] /\ nTxs = 0
    /\ confirmed = {} /\ nodeVer = 1
    /\ wire = <<>> /\ handled = [ver |-> 1, txs |-> {}]
    /\ totals = <<>> /\ interval = Unset
    /\ mutex = "free" /\ slots = 0
    /\ pc = [r \in Requests |-> "idle"]
    /\ addr \in [Requests -> Addresses]
    /\ got = [r \in Requests |-> [is |-> NoCall]]
    /\ skip = [r \in Requests |-> 0] /\ counted = [r \in Requests |-> <<>>]
    /\ raced = [r \in Requests |-> FALSE]

-----------------------------------------------------------------------------
(* The node *)

\* Requests that are reading the history of address a.
Scanning(a) == {r \in Requests : pc[r] = "scan" /\ addr[r] = a}

RacedBy(rs) == raced' = [r \in Requests |-> raced[r] \/ r \in rs]

\* External: a transaction of address a enters the mempool.
Arrive(a) ==
    /\ nTxs < MaxTxs
    /\ nTxs' = nTxs + 1
    /\ hist' = [hist EXCEPT ![a] = <<nTxs'>> \o @]
    /\ RacedBy(Scanning(a))
    /\ UNCHANGED <<confirmed, nodeVer, wire, handled, caches, mutex, slots,
                   pc, addr, got, skip, counted>>

\* External: an unconfirmed transaction is evicted or replaced.
Evict(a) ==
    /\ \E i \in DOMAIN hist[a] :
          /\ hist[a][i] \notin confirmed
          /\ hist' = [hist EXCEPT ![a] = RemoveAt(@, i)]
    /\ RacedBy(Scanning(a))
    /\ UNCHANGED <<nTxs, confirmed, nodeVer, wire, handled, caches, mutex,
                   slots, pc, addr, got, skip, counted>>

\* External: a block confirms what is in the mempool and is announced.
NodeBlock ==
    /\ nodeVer < MaxBlocks
    /\ nodeVer' = nodeVer + 1
    /\ confirmed' = UNION {Range(hist[a]) : a \in Addresses}
    /\ wire' = Append(wire, [is |-> "block", ver |-> nodeVer', txs |-> confirmed'])
    /\ UNCHANGED <<hist, nTxs, handled, caches, mutex, slots, request>>

Smaller(a, b) == IF a < b THEN a ELSE b

\* The transactions a call for a page returns now.
Page(r, from, count) ==
    SubSeq(hist[addr[r]], from + 1, Smaller(from + count, Len(hist[addr[r]])))

\* addressTotals' count: the last page before the cap is cut to what is left.
Count(r) == Smaller(ScanChunk, MaxScan - skip[r])

\* What it answers a request.  The page to show is left blank.
Reply(r) ==
    CASE pc[r] = "measure" -> [is |-> "tip", ver |-> nodeVer]
      [] pc[r] = "scan" -> [is |-> "page", txs |-> Page(r, skip[r], Count(r))]
      [] pc[r] = "page" -> [is |-> "page", txs |-> <<>>]

\* External: the node answers a call, or fails it.
NodeAnswers(r) ==
    /\ got[r].is = Asked
    /\ got' = [got EXCEPT ![r] = [is |-> Sent]]
    /\ \E answer \in {[is |-> Error], Reply(r)} :
          wire' = Append(wire, [is |-> "answer", to |-> r, what |-> answer])
    /\ UNCHANGED <<node, handled, caches, mutex, slots,
                   pc, addr, skip, counted, raced>>

-----------------------------------------------------------------------------
(* The goroutine that reads the websocket *)

\* Mutants of OnBlock: the totals, or the interval, are left alone.
OnBlockKeepsTotals ==
    /\ mutex = "free"
    /\ interval' = Unset
    /\ UNCHANGED totals

OnBlockKeepsInterval ==
    /\ totals' = <<>>
    /\ UNCHANGED interval

\* Service.OnBlock (the mempool's MarkDirty is in Mempool).  It waits for
\* the mutex, and whatever is behind it on the wire waits too.
OnBlock ==
    /\ mutex = "free"
    /\ totals' = <<>>
    /\ interval' = Unset

\* The next message is a block: the reader runs OnBlock.
TakeBlock ==
    /\ wire # <<>> /\ Head(wire).is = "block"
    /\ wire' = Tail(wire)
    /\ handled' = [ver |-> Head(wire).ver, txs |-> Head(wire).txs]
    /\ OnBlock
    /\ RacedBy({r \in Requests : pc[r] \in {"scan", "measure"}})
    /\ UNCHANGED <<node, mutex, slots, pc, addr, got, skip, counted>>

\* It is an answer: the request that waits for it is woken.
TakeAnswer ==
    /\ wire # <<>> /\ Head(wire).is = "answer"
    /\ wire' = Tail(wire)
    /\ got' = [got EXCEPT ![Head(wire).to] = Head(wire).what]
    /\ UNCHANGED <<node, handled, caches, mutex, slots,
                   pc, addr, skip, counted, raced>>

-----------------------------------------------------------------------------
(* Address lookups *)

Goto(r, where) == pc' = [pc EXCEPT ![r] = where]
Call(r) == got' = [got EXCEPT ![r] = [is |-> Asked]]
Ready(r, where) == pc[r] = where /\ got[r].is \notin {NoCall, Asked, Sent}

\* The history variable and what the goroutine had on its stack.
Forget(r) == /\ skip' = [skip EXCEPT ![r] = 0]
             /\ counted' = [counted EXCEPT ![r] = <<>>]
             /\ raced' = [raced EXCEPT ![r] = FALSE]

Finish(r) == /\ Goto(r, "idle")
             /\ got' = [got EXCEPT ![r] = [is |-> NoCall]]
             /\ Forget(r)

\* handleAddress, or handleSearch for an address: it queues for a slot.
Lookup(r, a) ==
    /\ pc[r] = "idle"
    /\ addr' = [addr EXCEPT ![r] = a]
    /\ Goto(r, "queued")
    /\ UNCHANGED <<node, wire, handled, caches, mutex, slots,
                   got, skip, counted, raced>>

\* acquireScan: a slot becomes free ...
Acquire(r) ==
    /\ pc[r] = "queued"
    /\ slots < Slots
    /\ slots' = slots + 1
    /\ Goto(r, "totals")
    /\ UNCHANGED <<node, wire, handled, caches, mutex,
                   addr, got, skip, counted, raced>>

\* ... or the client hangs up, or scanQueueWait runs out.
GiveUp(r) ==
    /\ pc[r] = "queued"
    /\ Goto(r, "idle")
    /\ UNCHANGED <<node, wire, handled, caches, mutex, slots,
                   addr, got, skip, counted, raced>>

\* addressTotals looks in the cache.  A stale entry is moved to the front as
\* well; on a miss the scan begins.
LookInCache(r) ==
    LET fresh == /\ Lru!Has(totals, addr[r])
                 /\ Lru!Value(totals, addr[r]).age < TTL
    IN  /\ pc[r] = "totals"
        /\ totals' = Lru!Touch(totals, addr[r])
        /\ Goto(r, IF fresh THEN "page" ELSE "scan")
        /\ Call(r)
        /\ UNCHANGED <<node, wire, handled, interval, mutex, slots,
                       addr, skip, counted, raced>>

\* Mutant of ScanFails: the error path does not release the slot.
ScanFailsHolding(r) ==
    /\ Ready(r, "scan") \/ Ready(r, "page")
    /\ got[r].is = Error
    /\ Finish(r)
    /\ UNCHANGED <<node, wire, handled, caches, mutex, slots, addr>>

\* A page could not be had: the lookup fails and stores nothing.
ScanFails(r) ==
    /\ Ready(r, "scan") \/ Ready(r, "page")
    /\ got[r].is = Error
    /\ Finish(r)
    /\ slots' = slots - 1
    /\ UNCHANGED <<node, wire, handled, caches, mutex, addr>>

\* A full page and the cap not reached: the next one.
ScanOn(r) ==
    /\ Ready(r, "scan") /\ got[r].is = "page"
    /\ Len(got[r].txs) = Count(r) /\ skip[r] + ScanChunk < MaxScan
    /\ counted' = [counted EXCEPT ![r] = @ \o got[r].txs]
    /\ skip' = [skip EXCEPT ![r] = @ + ScanChunk]
    /\ Call(r)
    /\ UNCHANGED <<node, wire, handled, caches, mutex, slots, pc, addr, raced>>

\* The last page: the totals are stored, approximate when it was a full one,
\* and the page to show is asked for.
ScanEnds(r) ==
    LET full == Len(got[r].txs) = Count(r)
    IN  /\ Ready(r, "scan") /\ got[r].is = "page"
        /\ ~full \/ skip[r] + ScanChunk >= MaxScan
        /\ totals' = Lru!Put(totals, CacheCap, addr[r],
                       [txs |-> counted[r] \o got[r].txs, approximate |-> full,
                        age |-> 0, raced |-> raced[r]])
        /\ Goto(r, "page")
        /\ Call(r)
        /\ Forget(r)
        /\ UNCHANGED <<node, wire, handled, interval, mutex, slots, addr>>

\* The page to show has come: the lookup is answered and the slot released.
Respond(r) ==
    /\ Ready(r, "page") /\ got[r].is = "page"
    /\ Finish(r)
    /\ slots' = slots - 1
    /\ UNCHANGED <<node, wire, handled, caches, mutex, addr>>

-----------------------------------------------------------------------------
(* The block interval *)

\* Mutant of Measure: the mutex is held while the node is asked.
MeasureHolding(r) ==
    /\ pc[r] = "idle"
    /\ mutex = "free" /\ interval.age = TTL
    /\ mutex' = r
    /\ Goto(r, "measure")
    /\ Call(r)
    /\ UNCHANGED <<node, wire, handled, caches, slots,
                   addr, skip, counted, raced>>

\* avgBlockInterval finds no recent mean: it lets go of the mutex and
\* measures.  (When it finds one it changes nothing.)
Measure(r) ==
    /\ pc[r] = "idle"
    /\ mutex = "free" /\ interval.age = TTL
    /\ Goto(r, "measure")
    /\ Call(r)
    /\ UNCHANGED <<node, wire, handled, caches, mutex, slots,
                   addr, skip, counted, raced>>

\* It stores what it measured, or the target spacing when it could not:
\* version 0 stands for that.
Measured(r) ==
    /\ Ready(r, "measure")
    /\ mutex \in {"free", r}
    /\ mutex' = "free"
    /\ interval' = [ver |-> IF got[r].is = Error THEN 0 ELSE got[r].ver,
                    age |-> 0, raced |-> raced[r]]
    /\ Finish(r)
    /\ UNCHANGED <<node, wire, handled, totals, slots, addr>>

Older(age) == IF age < TTL THEN age + 1 ELSE age

Tick ==
    /\ totals' = [i \in DOMAIN totals |->
                    [totals[i] EXCEPT !.val.age = Older(@)]]
    /\ interval' = [interval EXCEPT !.age = Older(@)]
    /\ UNCHANGED <<node, wire, handled, mutex, slots, request>>

Next ==
    \/ NodeBlock \/ TakeBlock \/ TakeAnswer \/ Tick
    \/ \E a \in Addresses : Arrive(a) \/ Evict(a)
    \/ \E r \in Requests :
          \/ \E a \in Addresses : Lookup(r, a)
          \/ NodeAnswers(r) \/ Acquire(r) \/ GiveUp(r) \/ LookInCache(r)
          \/ ScanFails(r) \/ ScanOn(r) \/ ScanEnds(r) \/ Respond(r)
          \/ Measured(r)
    \/ \E r \in Measurers : Measure(r)

Spec == Init /\ [][Next]_vars

\* Goroutines run and timers fire; the node answers or fails every call.
Fairness ==
    /\ WF_vars(TakeBlock) /\ WF_vars(TakeAnswer)
    /\ \A r \in Requests :
          /\ WF_vars(NodeAnswers(r)) /\ WF_vars(GiveUp(r) \/ Acquire(r))
          /\ WF_vars(LookInCache(r)) /\ WF_vars(Measured(r))
          /\ WF_vars(ScanFails(r) \/ ScanOn(r) \/ ScanEnds(r) \/ Respond(r))

FairSpec == Spec /\ Fairness

-----------------------------------------------------------------------------
(* Properties *)

\* Cached totals whose scan nothing overtook count every transaction of the
\* blocks OnBlock has handled exactly once, unless the cap cut them short.
\* Only a scan that a block, an arrival or an eviction overtook may leave
\* wrong totals, for totalsTTL at most or until the next block.
TotalsCurrent ==
    \A i \in DOMAIN totals :
        LET t == totals[i].val
            known == handled.txs \cap Range(hist[totals[i].key])
        IN  ~t.raced => /\ IsInjective(t.txs)
                        /\ t.approximate \/ known \subseteq Range(t.txs)

\* A cached interval was measured at the last handled block or later, or is
\* the target spacing, unless a block overtook the measurement.
IntervalCurrent ==
    interval.age < TTL /\ ~interval.raced /\ interval.ver > 0 =>
        interval.ver >= handled.ver

\* Whichever way lookups end, each holds exactly one slot while it works and
\* none before or after.
SlotsConserved ==
    slots = Cardinality({r \in Requests : pc[r] \in {"totals", "scan", "page"}})

\* Every lookup and every measurement ends: a block notification in front of
\* their answers never holds the websocket up.
EveryRequestEnds == \A r \in Requests : pc[r] # "idle" ~> pc[r] = "idle"
=============================================================================
