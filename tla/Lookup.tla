------------------------------- MODULE Lookup -------------------------------
(***************************************************************************)
(* How the server answers for a transaction, a block or a search:          *)
(* internal/api/handlers.go on GetTx (explorer/tx.go) and block            *)
(* (explorer/block.go).  A lookup is a goroutine that calls the node many  *)
(* times; the chain may reorganise and the mempool change between any two  *)
(* calls.  An action is a call and what the lookup does with the answer.   *)
(*                                                                         *)
(* A query is [by, id, height, from]: the handler, the 64-hex id or the     *)
(* height asked for and the offset of the page.  An id is a transaction or  *)
(* a block, None when a height is asked for; what ClassifyQuery rejects is  *)
(* answered without a lookup.                                               *)
(***************************************************************************)
EXTENDS Integers, FiniteSets, SequencesExt

CONSTANTS Txs,        \* transactions, coinbases among them
          Inputs,     \* Inputs[t]: the outpoints <<parent, n>> t spends
          Blocks,     \* blocks
          BlockTxs,   \* BlockTxs[b]: its transactions, the coinbase first
          Genesis,    \* the block the chain begins with
          LooksMined, \* ids with the leading zeros of a mined block
          Queries,    \* bound: what is asked
          Requests,
          Limit,      \* rows on a page
          CacheCap,   \* capacity of s.prevouts and of s.headers
          MaxEvents   \* bound: changes of the node's state

None == "none"

Coinbase(t) == Inputs[t] = <<>>
Parents(t) == {Inputs[t][i][1] : i \in DOMAIN Inputs[t]}

ASSUME IdAssumption == Txs \cap Blocks = {} /\ None \notin Txs \cup Blocks
ASSUME InputAssumption == Inputs \in [Txs -> Seq(Txs \X Nat)]
ASSUME BlockAssumption ==
    /\ BlockTxs \in [Blocks -> Seq(Txs)]
    /\ \A b \in Blocks : BlockTxs[b] # <<>> /\ Coinbase(BlockTxs[b][1])
\* Genesis stands for the chain so far.
ASSUME GenesisAssumption ==
    /\ Genesis \in Blocks
    /\ \A t \in Range(BlockTxs[Genesis]) :
          Parents(t) \subseteq Range(BlockTxs[Genesis])
ASSUME QueryAssumption ==
    \A q \in Queries :
        /\ q \in [by : {"tx", "block", "search"}, height : Nat, from : Nat,
                  id : Txs \cup Blocks \cup {None}]
        /\ q.by = "tx" => q.id # None

VARIABLES
    chain,    \* the node's main chain, Genesis at height 0
    stale,    \* blocks the node has disconnected
    pool,     \* the node's mempool
    nEvents,
    prevouts, \* s.prevouts: outpoints
    headers,  \* s.headers: blocks
    job       \* what a lookup does

node == <<chain, stale, pool, nEvents>>
vars == <<node, prevouts, headers, job>>

Lru == INSTANCE LRU

TxsOf(bs) == UNION {Range(BlockTxs[b]) : b \in bs}
Mined == TxsOf(Range(chain))
Known(t) == t \in Mined \cup pool
BlockOf(t) == IF t \in Mined
              THEN CHOOSE b \in Range(chain) : t \in Range(BlockTxs[b]) ELSE None

\* What is true now of what is asked for.
InChain(q) == IF q.id = None THEN q.height < Len(chain)
              ELSE q.id \in Range(chain) \cup Mined
Facts(q) ==
    {f \in {"confirmed", "pending", "unknown", "shaken"} :
        \/ f = "confirmed" /\ InChain(q)
        \/ f = "pending" /\ q.id \in pool
        \/ f = "unknown" /\ \/ ~InChain(q) /\ q.id \notin pool
                            \/ q.by = "block" /\ q.id \in Txs
                            \/ q.by = "tx" /\ q.id \in Blocks
        \/ f = "shaken" /\ q.id \in stale}

Idle == [at |-> "idle", query |-> None, tries |-> <<>>, block |-> None,
         row |-> 0, tx |-> None, inBlock |-> None, input |-> 1,
         parents |-> <<>>, said |-> None, facts |-> {}]

Init ==
    /\ chain = <<Genesis>> /\ stale = {} /\ pool = {} /\ nEvents = 0
    /\ prevouts = <<>> /\ headers = <<>>
    /\ job = [r \in Requests |-> Idle]

-----------------------------------------------------------------------------
(* The node.  Every change is noted in the lookups under way. *)

\* shaking: the change takes something away that calls may have shown.
Change(shaking) ==
    /\ nEvents < MaxEvents
    /\ nEvents' = nEvents + 1
    /\ LET facts == [q \in Queries |-> Facts(q)]
       IN  job' = [r \in Requests |->
              IF job[r].at \in {"idle", "done"} THEN job[r]
              ELSE [job[r] EXCEPT !.facts = @ \cup facts'[job[r].query]
                                \cup IF shaking THEN {"shaken"} ELSE {}]]
    /\ UNCHANGED <<prevouts, headers>>

\* What a transaction may spend of coinbases: none the tip has just mined.
Settled == TxsOf({Genesis} \cup Range(Front(chain)))

\* External: the mempool accepts a transaction.
Accept(t) ==
    /\ ~Known(t) /\ ~Coinbase(t)
    /\ \A p \in Parents(t) : Known(p) /\ (Coinbase(p) => p \in Settled)
    /\ pool' = pool \cup {t}
    /\ UNCHANGED <<chain, stale>>
    /\ Change(FALSE)

\* External: it is evicted, and with it whatever descends from it.
Evict(t) ==
    /\ t \in pool
    /\ pool' = UNION {s \in SUBSET (pool \ {t}) :
                         \A u \in s : Parents(u) \subseteq s \cup Mined}
    /\ UNCHANGED <<chain, stale>>
    /\ Change(TRUE)

Fits(b, below, waiting) ==
    /\ b \notin Range(chain) \cup stale
    /\ \A i \in 2..Len(BlockTxs[b]) :
          /\ BlockTxs[b][i] \in waiting
          /\ Parents(BlockTxs[b][i]) \subseteq TxsOf({b} \cup Range(below))
    /\ below # <<>>

\* External: a block of waiting transactions joins the chain.
Mine(b) ==
    /\ Fits(b, chain, pool)
    /\ chain' = Append(chain, b)
    /\ pool' = pool \ Range(BlockTxs[b])
    /\ UNCHANGED stale
    /\ Change(FALSE)

\* External: another block takes the tip's place; what only the tip had
\* waits again.
Reorg(b) ==
    LET tip == Last(chain)
        waiting == pool \cup (Range(BlockTxs[tip]) \ {BlockTxs[tip][1]})
    IN  /\ Len(chain) > 1
        /\ Fits(b, Front(chain), waiting)
        /\ chain' = Append(Front(chain), b)
        /\ stale' = stale \cup {tip}
        /\ pool' = waiting \ Range(BlockTxs[b])
        /\ Change(TRUE)

-----------------------------------------------------------------------------
(* The control of a lookup, as functions of its job *)

Done(j, answer) == [j EXCEPT !.at = "done", !.said = answer]

\* One interpretation of the reference: GetTx, BlockByHash, BlockByHeight.
Begin(j, what) ==
    [j EXCEPT !.at = CASE what = "tx" -> "raw"
                       [] what = "block" -> "block"
                       [] what = "height" -> "hash",
              !.tx = IF what = "tx" THEN j.query.id ELSE None,
              !.block = IF what = "block" THEN j.query.id ELSE None,
              !.input = 1, !.parents = <<>>]

\* ErrTxNotFound or ErrBlockNotFound: searchHex turns to the second
\* interpretation; anyone else, and it after that, says so.
NotFound(j) ==
    IF j.tries = <<>> THEN Done(j, "notfound")
    ELSE Begin([j EXCEPT !.tries = Tail(@)], Head(j.tries))

\* GetTx found no transaction.  For a row of a block the error is wrapped:
\* searchHex still takes it for "not found", handleBlock and the search for
\* a height only know ErrBlockNotFound and report a failure.
TxNotFound(j) ==
    IF j.block = None \/ (j.query.by = "search" /\ j.query.id # None)
    THEN NotFound(j) ELSE Done(j, "error")

\* GetTx for a row of the block.
Row(j, row) == [j EXCEPT !.at = "raw", !.row = row, !.input = 1,
                         !.parents = <<>>,
                         !.tx = BlockTxs[j.block][IF row = 0 THEN 1 ELSE row]]

\* block's loop over the page, then deriveAvgFee, which fetches a coinbase
\* the page did not have: row 0.
NextRow(j, row) ==
    LET txs == BlockTxs[j.block]
    IN  IF row <= Len(txs) /\ row <= j.query.from + Limit THEN Row(j, row)
        ELSE IF Len(txs) >= 2 /\ j.query.from > 0 THEN Row(j, 0)
        ELSE Done(j, "cached")

\* Mutant of GotTx: a transaction is cached whether it is confirmed or not.
GotTxCached(j, confirmed) ==
    IF j.block = None THEN Done(j, "cached")
    ELSE IF j.row = 0 THEN Done(j, "cached")
    ELSE NextRow(j, j.row + 1)

\* GetTx is through.  Only a confirmed transaction may be cached publicly.
GotTx(j, confirmed) ==
    IF j.block = None THEN Done(j, IF confirmed THEN "cached" ELSE "fresh")
    ELSE IF j.row = 0 THEN Done(j, "cached")
    ELSE NextRow(j, j.row + 1)

\* GetTx after its inputs.
Position(j) == [j EXCEPT !.at = IF j.inBlock # None THEN "header" ELSE "pending"]

Set(r, j) == job' = [job EXCEPT ![r] = j]

-----------------------------------------------------------------------------
(* Lookups *)

\* handleTx, handleBlock, handleSearch: an id that looks mined is tried as a
\* block first.
Start(r) ==
    \E q \in Queries :
        LET order == CASE q.id = None -> <<"height">>
                       [] q.id # None /\ q.by # "search" -> <<q.by>>
                       [] q.id # None /\ q.by = "search" ->
                            IF q.id \in LooksMined THEN <<"block", "tx">>
                            ELSE <<"tx", "block">>
        IN  /\ job[r].at \in {"idle", "done"}
            /\ Set(r, Begin([Idle EXCEPT !.query = q, !.tries = Tail(order),
                                         !.facts = Facts(q)], Head(order)))
            /\ UNCHANGED <<node, prevouts, headers>>

\* GetTx: the transaction, or btcd's "no information".
GetRawTransaction(r) ==
    LET j == job[r]
        raw == [j EXCEPT !.inBlock = BlockOf(j.tx)]
    IN  /\ j.at = "raw"
        /\ Set(r, IF ~(j.tx \in Txs /\ Known(j.tx)) THEN TxNotFound(j)
                  ELSE IF Coinbase(j.tx) THEN Position(raw)
                  ELSE [raw EXCEPT !.at = "input"])
        /\ UNCHANGED <<node, prevouts, headers>>

\* The next input, or on.
AfterInput(j) == IF j.input = Len(Inputs[j.tx]) THEN Position(j)
                 ELSE [j EXCEPT !.input = @ + 1]

Outpoint(j) == Inputs[j.tx][j.input]

\* resolvePrevouts: an outpoint the cache has ...
CachedInput(r) ==
    LET j == job[r]
    IN  /\ j.at = "input" /\ Lru!Has(prevouts, Outpoint(j))
        /\ prevouts' = Lru!Touch(prevouts, Outpoint(j))
        /\ Set(r, AfterInput(j))
        /\ UNCHANGED <<node, headers>>

\* ... one of a parent this call has fetched already ...
ParentInput(r) ==
    LET j == job[r]
    IN  /\ j.at = "input" /\ ~Lru!Has(prevouts, Outpoint(j))
        /\ Outpoint(j)[1] \in Range(j.parents)
        /\ prevouts' = Lru!Put(prevouts, CacheCap, Outpoint(j), None)
        /\ Set(r, AfterInput(j))
        /\ UNCHANGED <<node, headers>>

\* Mutant of Fetches: only the outpoint cache is asked.
FetchesAgain(j) == ~Lru!Has(prevouts, Outpoint(j))

Fetches(j) == /\ ~Lru!Has(prevouts, Outpoint(j))
              /\ Outpoint(j)[1] \notin Range(j.parents)

\* ... or one whose parent must be fetched: a parent that is gone is a
\* failure, not a transaction that was not found.
FetchParent(r) ==
    LET j == job[r]
        parent == Outpoint(j)[1]
    IN  /\ j.at = "input" /\ Fetches(j)
        /\ IF Known(parent)
           THEN /\ prevouts' = Lru!Put(prevouts, CacheCap, Outpoint(j), None)
                /\ Set(r, AfterInput([j EXCEPT !.parents = Append(@, parent)]))
           ELSE Set(r, Done(j, "error")) /\ UNCHANGED prevouts
        /\ UNCHANGED <<node, headers>>

\* header, from the cache or the node; a disconnected block has none.
Header(r) ==
    LET j == job[r]
    IN  /\ j.at = "header"
        /\ \/ /\ Lru!Has(headers, j.inBlock)
              /\ headers' = Lru!Touch(headers, j.inBlock)
              /\ Set(r, GotTx(j, TRUE))
           \/ /\ ~Lru!Has(headers, j.inBlock) /\ j.inBlock \in Range(chain)
              /\ headers' = Lru!Put(headers, CacheCap, j.inBlock, None)
              /\ Set(r, GotTx(j, TRUE))
           \/ /\ ~Lru!Has(headers, j.inBlock) /\ j.inBlock \notin Range(chain)
              /\ Set(r, Done(j, "error")) /\ UNCHANGED headers
        /\ UNCHANGED <<node, prevouts>>

\* derivePending: the snapshot is had (see Mempool).
Pending(r) ==
    /\ job[r].at = "pending"
    /\ Set(r, GotTx(job[r], FALSE))
    /\ UNCHANGED <<node, prevouts, headers>>

\* BlockByHeight: the hash at a height.
GetBlockHash(r) ==
    LET j == job[r]
    IN  /\ j.at = "hash"
        /\ Set(r, IF j.query.height < Len(chain)
                  THEN [j EXCEPT !.at = "block", !.block = chain[j.query.height + 1]]
                  ELSE NotFound(j))
        /\ UNCHANGED <<node, prevouts, headers>>

\* block: its transaction list.  btcd knows a disconnected block but cannot
\* tell its height, which it reports as an internal error.
GetBlock(r) ==
    LET j == job[r]
    IN  /\ j.at = "block"
        /\ Set(r, IF j.block \in Range(chain) THEN NextRow(j, j.query.from + 1)
                  ELSE IF j.block \in stale THEN Done(j, "error")
                  ELSE NotFound(j))
        /\ UNCHANGED <<node, prevouts, headers>>

\* The lookup's next step is a call of the node.
Calling(j) ==
    \/ j.at \in {"raw", "pending", "hash", "block"}
    \/ j.at = "input" /\ Fetches(j)
    \/ j.at = "header" /\ ~Lru!Has(headers, j.inBlock)

\* The call fails, whatever the reason: so does the lookup.
Fails(r) ==
    /\ Calling(job[r])
    /\ Set(r, Done([job[r] EXCEPT !.facts = @ \cup {"shaken"}], "error"))
    /\ UNCHANGED <<node, prevouts, headers>>

Next ==
    \/ \E t \in Txs : Accept(t) \/ Evict(t)
    \/ \E b \in Blocks : Mine(b) \/ Reorg(b)
    \/ \E r \in Requests :
          \/ Start(r) \/ GetRawTransaction(r) \/ CachedInput(r)
          \/ ParentInput(r) \/ FetchParent(r) \/ Header(r) \/ Pending(r)
          \/ GetBlockHash(r) \/ GetBlock(r) \/ Fails(r)

Spec == Init /\ [][Next]_vars

-----------------------------------------------------------------------------
(* Properties *)

\* Every answer was true at some moment of the lookup, however the chain and
\* the mempool changed under its calls: "not found" is only said of what was
\* unknown, a public cache is only allowed for what was in a block, and a
\* failure is only reported when a call failed or something the calls had
\* shown was taken away by a reorganisation or an eviction.
AnswerWasTrue ==
    \A r \in Requests :
        job[r].at = "done" =>
            CASE job[r].said = "notfound" -> "unknown" \in job[r].facts
              [] job[r].said = "cached" -> "confirmed" \in job[r].facts
              [] job[r].said = "fresh" -> "pending" \in job[r].facts
              [] job[r].said = "error" -> "shaken" \in job[r].facts

\* A parent is fetched at most once for a transaction, even when the outpoint
\* cache is too small for its inputs or other lookups push them out.
ParentOnce == \A r \in Requests : IsInjective(job[r].parents)
=============================================================================
