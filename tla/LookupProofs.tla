---------------------------- MODULE LookupProofs ----------------------------
(***************************************************************************)
(* Why every answer of Lookup was true at some moment of the lookup, for   *)
(* any set of transactions and blocks and any number of lookups under way; *)
(* and why the numbers Derivations makes of an answer agree with each      *)
(* other, whatever the answer.                                             *)
(*                                                                         *)
(* The proof about answers has two parts.  What the node holds is          *)
(* consistent (NodeOK): whatever is known has known parents, also when the *)
(* tip is disconnected.  And a lookup that has got somewhere knows why     *)
(* (JobOK): what its calls have shown still holds, or its facts say that   *)
(* something was taken away.                                               *)
(*                                                                         *)
(* Derived numbers are sums over finite sets and results of loops.  What   *)
(* holds of them is shown by induction, over the naturals or over a finite *)
(* set, the statement being the set of those it holds of: lemmas Induction *)
(* and SetInduction, which rest on the order of the naturals.              *)
(***************************************************************************)
EXTENDS MCLookup, SequenceTheorems, FiniteSetTheorems, WellFoundedInduction,
        TLAPS

Ids == Txs \cup Blocks
FactNames == {"confirmed", "pending", "unknown", "shaken"}
TxSteps == {"raw", "input", "header", "pending"}
Steps == TxSteps \cup {"hash", "block"}

JobType ==
    [at : Steps \cup {"idle", "done"}, query : Queries \cup {None},
     tries : {<<>>, <<"tx">>, <<"block">>}, block : Ids \cup {None}, row : Nat,
     tx : Ids \cup {None}, inBlock : Blocks \cup {None}, input : Nat,
     parents : Seq(Txs), said : {None, "notfound", "cached", "fresh", "error"},
     facts : SUBSET FactNames]

-----------------------------------------------------------------------------
(* The invariant *)

\* Blocks and mempool: what is known has known parents, and none of them is
\* the coinbase of a block that may be disconnected.
NodeOK ==
    /\ chain \in Seq(Blocks) /\ chain # <<>> /\ chain[1] = Genesis
    /\ IsInjective(chain)
    /\ stale \subseteq Blocks /\ stale \cap Range(chain) = {}
    /\ pool \subseteq Txs
    /\ \A t \in Txs : Known(t) =>
          \A p \in Parents(t) : Known(p) /\ (Coinbase(p) => p \in Settled)
    /\ \A t \in Mined : Parents(t) \subseteq Mined
    /\ \A t \in TxsOf(Range(Front(chain))) :
          Parents(t) \subseteq TxsOf(Range(Front(chain)))

Shaken(j) == "shaken" \in j.facts
Unknown(j) == "unknown" \in j.facts

\* A transaction that was asked for by its id.
Alone(j) ==
    /\ j.tx = j.query.id /\ j.query.id # None
    /\ j.tries # <<"tx">>
    /\ j.query.id \in Txs \/ Unknown(j) \/ j.tries # <<>>

\* A row of a block that was asked for.
InRow(j) ==
    /\ j.block \in Blocks /\ j.tx \in Range(BlockTxs[j.block])
    /\ j.query.id \in {None, j.block}
    /\ "confirmed" \in j.facts
    /\ j.block \in Range(chain) \/ Shaken(j)
    /\ j.tries # <<"block">>

\* GetTx has the transaction, and knows where it is.
Placed(j) ==
    /\ j.tx \in Txs
    /\ j.inBlock # None => j.inBlock \in Range(chain) \/ Shaken(j)
    /\ j.block = None =>
          (IF j.inBlock = None THEN "pending" ELSE "confirmed") \in j.facts
    /\ j.at = "header" => j.inBlock # None
    /\ j.at = "pending" => j.inBlock = None
    /\ j.at = "input" =>
          /\ j.input \in 1..Len(Inputs[j.tx])
          /\ (\A p \in Parents(j.tx) : Known(p)) \/ Shaken(j)

\* The transaction list is next, of a block asked for by its height or id.
AtBlock(j) ==
    /\ j.tries # <<"block">>
    /\ \/ /\ j.query.id = None
          /\ j.block \in Range(chain) \cup stale
          /\ j.block \in Range(chain) \/ Shaken(j)
          /\ "confirmed" \in j.facts
       \/ /\ j.block = j.query.id /\ j.query.id # None
          /\ j.query.id \in Blocks \/ Unknown(j) \/ j.tries # <<>>

Answered(j) ==
    CASE j.said = "notfound" -> Unknown(j)
      [] j.said = "cached" -> "confirmed" \in j.facts
      [] j.said = "fresh" -> "pending" \in j.facts
      [] j.said = "error" -> Shaken(j)

\* What a lookup under way was asked, and what it has noted.
Noted(j) ==
    /\ j.query \in Queries
    /\ Facts(j.query) \subseteq j.facts
    /\ j.tries # <<>> => j.query.by = "search" /\ j.query.id # None

JobOK(j) ==
    /\ j \in JobType
    /\ IsInjective(j.parents)
    /\ j.at \in Steps => Noted(j)
    /\ j.at \in TxSteps => IF j.block = None THEN Alone(j) ELSE InRow(j)
    /\ j.at = "raw" => j.input = 1
    /\ j.at \in TxSteps \ {"raw"} => Placed(j)
    /\ j.at = "hash" => j.query.id = None /\ j.tries = <<>>
    /\ j.at = "block" => AtBlock(j)
    /\ j.at = "done" => /\ j.said \in {"notfound", "cached", "fresh", "error"}
                        /\ Answered(j)

IInv == /\ NodeOK
        /\ job \in [Requests -> JobType]
        /\ \A r \in Requests : JobOK(job[r])

-----------------------------------------------------------------------------
(* The chain as a sequence of blocks *)

\* A chain is what is below its tip, and its tip.
LEMMA TipAndBelow ==
    ASSUME NEW s \in Seq(Blocks), s # <<>>
    PROVE  /\ Front(s) \in Seq(Blocks) /\ Len(Front(s)) = Len(s) - 1
           /\ \A i \in 1..Len(s) - 1 : Front(s)[i] = s[i]
           /\ Range(s) = Range(Front(s)) \cup {Last(s)}
           /\ Last(s) \in Blocks
           /\ IsInjective(s) => /\ Last(s) \notin Range(Front(s))
                                /\ IsInjective(Front(s))
<1>1. Len(s) \in Nat \ {0} /\ DOMAIN s = 1..Len(s) /\ s \in [1..Len(s) -> Blocks]
  OBVIOUS
<1>2. /\ Front(s) \in Seq(Blocks) /\ Len(Front(s)) = Len(s) - 1
      /\ \A i \in 1..Len(s) - 1 : Front(s)[i] = s[i]
  BY <1>1 DEF Front
<1>3. DOMAIN Front(s) = 1..Len(s) - 1 /\ Last(s) = s[Len(s)] /\ Len(s) \in 1..Len(s)
  BY <1>1, <1>2 DEF Last
<1>4. Range(s) = Range(Front(s)) \cup {Last(s)}
  BY <1>1, <1>2, <1>3 DEF Range
<1>5. IsInjective(s) => Last(s) \notin Range(Front(s)) /\ IsInjective(Front(s))
  BY <1>1, <1>2, <1>3 DEF Range, IsInjective
<1>6. QED
  BY <1>1, <1>2, <1>3, <1>4, <1>5

\* A block that joins it is its new tip.
LEMMA NewTip ==
    ASSUME NEW s \in Seq(Blocks), NEW b \in Blocks
    PROVE  /\ Append(s, b) \in Seq(Blocks) /\ Append(s, b) # <<>>
           /\ Len(Append(s, b)) = Len(s) + 1
           /\ \A i \in 1..Len(s) : Append(s, b)[i] = s[i]
           /\ Front(Append(s, b)) = s
           /\ Range(Append(s, b)) = Range(s) \cup {b}
           /\ IsInjective(s) /\ b \notin Range(s) => IsInjective(Append(s, b))
<1> DEFINE u == Append(s, b)
<1>1. /\ Len(s) \in Nat /\ DOMAIN s = 1..Len(s)
      /\ u \in Seq(Blocks) /\ Len(u) = Len(s) + 1 /\ DOMAIN u = 1..Len(s) + 1
      /\ u[Len(s) + 1] = b /\ \A i \in 1..Len(s) : u[i] = s[i]
  OBVIOUS
<1> HIDE DEF u
<1>2. u # <<>>
  BY <1>1
<1>3. Front(u) = s
  <2>1. /\ Front(u) \in Seq(Blocks) /\ Len(Front(u)) = Len(s)
        /\ \A i \in 1..Len(s) : Front(u)[i] = u[i]
    <3>1. /\ Front(u) \in Seq(Blocks) /\ Len(Front(u)) = Len(u) - 1
          /\ \A i \in 1..Len(u) - 1 : Front(u)[i] = u[i]
      BY <1>1, <1>2, TipAndBelow
    <3>2. Len(u) - 1 = Len(s)
      BY <1>1
    <3>3. QED
      BY <3>1, <3>2
  <2>2. QED
    BY <1>1, <2>1, SeqEqual
<1>4. Range(u) = Range(s) \cup {b}
  BY <1>1 DEF Range
<1>5. IsInjective(s) /\ b \notin Range(s) => IsInjective(u)
  BY <1>1 DEF IsInjective, Range
<1>6. QED
  BY <1>1, <1>2, <1>3, <1>4, <1>5 DEF u

-----------------------------------------------------------------------------
(* The node *)

\* A block has transactions of its own, its coinbase and others.
LEMMA BlockFacts ==
    \A b \in Blocks :
        /\ Range(BlockTxs[b]) \subseteq Txs
        /\ BlockTxs[b][1] \in Range(BlockTxs[b]) /\ Coinbase(BlockTxs[b][1])
        /\ \A t \in Range(BlockTxs[b]) :
              t = BlockTxs[b][1] \/ \E i \in 2..Len(BlockTxs[b]) : t = BlockTxs[b][i]
<1> SUFFICES ASSUME NEW b \in Blocks
             PROVE  /\ Range(BlockTxs[b]) \subseteq Txs
                    /\ BlockTxs[b][1] \in Range(BlockTxs[b])
                    /\ Coinbase(BlockTxs[b][1])
                    /\ \A t \in Range(BlockTxs[b]) :
                          \/ t = BlockTxs[b][1]
                          \/ \E i \in 2..Len(BlockTxs[b]) : t = BlockTxs[b][i]
  OBVIOUS
<1>1. BlockTxs[b] \in Seq(Txs) /\ BlockTxs[b] # <<>> /\ Coinbase(BlockTxs[b][1])
  BY BlockAssumption
<1> DEFINE s == BlockTxs[b]
<1>2. /\ s \in Seq(Txs) /\ s # <<>> /\ Len(s) \in Nat \ {0}
      /\ DOMAIN s = 1..Len(s) /\ \A i \in 1..Len(s) : s[i] \in Txs
  BY <1>1
<1> HIDE DEF s
<1>3. /\ Range(s) \subseteq Txs /\ s[1] \in Range(s)
      /\ \A t \in Range(s) : t = s[1] \/ \E i \in 2..Len(s) : t = s[i]
  BY <1>2 DEF Range
<1>4. QED
  BY <1>1, <1>3 DEF s

\* Parents are transactions; a coinbase has none.
LEMMA ParentFacts ==
    \A t \in Txs : /\ Parents(t) \subseteq Txs
                   /\ Coinbase(t) => Parents(t) = {}
<1>1. ASSUME NEW t \in Txs
      PROVE  /\ Parents(t) \subseteq Txs
             /\ Coinbase(t) => Parents(t) = {}
  <2>1. Inputs[t] \in Seq(Txs \X Nat)
    BY InputAssumption
  <2>2. \A i \in DOMAIN Inputs[t] : Inputs[t][i] \in Txs \X Nat
    BY <2>1
  <2>3. QED
    BY <2>2 DEF Parents, Coinbase
<1>2. QED
  BY <1>1

\* What the node holds is consistent at first, ...
LEMMA NodeInit == Init => NodeOK
<1> SUFFICES ASSUME Init
             PROVE  NodeOK
  OBVIOUS
<1>1. chain = <<Genesis>> /\ stale = {} /\ pool = {} /\ Genesis \in Blocks
  BY GenesisAssumption DEF Init
<1>2. chain \in Seq(Blocks) /\ chain # <<>> /\ Len(chain) = 1 /\ chain[1] = Genesis
      /\ DOMAIN chain = {1}
  BY <1>1
<1>3. Range(chain) = {Genesis} /\ IsInjective(chain)
  BY <1>2 DEF Range, IsInjective
<1>4. Range(Front(chain)) = {}
  <2>1. Front(chain) \in Seq(Blocks) /\ Len(Front(chain)) = 0
    BY <1>2, TipAndBelow
  <2>2. DOMAIN Front(chain) = {}
    BY <2>1
  <2>3. QED
    BY <2>2 DEF Range
<1>5. Mined = Range(BlockTxs[Genesis]) /\ Settled = Range(BlockTxs[Genesis])
      /\ TxsOf(Range(Front(chain))) = {}
  BY <1>3, <1>4 DEF Mined, Settled, TxsOf
<1>6. \A t \in Mined : Parents(t) \subseteq Mined
  BY <1>5, GenesisAssumption
<1>7. \A t \in Txs : Known(t) =>
          \A p \in Parents(t) : Known(p) /\ (Coinbase(p) => p \in Settled)
  BY <1>1, <1>5, <1>6 DEF Known
<1>8. QED
  BY <1>1, <1>2, <1>3, <1>5, <1>6, <1>7 DEF NodeOK

\* What a change that takes nothing away leaves, ...
Gentle == /\ Range(chain) \subseteq Range(chain')
          /\ \A t \in Txs : Known(t) => Known(t)'

\* ... and what every change does: a block is never forgotten.
BlocksKept == Range(chain) \cup stale \subseteq Range(chain') \cup stale'

\* ... when a transaction is accepted, ...
LEMMA AcceptStep ==
    ASSUME NodeOK, NEW t \in Txs, Accept(t)
    PROVE  NodeOK' /\ Gentle /\ BlocksKept
<1>1. /\ pool' = pool \cup {t} /\ UNCHANGED <<chain, stale>> /\ ~Coinbase(t)
      /\ \A p \in Parents(t) : Known(p) /\ (Coinbase(p) => p \in Settled)
  BY DEF Accept
<1>2. Mined' = Mined /\ Settled' = Settled
  BY <1>1 DEF Mined, Settled, TxsOf
<1>3. \A u \in Txs : Known(u)' <=> Known(u) \/ u = t
  BY <1>1, <1>2 DEF Known
<1>4. \A u \in Txs : Known(u)' =>
          \A p \in Parents(u) : Known(p)' /\ (Coinbase(p) => p \in Settled')
  BY <1>1, <1>2, <1>3, ParentFacts DEF NodeOK
<1>5. NodeOK'
  BY <1>1, <1>2, <1>4 DEF NodeOK
<1>6. QED
  BY <1>1, <1>3, <1>5 DEF Gentle, BlocksKept

\* ... when one is evicted with its descendants, ...
LEMMA EvictStep ==
    ASSUME NodeOK, NEW t \in Txs, Evict(t)
    PROVE  NodeOK' /\ BlocksKept
<1>1. /\ pool' = UNION {s \in SUBSET (pool \ {t}) :
                          \A u \in s : Parents(u) \subseteq s \cup Mined}
      /\ UNCHANGED <<chain, stale>>
  BY DEF Evict
<1>2. Mined' = Mined /\ Settled' = Settled
  BY <1>1 DEF Mined, Settled, TxsOf
<1>3. pool' \subseteq pool
  BY <1>1
<1>4. \A u \in pool' : Parents(u) \subseteq pool' \cup Mined
  BY <1>1
<1>5. \A u \in Txs : Known(u)' =>
          \A p \in Parents(u) : Known(p)' /\ (Coinbase(p) => p \in Settled')
  BY <1>2, <1>3, <1>4, ParentFacts DEF NodeOK, Known
<1>6. NodeOK'
  BY <1>1, <1>2, <1>3, <1>5 DEF NodeOK
<1>7. QED
  BY <1>1, <1>6 DEF BlocksKept

\* What a block takes out of the mempool is valid: its parents are below it
\* or in it.
LEMMA BlockIsValid ==
    ASSUME NEW b \in Blocks, NEW s, NEW waiting, Fits(b, s, waiting)
    PROVE  \A t \in Range(BlockTxs[b]) :
              /\ Parents(t) \subseteq TxsOf({b} \cup Range(s))
              /\ Coinbase(t) \/ t \in waiting
<1>1. TAKE t \in Range(BlockTxs[b])
<1>2. CASE t = BlockTxs[b][1]
  BY <1>2, BlockFacts, ParentFacts
<1>3. CASE \E i \in 2..Len(BlockTxs[b]) : t = BlockTxs[b][i]
  BY <1>3 DEF Fits
<1>4. QED
  BY <1>2, <1>3, BlockFacts

\* ... when a block is mined ...
LEMMA MineStep ==
    ASSUME NodeOK, NEW b \in Blocks, Mine(b)
    PROVE  NodeOK' /\ Gentle /\ BlocksKept
<1> DEFINE R == Range(BlockTxs[b])
<1>1. /\ chain \in Seq(Blocks) /\ chain # <<>> /\ chain[1] = Genesis
      /\ Len(chain) \in Nat \ {0} /\ Genesis \in Range(chain)
  BY DEF NodeOK, Range
<1>2. /\ chain' = Append(chain, b) /\ pool' = pool \ R /\ stale' = stale
      /\ b \notin Range(chain) /\ b \notin stale
  BY DEF Mine, Fits
<1>3. \A t \in R : /\ Parents(t) \subseteq TxsOf({b} \cup Range(chain))
                   /\ Coinbase(t) \/ t \in pool
  BY BlockIsValid DEF Mine
<1>4. /\ chain' \in Seq(Blocks) /\ chain' # <<>> /\ Front(chain') = chain
      /\ Range(chain') = Range(chain) \cup {b} /\ IsInjective(chain')
      /\ chain'[1] = Genesis
  BY <1>1, <1>2, NewTip DEF NodeOK
<1>5. /\ Mined' = Mined \cup R /\ Settled' = Mined
      /\ TxsOf(Range(Front(chain'))) = Mined
      /\ TxsOf({b} \cup Range(chain)) = Mined \cup R
      /\ Settled \subseteq Mined
  <2>1. {Genesis} \cup Range(chain) = Range(chain)
    BY <1>1
  <2>2. Range(Front(chain)) \subseteq Range(chain)
    BY <1>1, TipAndBelow
  <2>3. QED
    BY <1>1, <1>4, <2>1, <2>2 DEF Mined, Settled, TxsOf
<1>6. R \subseteq Txs
  BY BlockFacts
<1> HIDE DEF R
<1>7. \A t \in Txs : Known(t)' <=> Known(t) \/ t \in R
  BY <1>2, <1>5 DEF Known
<1>8. \A t \in Txs : Known(t)' =>
          \A p \in Parents(t) : Known(p)' /\ (Coinbase(p) => p \in Settled')
  <2>1. ASSUME NEW t \in Txs, Known(t), NEW p \in Parents(t)
        PROVE  Known(p)' /\ (Coinbase(p) => p \in Settled')
    BY <1>5, <1>7, <2>1, ParentFacts DEF NodeOK
  <2>2. \A t \in R : Known(t) \/ Parents(t) = {}
    BY <1>3, <1>6, ParentFacts DEF Known
  <2>3. QED
    BY <1>7, <2>1, <2>2
<1>9. \A t \in Mined' : Parents(t) \subseteq Mined'
  BY <1>3, <1>5 DEF NodeOK
<1>10. \A t \in TxsOf(Range(Front(chain'))) :
           Parents(t) \subseteq TxsOf(Range(Front(chain')))
  BY <1>5 DEF NodeOK
<1>11. NodeOK'
  BY <1>2, <1>4, <1>8, <1>9, <1>10 DEF NodeOK
<1>12. QED
  BY <1>2, <1>4, <1>7, <1>11 DEF Gentle, BlocksKept

\* ... and when another takes the place of the tip.
LEMMA ReorgStep ==
    ASSUME NodeOK, NEW b \in Blocks, Reorg(b)
    PROVE  NodeOK' /\ BlocksKept
<1> DEFINE R == Range(BlockTxs[b])
<1> DEFINE below == Front(chain)
<1> DEFINE tip == Last(chain)
<1> DEFINE waiting == pool \cup (Range(BlockTxs[tip]) \ {BlockTxs[tip][1]})
<1> DEFINE M == TxsOf(Range(below))
<1>1. /\ chain \in Seq(Blocks) /\ chain # <<>> /\ chain[1] = Genesis
      /\ Len(chain) > 1 /\ Fits(b, below, waiting)
      /\ chain' = Append(below, b) /\ stale' = stale \cup {tip}
      /\ pool' = waiting \ R
  BY DEF NodeOK, Reorg
<1>2. /\ below \in Seq(Blocks) /\ Len(below) = Len(chain) - 1
      /\ \A i \in 1..Len(chain) - 1 : below[i] = chain[i]
      /\ Range(chain) = Range(below) \cup {tip} /\ tip \in Blocks
      /\ tip \notin Range(below) /\ IsInjective(below)
  BY <1>1, TipAndBelow DEF NodeOK
<1>3. b \notin Range(chain) /\ b \notin stale
  BY <1>1 DEF Fits
<1> HIDE DEF below, tip
<1>4. /\ chain' \in Seq(Blocks) /\ chain' # <<>> /\ Front(chain') = below
      /\ Range(chain') = Range(below) \cup {b} /\ IsInjective(chain')
      /\ \A i \in 1..Len(below) : chain'[i] = below[i]
  BY <1>1, <1>2, <1>3, NewTip
<1>5. /\ Len(below) \in Nat \ {0} /\ below[1] = Genesis /\ chain'[1] = Genesis
      /\ Genesis \in Range(below)
  <2>1. Len(below) \in Nat \ {0} /\ 1 \in 1..Len(below) /\ 1 \in 1..Len(chain) - 1
        /\ 1 \in DOMAIN below
    BY <1>1, <1>2
  <2>2. QED
    BY <1>1, <1>2, <1>4, <2>1 DEF Range
<1>6. /\ Mined = M \cup Range(BlockTxs[tip]) /\ Mined' = M \cup R
      /\ Settled = M /\ Settled' = M
      /\ TxsOf(Range(Front(chain'))) = M
      /\ TxsOf({b} \cup Range(below)) = M \cup R
  <2>1. {Genesis} \cup Range(below) = Range(below) /\ Front(chain) = below
    BY <1>5 DEF below
  <2>2. QED
    BY <1>2, <1>4, <2>1 DEF Mined, Settled, TxsOf
<1>7. \A t \in R : Parents(t) \subseteq M \cup R /\ (Coinbase(t) \/ t \in waiting)
  <2>1. \A t \in R : /\ Parents(t) \subseteq TxsOf({b} \cup Range(below))
                     /\ Coinbase(t) \/ t \in waiting
    BY <1>1, BlockIsValid
  <2>2. QED
    BY <1>6, <2>1
<1>8. /\ R \subseteq Txs /\ waiting \subseteq Txs
      /\ \A t \in waiting : Known(t)
      /\ \A t \in Range(BlockTxs[tip]) : Coinbase(t) \/ t \in waiting
      /\ \A t \in waiting : t \in pool \/ t \in Range(BlockTxs[tip])
  BY <1>2, <1>6, BlockFacts DEF NodeOK, Known
<1>9. M \subseteq Txs /\ \A t \in M : Parents(t) \subseteq M
  <2>1. Range(below) \subseteq Blocks
    BY <1>2 DEF Range
  <2>2. M \subseteq Txs
    BY <2>1, BlockFacts DEF TxsOf
  <2>3. QED
    BY <2>2 DEF NodeOK, below
<1>10. pool \subseteq waiting
  OBVIOUS
<1> HIDE DEF M, R
<1>11. /\ \A t \in Txs : Known(t)' <=> t \in M \cup waiting \cup R
       /\ \A t \in Txs : Known(t) <=> t \in M \cup pool \cup Range(BlockTxs[tip])
  BY <1>1, <1>6 DEF Known
<1> HIDE DEF waiting
<1>12. \A t \in Txs : Known(t)' =>
           \A p \in Parents(t) : Known(p)' /\ (Coinbase(p) => p \in Settled')
  <2>1. ASSUME NEW t \in M, NEW p \in Parents(t)
        PROVE  Known(p)' /\ p \in Settled'
    <3>1. p \in M /\ p \in Txs
      BY <1>9, <2>1
    <3>2. QED
      BY <1>6, <1>11, <3>1
  <2>2. ASSUME NEW t \in waiting, NEW p \in Parents(t)
        PROVE  Known(p)' /\ (Coinbase(p) => p \in Settled')
    <3>1. /\ p \in Txs /\ Known(p) /\ (Coinbase(p) => p \in M)
      BY <1>6, <1>8, <2>2, ParentFacts DEF NodeOK
    <3>2. p \in M \cup waiting
      BY <1>8, <1>10, <1>11, <3>1
    <3>3. QED
      BY <1>6, <1>11, <3>1, <3>2
  <2>3. \A t \in R : t \in waiting \/ Parents(t) = {}
    BY <1>7, <1>8, ParentFacts
  <2>4. QED
    BY <1>11, <2>1, <2>2, <2>3
<1>13. /\ \A t \in Mined' : Parents(t) \subseteq Mined'
       /\ \A t \in TxsOf(Range(Front(chain'))) :
             Parents(t) \subseteq TxsOf(Range(Front(chain')))
  BY <1>6, <1>7, <1>9
<1>14. /\ stale' \subseteq Blocks /\ stale' \cap Range(chain') = {}
       /\ pool' \subseteq Txs
  BY <1>1, <1>2, <1>3, <1>4, <1>8 DEF NodeOK
<1>15. NodeOK'
  BY <1>4, <1>5, <1>12, <1>13, <1>14 DEF NodeOK
<1>16. QED
  BY <1>1, <1>2, <1>4, <1>15 DEF BlocksKept

-----------------------------------------------------------------------------
(* A change of the node under the lookups *)

\* Facts have their names.
LEMMA FactsAreNames == \A q : Facts(q) \subseteq FactNames
  BY DEF Facts, FactNames

\* A lookup that notes the change may go on as it was.
LEMMA NotesKeep ==
    ASSUME BlocksKept, NEW j, JobOK(j), j.at \in Steps,
           NEW F \in SUBSET FactNames,
           j.facts \subseteq F, Facts(j.query)' \subseteq F,
           Gentle \/ "shaken" \in F
    PROVE  JobOK([j EXCEPT !.facts = F])'
<1> DEFINE k == [j EXCEPT !.facts = F]
<1>1. /\ k \in JobType /\ k.facts = F
      /\ k.at = j.at /\ k.query = j.query /\ k.tries = j.tries
      /\ k.block = j.block /\ k.tx = j.tx /\ k.inBlock = j.inBlock
      /\ k.input = j.input /\ k.parents = j.parents /\ k.said = j.said
  BY DEF JobOK, JobType
<1>2. j \in JobType /\ IsInjective(k.parents) /\ Noted(j)
  BY <1>1 DEF JobOK
<1> HIDE DEF k
<1>3. Noted(k)'
  BY <1>1, <1>2 DEF Noted
<1>4. \A b : b \in Range(chain) => b \in Range(chain') \/ Shaken(k)
  BY <1>1 DEF Gentle, Shaken
<1>5. Shaken(j) => Shaken(k)
  BY <1>1 DEF Shaken
<1>6. Unknown(j) => Unknown(k)
  BY <1>1 DEF Unknown
<1>7. Alone(j) => Alone(k)'
  BY <1>1, <1>6 DEF Alone, Unknown
<1>8. InRow(j) => InRow(k)'
  BY <1>1, <1>4, <1>5 DEF InRow, Shaken
<1>9. Placed(j) => Placed(k)'
  <2>1. SUFFICES ASSUME Placed(j)
                 PROVE  Placed(k)'
    OBVIOUS
  <2>2. k.inBlock # None => k.inBlock \in Range(chain') \/ Shaken(k)
    BY <1>1, <1>4, <1>5, <2>1 DEF Placed
  <2>3. ASSUME k.at = "input", ~Shaken(k)
        PROVE  \A p \in Parents(k.tx) : Known(p)'
    <3>1. \A p \in Parents(j.tx) : Known(p)
      BY <1>1, <1>5, <2>1, <2>3 DEF Placed
    <3>2. Parents(j.tx) \subseteq Txs
      BY <2>1, ParentFacts DEF Placed
    <3>3. Gentle
      BY <1>1, <2>3 DEF Shaken
    <3>4. QED
      BY <1>1, <3>1, <3>2, <3>3 DEF Gentle
  <2>4. QED
    BY <1>1, <2>1, <2>2, <2>3 DEF Placed, Shaken
<1>10. AtBlock(j) => AtBlock(k)'
  BY <1>1, <1>4, <1>5, <1>6 DEF AtBlock, BlocksKept, Shaken, Unknown
<1>11. /\ k.at \in TxSteps => IF k.block = None THEN Alone(k)' ELSE InRow(k)'
       /\ k.at = "raw" => k.input = 1
       /\ k.at \in TxSteps \ {"raw"} => Placed(k)'
       /\ k.at = "hash" => k.query.id = None /\ k.tries = <<>>
       /\ k.at = "block" => AtBlock(k)'
  BY <1>1, <1>7, <1>8, <1>9, <1>10 DEF JobOK
<1>12. k.at # "done"
  BY <1>1 DEF Steps, TxSteps
<1>13. JobOK(k)'
  BY <1>1, <1>2, <1>3, <1>11, <1>12 DEF JobOK
<1>14. QED
  BY <1>13 DEF k

\* What a lookup that is not under way holds does not depend on the node.
LEMMA RestKeeps ==
    ASSUME NEW j, JobOK(j), j.at \notin Steps
    PROVE  JobOK(j)'
<1>1. j.at \notin TxSteps /\ j.at # "hash" /\ j.at # "block"
  BY DEF Steps
<1>2. j.at = "done" => Answered(j)'
  BY DEF JobOK, Answered, Unknown, Shaken
<1>3. QED
  BY <1>1, <1>2 DEF JobOK

\* A change of the node keeps the invariant: what it takes away is noted.
LEMMA ChangeKeeps ==
    ASSUME IInv, NodeOK', BlocksKept, NEW shaking \in BOOLEAN,
           Gentle \/ shaking, Change(shaking)
    PROVE  IInv'
<1> DEFINE more == IF shaking THEN {"shaken"} ELSE {}
<1> DEFINE noted(r) == job[r].facts \cup Facts(job[r].query)' \cup more
<1>1. ASSUME NEW r \in Requests
      PROVE  JobOK(job[r])' /\ job'[r] \in JobType
  <2>1. PICK j : j = job[r]
    OBVIOUS
  <2>2. j \in JobType /\ JobOK(j)
    BY <2>1 DEF IInv
  <2>3. CASE j.at \in {"idle", "done"}
    <3>1. job'[r] = j
      BY <2>1, <2>3, <1>1 DEF Change
    <3>2. QED
      BY <2>2, <2>3, <3>1, RestKeeps DEF Steps, TxSteps
  <2>4. CASE j.at \notin {"idle", "done"}
    <3>1. j.at \in Steps /\ j.query \in Queries
      BY <2>2, <2>4 DEF JobType, JobOK, Noted
    <3>2. PICK F : F = j.facts \cup Facts(j.query)' \cup more
      OBVIOUS
    <3>3. job'[r] = [j EXCEPT !.facts = F]
      BY <2>1, <2>4, <1>1, <3>1, <3>2 DEF Change
    <3>4. F \in SUBSET FactNames /\ j.facts \subseteq F /\ Facts(j.query)' \subseteq F
          /\ (Gentle \/ "shaken" \in F)
      BY <2>2, <3>2, FactsAreNames DEF JobType, FactNames, Facts
    <3>5. JobOK([j EXCEPT !.facts = F])'
      BY <2>2, <3>1, <3>4, NotesKeep
    <3>6. QED
      BY <3>3, <3>5 DEF JobOK
  <2>5. QED
    BY <2>3, <2>4
<1>2. job' \in [Requests -> JobType]
  BY <1>1 DEF Change
<1>3. QED
  BY <1>1, <1>2 DEF IInv

-----------------------------------------------------------------------------
(* What a call shows, against the facts a lookup notes *)

\* What is the case is among the facts.
LEMMA Truth ==
    ASSUME NodeOK, NEW q \in Queries
    PROVE  /\ q.id = None /\ q.height < Len(chain) => "confirmed" \in Facts(q)
           /\ q.id = None /\ ~(q.height < Len(chain)) => "unknown" \in Facts(q)
           /\ q.id \in Range(chain) \cup Mined => "confirmed" \in Facts(q)
           /\ q.id \in pool => "pending" \in Facts(q)
           /\ q.id \in stale => "shaken" \in Facts(q)
           /\ q.id \in Blocks \ Range(chain) => "unknown" \in Facts(q)
           /\ q.id \in Txs /\ ~Known(q.id) => "unknown" \in Facts(q)
           /\ q.by = "tx" /\ q.id \in Blocks => "unknown" \in Facts(q)
           /\ q.by = "block" /\ q.id \in Txs => "unknown" \in Facts(q)
<1>1. Range(chain) \subseteq Blocks /\ pool \subseteq Txs
  BY DEF NodeOK, Range
<1>2. Mined \subseteq Txs
  BY <1>1, BlockFacts DEF Mined, TxsOf
<1>3. None \notin Txs \cup Blocks /\ Txs \cap Blocks = {}
  BY IdAssumption
<1>4. ASSUME q.id = None
      PROVE  InChain(q) <=> q.height < Len(chain)
  BY <1>4 DEF InChain
<1>5. ASSUME q.id # None
      PROVE  InChain(q) <=> q.id \in Range(chain) \cup Mined
  BY <1>5 DEF InChain
<1>6. ASSUME q.id \in Range(chain) \cup Mined
      PROVE  InChain(q)
  BY <1>1, <1>2, <1>3, <1>5, <1>6
<1>7. ASSUME q.id \in Blocks \ Range(chain)
      PROVE  ~InChain(q) /\ q.id \notin pool
  BY <1>1, <1>2, <1>3, <1>5, <1>7
<1>8. ASSUME q.id \in Txs, ~Known(q.id)
      PROVE  ~InChain(q) /\ q.id \notin pool
  BY <1>1, <1>2, <1>3, <1>5, <1>8 DEF Known
<1>9. ASSUME q.id = None
      PROVE  q.id \notin pool
  BY <1>1, <1>3, <1>9
<1>10. QED
  BY <1>4, <1>6, <1>7, <1>8, <1>9 DEF Facts

\* What a query asks for.
LEMMA QueryIds ==
    \A q \in Queries : /\ q.id \in Ids \cup {None} /\ q.from \in Nat
                       /\ q.height \in Nat
                       /\ q.by \in {"tx", "block", "search"}
                       /\ q.by = "tx" => q.id # None
  BY QueryAssumption DEF Ids

-----------------------------------------------------------------------------
(* What a lookup becomes *)

\* GetTx has the transaction, whatever it does next.
Got(j) ==
    /\ j \in JobType /\ IsInjective(j.parents) /\ Noted(j)
    /\ IF j.block = None THEN Alone(j) ELSE InRow(j)
    /\ j.tx \in Txs
    /\ j.inBlock # None => j.inBlock \in Range(chain) \/ Shaken(j)
    /\ j.block = None =>
          (IF j.inBlock = None THEN "pending" ELSE "confirmed") \in j.facts

\* GetTx that has gone past its first call has its transaction.
LEMMA GotIt ==
    ASSUME NEW j, JobOK(j), j.at \in TxSteps \ {"raw"}
    PROVE  Got(j)
  BY DEF JobOK, Placed, Got, Steps

\* An answer that the facts justify.
LEMMA DoneOK ==
    ASSUME NEW j \in JobType, IsInjective(j.parents),
           NEW answer \in {"notfound", "cached", "fresh", "error"},
           answer = "notfound" => Unknown(j),
           answer = "cached" => "confirmed" \in j.facts,
           answer = "fresh" => "pending" \in j.facts,
           answer = "error" => Shaken(j)
    PROVE  JobOK(Done(j, answer))
<1>1. PICK k : k = Done(j, answer)
  OBVIOUS
<1>2. /\ k \in JobType /\ k.at = "done" /\ k.said = answer
      /\ k.facts = j.facts /\ k.parents = j.parents
  BY <1>1 DEF Done, JobType
<1>3. Answered(k)
  BY <1>2 DEF Answered, Unknown, Shaken
<1>4. JobOK(k)
  BY <1>2, <1>3 DEF JobOK, Steps, TxSteps
<1>5. QED
  BY <1>1, <1>4

\* A lookup that begins, or tries once more.
LEMMA BeginOK ==
    ASSUME NEW j \in JobType, Noted(j), NEW what \in {"tx", "block", "height"},
           what = "tx" => /\ j.query.id # None /\ j.tries # <<"tx">>
                          /\ j.query.id \in Txs \/ Unknown(j) \/ j.tries # <<>>,
           what = "block" =>
              /\ j.query.id # None /\ j.tries # <<"block">>
              /\ j.query.id \in Blocks \/ Unknown(j) \/ j.tries # <<>>,
           what = "height" => j.query.id = None /\ j.tries = <<>>
    PROVE  JobOK(Begin(j, what))
<1>1. PICK k : k = Begin(j, what)
  OBVIOUS
<1>2. j.query.id \in Ids \cup {None}
  BY QueryIds DEF Noted
<1>3. <<>> \in Seq(Txs) /\ IsInjective(<<>>)
  BY DEF IsInjective
<1>4. /\ k \in JobType /\ k.parents = <<>> /\ k.facts = j.facts
      /\ k.query = j.query /\ k.tries = j.tries /\ k.input = 1
      /\ k.at = CASE what = "tx" -> "raw" [] what = "block" -> "block"
                  [] what = "height" -> "hash"
      /\ k.tx = IF what = "tx" THEN j.query.id ELSE None
      /\ k.block = IF what = "block" THEN j.query.id ELSE None
  <2>1. PICK at, tx, block :
           /\ at = CASE what = "tx" -> "raw" [] what = "block" -> "block"
                     [] what = "height" -> "hash"
           /\ tx = IF what = "tx" THEN j.query.id ELSE None
           /\ block = IF what = "block" THEN j.query.id ELSE None
    OBVIOUS
  <2>2. k = [j EXCEPT !.at = at, !.tx = tx, !.block = block, !.input = 1,
                      !.parents = <<>>]
    BY <1>1, <2>1 DEF Begin
  <2>3. /\ at \in Steps \cup {"idle", "done"} /\ tx \in Ids \cup {None}
        /\ block \in Ids \cup {None}
    BY <1>2, <2>1 DEF Steps, TxSteps
  <2>4. QED
    BY <1>3, <2>1, <2>2, <2>3 DEF JobType
<1>5. Noted(k)
  BY <1>4 DEF Noted
<1>6. CASE what = "tx"
  <2>1. k.at = "raw" /\ k.block = None /\ Alone(k)
    BY <1>4, <1>6 DEF Alone, Unknown
  <2>2. QED
    BY <1>1, <1>3, <1>4, <1>5, <2>1 DEF JobOK, Steps, TxSteps
<1>7. CASE what = "block"
  <2>1. k.at = "block" /\ AtBlock(k)
    BY <1>4, <1>7 DEF AtBlock, Unknown
  <2>2. QED
    BY <1>1, <1>3, <1>4, <1>5, <2>1 DEF JobOK, Steps, TxSteps
<1>8. CASE what = "height"
  <2>1. k.at = "hash" /\ k.query.id = None /\ k.tries = <<>>
    BY <1>4, <1>8
  <2>2. QED
    BY <1>1, <1>3, <1>4, <1>5, <2>1 DEF JobOK, Steps, TxSteps
<1>9. QED
  BY <1>6, <1>7, <1>8

\* A lookup that does not find what it tried, ...
LEMMA NotFoundOK ==
    ASSUME NEW j \in JobType, IsInjective(j.parents), Noted(j),
           j.tries = <<>> => Unknown(j),
           j.tries = <<"tx">> => j.query.id \in Txs \/ Unknown(j),
           j.tries = <<"block">> => j.query.id \in Blocks \/ Unknown(j)
    PROVE  JobOK(NotFound(j))
<1>1. CASE j.tries = <<>>
  BY <1>1, DoneOK DEF NotFound
<1>2. CASE j.tries # <<>>
  <2>1. PICK k : k = [j EXCEPT !.tries = Tail(@)]
    OBVIOUS
  <2>2. j.tries \in {<<"tx">>, <<"block">>}
    BY <1>2 DEF JobType
  <2>3. Tail(j.tries) = <<>> /\ Head(j.tries) \in {"tx", "block"}
    <3>1. \A w \in {"tx", "block"} : Head(<<w>>) = w /\ Tail(<<w>>) = <<>>
      OBVIOUS
    <3>2. QED
      BY <2>2, <3>1
  <2>4. /\ k \in JobType /\ k.tries = <<>> /\ k.query = j.query
        /\ k.facts = j.facts
    BY <2>1, <2>3 DEF JobType
  <2>5. Noted(k) /\ k.query.id # None
    BY <1>2, <2>4 DEF Noted
  <2>6. /\ Head(j.tries) = "tx" => j.tries = <<"tx">>
        /\ Head(j.tries) = "block" => j.tries = <<"block">>
    BY <2>2
  <2>7. JobOK(Begin(k, Head(j.tries)))
    <3>1. /\ Head(j.tries) = "tx" => k.query.id \in Txs \/ Unknown(k)
          /\ Head(j.tries) = "block" => k.query.id \in Blocks \/ Unknown(k)
      BY <2>4, <2>6 DEF Unknown
    <3>2. k.tries # <<"tx">> /\ k.tries # <<"block">>
      BY <2>4
    <3>3. QED
      BY <2>3, <2>4, <2>5, <3>1, <3>2, BeginOK
  <2>8. QED
    BY <1>2, <2>1, <2>7 DEF NotFound
<1>3. QED
  BY <1>1, <1>2

\* ... by GetTx, for itself or for a row of a block.
LEMMA TxNotFoundOK ==
    ASSUME NodeOK, NEW j, JobOK(j), j.at = "raw",
           ~(j.tx \in Txs /\ Known(j.tx))
    PROVE  JobOK(TxNotFound(j))
<1>1. /\ j \in JobType /\ IsInjective(j.parents) /\ Noted(j)
      /\ IF j.block = None THEN Alone(j) ELSE InRow(j)
  BY DEF JobOK, Steps, TxSteps
<1>2. /\ j.query \in Queries /\ Facts(j.query) \subseteq j.facts
      /\ j.query.id \in Ids \cup {None}
  BY <1>1, QueryIds DEF Noted
<1>3. CASE j.block = None
  <2>1. Alone(j)
    BY <1>1, <1>3
  <2>2. j.query.id \in Txs => Unknown(j)
    BY <1>2, <2>1, Truth DEF Alone, Unknown
  <2>3. JobOK(NotFound(j))
    BY <1>1, <1>2, <2>1, <2>2, NotFoundOK DEF Alone, Ids
  <2>4. QED
    BY <1>3, <2>3 DEF TxNotFound
<1>4. CASE j.block # None
  <2>1. InRow(j)
    BY <1>1, <1>4
  <2>2. j.tx \in Txs
    BY <2>1, BlockFacts DEF InRow
  <2>3. j.block \in Blocks \ Range(chain) /\ Shaken(j)
    BY <2>1, <2>2 DEF InRow, Known, Mined, TxsOf
  <2>4. CASE j.query.by = "search" /\ j.query.id # None
    <3>1. j.query.id = j.block
      BY <2>1, <2>4 DEF InRow
    <3>2. Unknown(j)
      BY <1>2, <2>3, <3>1, Truth DEF Unknown
    <3>3. JobOK(NotFound(j))
      BY <1>1, <3>2, NotFoundOK
    <3>4. QED
      BY <2>4, <3>3 DEF TxNotFound
  <2>5. CASE ~(j.query.by = "search" /\ j.query.id # None)
    <3>1. JobOK(Done(j, "error"))
      BY <1>1, <2>3, DoneOK
    <3>2. QED
      BY <1>4, <2>5, <3>1 DEF TxNotFound
  <2>6. QED
    BY <2>4, <2>5
<1>5. QED
  BY <1>3, <1>4

\* A block whose transactions a lookup goes through.
InBlock(j) ==
    /\ j \in JobType /\ IsInjective(j.parents) /\ Noted(j)
    /\ j.block \in Blocks /\ j.query.id \in {None, j.block}
    /\ "confirmed" \in j.facts
    /\ j.block \in Range(chain) \/ Shaken(j)
    /\ j.tries # <<"block">>

\* The first call for a row of a block, ...
LEMMA RowOK ==
    ASSUME NEW j, InBlock(j), NEW row \in Nat, row <= Len(BlockTxs[j.block])
    PROVE  JobOK(Row(j, row))
<1>1. PICK k : k = Row(j, row)
  OBVIOUS
<1>2. PICK t : t = BlockTxs[j.block][IF row = 0 THEN 1 ELSE row]
  OBVIOUS
<1>3. t \in Range(BlockTxs[j.block]) /\ t \in Txs
  <2>1. BlockTxs[j.block] \in Seq(Txs) /\ BlockTxs[j.block] # <<>>
    BY BlockAssumption DEF InBlock
  <2>2. PICK i \in DOMAIN BlockTxs[j.block] : t = BlockTxs[j.block][i]
    BY <1>2, <2>1
  <2>3. QED
    BY <2>1, <2>2 DEF Range
<1>4. k = [j EXCEPT !.at = "raw", !.row = row, !.input = 1, !.parents = <<>>,
                    !.tx = t]
  BY <1>1, <1>2 DEF Row
<1>5. <<>> \in Seq(Txs) /\ IsInjective(<<>>)
  BY DEF IsInjective
<1>6. /\ k \in JobType /\ k.at = "raw" /\ k.tx = t /\ k.parents = <<>>
      /\ k.input = 1
      /\ k.query = j.query /\ k.tries = j.tries /\ k.block = j.block
      /\ k.facts = j.facts
  BY <1>3, <1>4, <1>5 DEF InBlock, JobType, Steps, TxSteps, Ids
<1>7. Noted(k) /\ InRow(k) /\ k.block # None
  BY <1>3, <1>6, IdAssumption DEF InBlock, Noted, InRow, Shaken
<1>8. JobOK(k)
  BY <1>5, <1>6, <1>7 DEF JobOK, Steps, TxSteps
<1>9. QED
  BY <1>1, <1>8

\* ... if there is one more on the page.
LEMMA NextRowOK ==
    ASSUME NEW j, InBlock(j), NEW row \in Nat
    PROVE  JobOK(NextRow(j, row))
<1>1. CASE row <= Len(BlockTxs[j.block]) /\ row <= j.query.from + Limit
  BY <1>1, RowOK DEF NextRow
<1>2. CASE /\ ~(row <= Len(BlockTxs[j.block]) /\ row <= j.query.from + Limit)
           /\ Len(BlockTxs[j.block]) >= 2 /\ j.query.from > 0
  <2>1. BlockTxs[j.block] \in Seq(Txs)
    BY BlockAssumption DEF InBlock
  <2>2. JobOK(Row(j, 0))
    BY <2>1, RowOK
  <2>3. QED
    BY <1>2, <2>2 DEF NextRow
<1>3. CASE /\ ~(row <= Len(BlockTxs[j.block]) /\ row <= j.query.from + Limit)
           /\ ~(Len(BlockTxs[j.block]) >= 2 /\ j.query.from > 0)
  <2>1. JobOK(Done(j, "cached"))
    BY DoneOK DEF InBlock
  <2>2. QED
    BY <1>3, <2>1 DEF NextRow
<1>4. QED
  BY <1>1, <1>2, <1>3

\* GetTx has all it wants.
LEMMA GotTxOK ==
    ASSUME NEW j, Got(j), NEW confirmed \in BOOLEAN,
           confirmed <=> j.inBlock # None
    PROVE  JobOK(GotTx(j, confirmed))
<1>1. CASE j.block = None
  <2>1. JobOK(Done(j, IF confirmed THEN "cached" ELSE "fresh"))
    BY <1>1, DoneOK DEF Got
  <2>2. QED
    BY <1>1, <2>1 DEF GotTx
<1>2. CASE j.block # None
  <2>1. InBlock(j) /\ j.row \in Nat
    BY <1>2 DEF Got, InBlock, InRow, JobType
  <2>2. JobOK(Done(j, "cached"))
    BY <2>1, DoneOK DEF InBlock
  <2>3. JobOK(NextRow(j, j.row + 1))
    BY <2>1, NextRowOK
  <2>4. QED
    BY <1>2, <2>2, <2>3 DEF GotTx
<1>3. QED
  BY <1>1, <1>2

\* GetTx goes on to say where the transaction is.
LEMMA PositionOK ==
    ASSUME NEW j, Got(j)
    PROVE  JobOK(Position(j))
<1>1. PICK k : k = Position(j)
  OBVIOUS
<1>2. PICK at : at = IF j.inBlock # None THEN "header" ELSE "pending"
  OBVIOUS
<1>3. k = [j EXCEPT !.at = at] /\ at \in {"header", "pending"}
  BY <1>1, <1>2 DEF Position
<1>4. /\ k \in JobType /\ k.at = at /\ k.query = j.query /\ k.tries = j.tries
      /\ k.block = j.block /\ k.tx = j.tx /\ k.inBlock = j.inBlock
      /\ k.parents = j.parents /\ k.facts = j.facts
  BY <1>3 DEF Got, JobType, Steps, TxSteps
<1>5. Noted(k) /\ IF k.block = None THEN Alone(k) ELSE InRow(k)
  BY <1>4 DEF Got, Noted, Alone, InRow, Unknown, Shaken
<1>6. Placed(k)
  BY <1>2, <1>3, <1>4 DEF Got, Placed, Shaken
<1>7. JobOK(k)
  BY <1>3, <1>4, <1>5, <1>6 DEF Got, JobOK, Steps, TxSteps
<1>8. QED
  BY <1>1, <1>7

\* GetTx is at an input that exists, and knows of no parent that is gone.
AtInput(j) ==
    /\ j.at = "input" /\ j.input \in 1..Len(Inputs[j.tx])
    /\ (\A p \in Parents(j.tx) : Known(p)) \/ Shaken(j)

\* GetTx is about to look at an input, ...
LEMMA InputOK ==
    ASSUME NEW j, Got(j), AtInput(j)
    PROVE  JobOK(j)
<1>1. Placed(j)
  BY DEF Got, AtInput, Placed
<1>2. QED
  BY <1>1 DEF Got, AtInput, JobOK, Steps, TxSteps

\* ... and is done with it.
LEMMA AfterInputOK ==
    ASSUME NEW j, Got(j), AtInput(j)
    PROVE  JobOK(AfterInput(j))
<1>1. CASE j.input = Len(Inputs[j.tx])
  BY <1>1, PositionOK DEF AfterInput
<1>2. CASE j.input # Len(Inputs[j.tx])
  <2>1. PICK k : k = [j EXCEPT !.input = @ + 1]
    OBVIOUS
  <2>2. Len(Inputs[j.tx]) \in Nat
    BY InputAssumption DEF Got
  <2>3. /\ k \in JobType /\ k.at = j.at /\ k.query = j.query /\ k.tries = j.tries
        /\ k.block = j.block /\ k.tx = j.tx /\ k.inBlock = j.inBlock
        /\ k.parents = j.parents /\ k.facts = j.facts /\ k.input = j.input + 1
    BY <2>1 DEF Got, JobType
  <2>4. Got(k)
    BY <2>3 DEF Got, Noted, Alone, InRow, Unknown, Shaken
  <2>5. AtInput(k)
    BY <1>2, <2>2, <2>3 DEF AtInput, Shaken
  <2>6. QED
    BY <1>2, <2>1, <2>4, <2>5, InputOK DEF AfterInput
<1>3. QED
  BY <1>1, <1>2

-----------------------------------------------------------------------------
(* The steps of a lookup *)

\* While the node does not change, what a lookup knows stays true.
LEMMA NodeSame ==
    ASSUME IInv, UNCHANGED node
    PROVE  NodeOK' /\ \A i : JobOK(i) => JobOK(i)'
<1>1. UNCHANGED <<chain, stale, pool>>
  BY DEF node
<1>2. NodeOK'
  <2>1. NodeOK
    BY DEF IInv
  <2>2. Mined' = Mined /\ Settled' = Settled
        /\ TxsOf(Range(Front(chain)))' = TxsOf(Range(Front(chain)))
    BY <1>1 DEF Mined, Settled, TxsOf
  <2>3. \A t : Known(t)' <=> Known(t)
    BY <1>1, <2>2 DEF Known
  <2>4. QED
    BY <1>1, <2>1, <2>2, <2>3 DEF NodeOK
<1>3. \A i : JobOK(i) => JobOK(i)'
  <2>1. TAKE i
  <2>2. Mined' = Mined
    BY <1>1 DEF Mined, TxsOf
  <2>3. \A q : Facts(q)' = Facts(q)
    BY <1>1, <2>2 DEF Facts, InChain
  <2>4. Noted(i)' <=> Noted(i)
    BY <2>3 DEF Noted
  <2>5. /\ Alone(i)' <=> Alone(i)
        /\ InRow(i)' <=> InRow(i)
        /\ AtBlock(i)' <=> AtBlock(i)
        /\ Answered(i)' <=> Answered(i)
    BY <1>1 DEF Alone, InRow, AtBlock, Answered, Unknown, Shaken
  <2>6. \A t : Known(t)' <=> Known(t)
    BY <1>1, <2>2 DEF Known
  <2>7. Placed(i)' <=> Placed(i)
    BY <1>1, <2>6 DEF Placed, Shaken
  <2>8. QED
    BY <2>4, <2>5, <2>7 DEF JobOK
<1>4. QED
  BY <1>2, <1>3

\* A step of one lookup, the node staying as it is.
LEMMA StepKeeps ==
    ASSUME IInv, NEW r \in Requests, NEW j, JobOK(j), Set(r, j), UNCHANGED node
    PROVE  IInv'
<1>1. job \in [Requests -> JobType] /\ job' = [job EXCEPT ![r] = j] /\ j \in JobType
  BY DEF IInv, Set, JobOK
<1>2. job' \in [Requests -> JobType]
  BY <1>1
<1>3. ASSUME NEW s \in Requests
      PROVE  JobOK(job[s])'
  <2>1. PICK i : i = job'[s]
    OBVIOUS
  <2>2. JobOK(i)
    BY <1>1, <2>1 DEF IInv
  <2>3. QED
    BY <2>1, <2>2, NodeSame
<1>4. QED
  BY <1>2, <1>3, NodeSame DEF IInv

\* A first and a second try are told apart.
LEMMA TriesDiffer ==
    <<"tx">> # <<"block">> /\ <<>> # <<"tx">> /\ <<>> # <<"block">>
<1>1. \A v, w : <<v>> = <<w>> => v = w
  OBVIOUS
<1>2. QED
  BY <1>1

\* The steps of a lookup, each by itself.
LEMMA StartStep ==
    ASSUME IInv, NEW r \in Requests, Start(r)
    PROVE  IInv'
<1>1. PICK q \in Queries :
        LET order == CASE q.id = None -> <<"height">>
                       [] q.id # None /\ q.by # "search" -> <<q.by>>
                       [] q.id # None /\ q.by = "search" ->
                            IF q.id \in LooksMined THEN <<"block", "tx">>
                            ELSE <<"tx", "block">>
        IN  /\ Set(r, Begin([Idle EXCEPT !.query = q, !.tries = Tail(order),
                                         !.facts = Facts(q)], Head(order)))
            /\ UNCHANGED node
  BY DEF Start
<1>2. PICK order : order = CASE q.id = None -> <<"height">>
                       [] q.id # None /\ q.by # "search" -> <<q.by>>
                       [] q.id # None /\ q.by = "search" ->
                            IF q.id \in LooksMined THEN <<"block", "tx">>
                            ELSE <<"tx", "block">>
  OBVIOUS
<1>3. PICK k : k = [Idle EXCEPT !.query = q, !.tries = Tail(order),
                                !.facts = Facts(q)]
  OBVIOUS
<1>4. Set(r, Begin(k, Head(order))) /\ UNCHANGED node
  BY <1>1, <1>2, <1>3, Zenon
<1>5. /\ q.by \in {"tx", "block", "search"}
      /\ q.id \in Ids \cup {None} /\ (q.by = "tx" => q.id # None)
  BY QueryIds
<1>6. PICK what, rest : what = Head(order) /\ rest = Tail(order)
  OBVIOUS
<1>7. \/ what = "height" /\ rest = <<>> /\ q.id = None
      \/ /\ what \in {"tx", "block"} /\ rest = <<>> /\ q.id # None /\ q.by = what
      \/ /\ what = "tx" /\ rest = <<"block">> /\ q.id # None /\ q.by = "search"
      \/ /\ what = "block" /\ rest = <<"tx">> /\ q.id # None /\ q.by = "search"
  <2>1. /\ \A w \in {"height", "tx", "block"} : Head(<<w>>) = w /\ Tail(<<w>>) = <<>>
        /\ \A v, w \in {"tx", "block"} : Head(<<v, w>>) = v /\ Tail(<<v, w>>) = <<w>>
    OBVIOUS
  <2>2. QED
    BY <1>2, <1>5, <1>6, <2>1
<1>8. /\ k \in JobType /\ k.query = q /\ k.tries = rest /\ k.facts = Facts(q)
  <2>1. rest \in {<<>>, <<"tx">>, <<"block">>}
    BY <1>7
  <2>2. <<>> \in Seq(Txs) /\ Facts(q) \in SUBSET FactNames
    BY FactsAreNames
  <2>3. QED
    BY <1>3, <1>6, <2>1, <2>2 DEF Idle, JobType
<1>9. Noted(k)
  BY <1>7, <1>8 DEF Noted
<1>10. /\ q.by = "tx" /\ q.id \in Blocks => Unknown(k)
       /\ q.by = "block" /\ q.id \in Txs => Unknown(k)
  BY <1>8, Truth DEF IInv, Unknown
<1>11. JobOK(Begin(k, what))
  <2> USE TriesDiffer
  <2>1. what = "tx" => /\ k.query.id # None /\ k.tries # <<"tx">>
                       /\ k.query.id \in Txs \/ Unknown(k) \/ k.tries # <<>>
    BY <1>5, <1>7, <1>8, <1>10 DEF Ids
  <2>2. what = "block" =>
              /\ k.query.id # None /\ k.tries # <<"block">>
              /\ k.query.id \in Blocks \/ Unknown(k) \/ k.tries # <<>>
    BY <1>5, <1>7, <1>8, <1>10 DEF Ids
  <2>3. what \in {"tx", "block", "height"}
        /\ (what = "height" => k.query.id = None /\ k.tries = <<>>)
    BY <1>7, <1>8
  <2>4. QED
    BY <1>8, <1>9, <2>1, <2>2, <2>3, BeginOK
<1>12. QED
  BY <1>4, <1>6, <1>11, StepKeeps

\* What IInv says of a lookup that is at GetTx.
LEMMA AtRaw ==
    ASSUME NEW j, JobOK(j), j.at = "raw"
    PROVE  /\ j \in JobType /\ IsInjective(j.parents) /\ Noted(j)
           /\ IF j.block = None THEN Alone(j) ELSE InRow(j)
  BY DEF JobOK, Steps, TxSteps

\* A transaction is found, or is not.
LEMMA GetRawTransactionStep ==
    ASSUME IInv, NEW r \in Requests, GetRawTransaction(r)
    PROVE  IInv'
<1>1. PICK j : j = job[r]
  OBVIOUS
<1>2. PICK raw : raw = [j EXCEPT !.inBlock = BlockOf(j.tx)]
  OBVIOUS
<1>3. PICK k : k = IF ~(j.tx \in Txs /\ Known(j.tx)) THEN TxNotFound(j)
                   ELSE IF Coinbase(j.tx) THEN Position(raw)
                   ELSE [raw EXCEPT !.at = "input"]
  OBVIOUS
<1>4. j.at = "raw" /\ Set(r, k) /\ UNCHANGED node
  BY <1>1, <1>2, <1>3 DEF GetRawTransaction
<1>5. NodeOK /\ JobOK(j)
  BY <1>1 DEF IInv
<1>6. CASE ~(j.tx \in Txs /\ Known(j.tx))
  <2>1. JobOK(k)
    BY <1>3, <1>4, <1>5, <1>6, TxNotFoundOK
  <2>2. QED
    BY <1>4, <2>1, StepKeeps
<1>7. CASE j.tx \in Txs /\ Known(j.tx)
  <2>1. /\ j \in JobType /\ IsInjective(j.parents) /\ Noted(j)
        /\ IF j.block = None THEN Alone(j) ELSE InRow(j)
    BY <1>4, <1>5, AtRaw
  <2>2. PICK b : b = BlockOf(j.tx)
    OBVIOUS
  <2>3. /\ b \in Range(chain) \cup {None}
        /\ b = None <=> j.tx \notin Mined
    <3>1. Range(chain) \subseteq Blocks /\ None \notin Blocks
      BY <1>5, IdAssumption DEF NodeOK, Range
    <3>2. j.tx \in Mined => \E c \in Range(chain) : j.tx \in Range(BlockTxs[c])
      BY DEF Mined, TxsOf
    <3>3. QED
      BY <2>2, <3>1, <3>2 DEF BlockOf
  <2>4. Range(chain) \subseteq Blocks
    BY <1>5 DEF NodeOK, Range
  <2>5. /\ raw \in JobType /\ raw.inBlock = b /\ raw.at = j.at
        /\ raw.query = j.query /\ raw.tries = j.tries /\ raw.block = j.block
        /\ raw.tx = j.tx /\ raw.parents = j.parents /\ raw.facts = j.facts
        /\ raw.input = j.input
    BY <1>2, <2>1, <2>2, <2>3, <2>4 DEF JobType
  <2>6. raw.block = None =>
          (IF raw.inBlock = None THEN "pending" ELSE "confirmed") \in raw.facts
    <3>1. SUFFICES ASSUME raw.block = None
                   PROVE  (IF b = None THEN "pending" ELSE "confirmed") \in j.facts
      BY <2>5
    <3>2. j.query \in Queries /\ Facts(j.query) \subseteq j.facts /\ j.query.id = j.tx
      BY <2>1, <2>5, <3>1 DEF Noted, Alone
    <3>3. j.tx \in Mined => "confirmed" \in Facts(j.query)
      BY <1>5, <3>2, Truth
    <3>4. j.tx \in pool => "pending" \in Facts(j.query)
      BY <1>5, <3>2, Truth
    <3>5. QED
      BY <1>7, <2>3, <3>2, <3>3, <3>4 DEF Known
  <2>7. Got(raw)
    BY <1>7, <2>1, <2>3, <2>5, <2>6
       DEF Got, Noted, Alone, InRow, Unknown, Shaken
  <2>8. CASE Coinbase(j.tx)
    <3>1. JobOK(k)
      BY <1>3, <1>7, <2>7, <2>8, PositionOK
    <3>2. QED
      BY <1>4, <3>1, StepKeeps
  <2>9. CASE ~Coinbase(j.tx)
    <3>1. k = [raw EXCEPT !.at = "input"]
      BY <1>3, <1>7, <2>9
    <3>2. /\ k \in JobType /\ k.at = "input" /\ k.inBlock = raw.inBlock
          /\ k.query = raw.query /\ k.tries = raw.tries /\ k.block = raw.block
          /\ k.tx = raw.tx /\ k.parents = raw.parents /\ k.facts = raw.facts
          /\ k.input = raw.input
      BY <2>5, <3>1 DEF JobType, Steps, TxSteps
    <3>3. Got(k)
      BY <2>7, <3>2 DEF Got, Noted, Alone, InRow, Unknown, Shaken
    <3>4. AtInput(k)
      <4>1. Inputs[j.tx] \in Seq(Txs \X Nat) /\ Inputs[j.tx] # <<>>
        BY <1>7, <2>9, InputAssumption DEF Coinbase
      <4>2. 1 \in 1..Len(Inputs[j.tx])
        BY <4>1
      <4>3. k.input = 1
        BY <1>4, <1>5, <2>5, <3>2 DEF JobOK
      <4>4. \A p \in Parents(j.tx) : Known(p)
        BY <1>5, <1>7 DEF NodeOK
      <4>5. QED
        BY <2>5, <3>2, <4>2, <4>3, <4>4 DEF AtInput
    <3>5. JobOK(k)
      BY <3>3, <3>4, InputOK
    <3>6. QED
      BY <1>4, <3>5, StepKeeps
  <2>10. QED
    BY <2>8, <2>9
<1>8. QED
  BY <1>6, <1>7

\* What IInv says of a lookup that is at an input.
LEMMA AtAnInput ==
    ASSUME NEW j, JobOK(j), j.at = "input"
    PROVE  Got(j) /\ AtInput(j) /\ Outpoint(j)[1] \in Parents(j.tx)
<1>1. Got(j)
  BY GotIt DEF TxSteps
<1>2. AtInput(j)
  BY DEF JobOK, Placed, AtInput, TxSteps
<1>3. Inputs[j.tx] \in Seq(Txs \X Nat)
  BY <1>1, InputAssumption DEF Got
<1>4. j.input \in DOMAIN Inputs[j.tx]
  BY <1>2, <1>3 DEF AtInput
<1>5. QED
  BY <1>1, <1>2, <1>4 DEF Outpoint, Parents

\* CachedInput and ParentInput: the input is resolved without a call.
LEMMA ResolvedStep ==
    ASSUME IInv, NEW r \in Requests, CachedInput(r) \/ ParentInput(r)
    PROVE  IInv'
<1>1. PICK j : j = job[r]
  OBVIOUS
<1>2. j.at = "input" /\ Set(r, AfterInput(j)) /\ UNCHANGED node
  BY <1>1 DEF CachedInput, ParentInput
<1>3. JobOK(j)
  BY <1>1 DEF IInv
<1>4. JobOK(AfterInput(j))
  BY <1>2, <1>3, AtAnInput, AfterInputOK
<1>5. QED
  BY <1>2, <1>4, StepKeeps

\* A parent that was not there is one more, and still each is there once.
LEMMA OneMore ==
    ASSUME NEW s \in Seq(Txs), IsInjective(s), NEW p \in Txs, p \notin Range(s)
    PROVE  Append(s, p) \in Seq(Txs) /\ IsInjective(Append(s, p))
<1>1. PICK u : u = Append(s, p)
  OBVIOUS
<1>2. /\ Len(s) \in Nat /\ DOMAIN s = 1..Len(s)
      /\ u \in Seq(Txs) /\ DOMAIN u = 1..Len(s) + 1
      /\ u[Len(s) + 1] = p /\ \A i \in 1..Len(s) : u[i] = s[i]
  BY <1>1
<1>3. IsInjective(u)
  BY <1>2 DEF IsInjective, Range
<1>4. QED
  BY <1>1, <1>2, <1>3

\* A parent that no cache has is fetched.
LEMMA FetchParentStep ==
    ASSUME IInv, NEW r \in Requests, FetchParent(r)
    PROVE  IInv'
<1>1. PICK j : j = job[r]
  OBVIOUS
<1>2. PICK p : p = Outpoint(j)[1]
  OBVIOUS
<1>3. /\ j.at = "input" /\ p \notin Range(j.parents) /\ UNCHANGED node
      /\ IF Known(p) THEN Set(r, AfterInput([j EXCEPT !.parents = Append(@, p)]))
         ELSE Set(r, Done(j, "error"))
  BY <1>1, <1>2 DEF FetchParent, Fetches
<1>4. JobOK(j)
  BY <1>1 DEF IInv
<1>5. Got(j) /\ AtInput(j) /\ p \in Parents(j.tx)
  BY <1>2, <1>3, <1>4, AtAnInput
<1>6. CASE Known(p)
  <2>1. PICK k : k = [j EXCEPT !.parents = Append(@, p)]
    OBVIOUS
  <2>2. PICK more : more = Append(j.parents, p)
    OBVIOUS
  <2>3. more \in Seq(Txs) /\ IsInjective(more)
    <3>1. p \in Txs
      BY <1>5, ParentFacts DEF Got
    <3>2. j.parents \in Seq(Txs) /\ IsInjective(j.parents)
      BY <1>5 DEF Got, JobType
    <3>3. QED
      BY <1>3, <2>2, <3>1, <3>2, OneMore
  <2>4. /\ k \in JobType /\ k.at = j.at /\ k.query = j.query /\ k.tries = j.tries
        /\ k.block = j.block /\ k.tx = j.tx /\ k.inBlock = j.inBlock
        /\ k.parents = more /\ k.facts = j.facts /\ k.input = j.input
    BY <1>5, <2>1, <2>2, <2>3 DEF Got, JobType
  <2>5. Got(k)
    BY <1>5, <2>3, <2>4 DEF Got, Noted, Alone, InRow, Unknown, Shaken
  <2>6. AtInput(k)
    BY <1>5, <2>4 DEF AtInput, Shaken
  <2>7. QED
    BY <1>3, <1>6, <2>1, <2>5, <2>6, AfterInputOK, StepKeeps
<1>7. CASE ~Known(p)
  <2>1. Shaken(j)
    BY <1>5, <1>7 DEF AtInput
  <2>2. JobOK(Done(j, "error"))
    BY <1>5, <2>1, DoneOK DEF Got
  <2>3. QED
    BY <1>3, <1>7, <2>2, StepKeeps
<1>8. QED
  BY <1>6, <1>7

\* The header of the block it is in is had or asked for.
LEMMA HeaderStep ==
    ASSUME IInv, NEW r \in Requests, Header(r)
    PROVE  IInv'
<1>1. PICK j : j = job[r]
  OBVIOUS
<1>2. /\ j.at = "header" /\ UNCHANGED node
      /\ \/ Set(r, GotTx(j, TRUE))
         \/ j.inBlock \notin Range(chain) /\ Set(r, Done(j, "error"))
  BY <1>1 DEF Header
<1>3. JobOK(j)
  BY <1>1 DEF IInv
<1>4. Got(j) /\ j.inBlock # None
  BY <1>2, <1>3, GotIt DEF JobOK, Placed, TxSteps
<1>5. CASE Set(r, GotTx(j, TRUE))
  BY <1>2, <1>4, <1>5, GotTxOK, StepKeeps
<1>6. CASE j.inBlock \notin Range(chain) /\ Set(r, Done(j, "error"))
  <2>1. Shaken(j)
    BY <1>4, <1>6 DEF Got
  <2>2. JobOK(Done(j, "error"))
    BY <1>4, <2>1, DoneOK DEF Got
  <2>3. QED
    BY <1>2, <1>6, <2>2, StepKeeps
<1>7. QED
  BY <1>2, <1>5, <1>6

\* A pending transaction is looked for in the snapshot.
LEMMA PendingStep ==
    ASSUME IInv, NEW r \in Requests, Pending(r)
    PROVE  IInv'
<1>1. PICK j : j = job[r]
  OBVIOUS
<1>2. j.at = "pending" /\ UNCHANGED node /\ Set(r, GotTx(j, FALSE)) /\ JobOK(j)
  BY <1>1 DEF Pending, IInv
<1>3. Got(j) /\ j.inBlock = None
  BY <1>2, GotIt DEF JobOK, Placed, TxSteps
<1>4. QED
  BY <1>2, <1>3, GotTxOK, StepKeeps

\* A height has a block, or is above the tip.
LEMMA GetBlockHashStep ==
    ASSUME IInv, NEW r \in Requests, GetBlockHash(r)
    PROVE  IInv'
<1>1. PICK j : j = job[r]
  OBVIOUS
<1>2. /\ j.at = "hash" /\ UNCHANGED node /\ JobOK(j) /\ NodeOK
      /\ Set(r, IF j.query.height < Len(chain)
                THEN [j EXCEPT !.at = "block", !.block = chain[j.query.height + 1]]
                ELSE NotFound(j))
  BY <1>1 DEF GetBlockHash, IInv
<1>3. /\ j \in JobType /\ IsInjective(j.parents) /\ Noted(j)
      /\ j.query.id = None /\ j.tries = <<>>
      /\ j.query \in Queries /\ Facts(j.query) \subseteq j.facts
  BY <1>2 DEF JobOK, Noted, Steps
<1>4. CASE j.query.height < Len(chain)
  <2>1. PICK b : b = chain[j.query.height + 1]
    OBVIOUS
  <2>2. PICK k : k = [j EXCEPT !.at = "block", !.block = b]
    OBVIOUS
  <2>3. b \in Range(chain) /\ b \in Blocks
    <3>1. chain \in Seq(Blocks) /\ j.query.height \in Nat
      BY <1>2, <1>3, QueryIds DEF NodeOK
    <3>2. j.query.height + 1 \in DOMAIN chain
      BY <1>4, <3>1
    <3>3. QED
      BY <2>1, <3>1, <3>2 DEF Range
  <2>4. /\ k \in JobType /\ k.at = "block" /\ k.query = j.query
        /\ k.tries = j.tries /\ k.block = b /\ k.facts = j.facts
        /\ k.parents = j.parents
    BY <1>3, <2>2, <2>3 DEF JobType, Steps, Ids
  <2>5. "confirmed" \in j.facts
    BY <1>2, <1>3, <1>4, Truth
  <2>6. Noted(k) /\ AtBlock(k)
    BY <1>3, <2>3, <2>4, <2>5, TriesDiffer DEF Noted, AtBlock
  <2>7. JobOK(k)
    BY <1>3, <2>4, <2>6 DEF JobOK, Steps, TxSteps
  <2>8. QED
    BY <1>2, <1>4, <2>1, <2>2, <2>7, StepKeeps
<1>5. CASE ~(j.query.height < Len(chain))
  <2>1. Unknown(j)
    BY <1>2, <1>3, <1>5, Truth DEF Unknown
  <2>2. JobOK(NotFound(j))
    BY <1>3, <2>1, TriesDiffer, NotFoundOK
  <2>3. QED
    BY <1>2, <1>5, <2>2, StepKeeps
<1>6. QED
  BY <1>4, <1>5

\* A block is found, or is not.
LEMMA GetBlockStep ==
    ASSUME IInv, NEW r \in Requests, GetBlock(r)
    PROVE  IInv'
<1>1. PICK j : j = job[r]
  OBVIOUS
<1>2. /\ j.at = "block" /\ UNCHANGED node /\ JobOK(j) /\ NodeOK
      /\ Set(r, IF j.block \in Range(chain) THEN NextRow(j, j.query.from + 1)
                ELSE IF j.block \in stale THEN Done(j, "error")
                ELSE NotFound(j))
  BY <1>1 DEF GetBlock, IInv
<1>3. /\ j \in JobType /\ IsInjective(j.parents) /\ Noted(j) /\ AtBlock(j)
      /\ j.query \in Queries /\ Facts(j.query) \subseteq j.facts
      /\ j.query.id \in Ids \cup {None} /\ j.query.from + 1 \in Nat
  BY <1>2, QueryIds DEF JobOK, Noted, Steps
<1>4. Range(chain) \subseteq Blocks /\ stale \subseteq Blocks
      /\ stale \cap Range(chain) = {}
  BY <1>2 DEF NodeOK, Range
<1>5. CASE j.block \in Range(chain)
  <2>1. "confirmed" \in j.facts
    BY <1>2, <1>3, <1>5, Truth DEF AtBlock
  <2>2. InBlock(j)
    BY <1>3, <1>4, <1>5, <2>1 DEF InBlock, AtBlock
  <2>3. QED
    BY <1>2, <1>3, <1>5, <2>2, NextRowOK, StepKeeps
<1>6. CASE j.block \in stale
  <2>1. Shaken(j)
    BY <1>2, <1>3, <1>4, <1>6, Truth DEF AtBlock, Shaken
  <2>2. JobOK(Done(j, "error"))
    BY <1>3, <2>1, DoneOK
  <2>3. QED
    BY <1>2, <1>4, <1>6, <2>2, StepKeeps
<1>7. CASE j.block \notin Range(chain) \cup stale
  <2>1. /\ j.block = j.query.id /\ j.query.id # None /\ j.tries # <<"block">>
        /\ j.query.id \in Blocks \/ Unknown(j) \/ j.tries # <<>>
    BY <1>3, <1>7 DEF AtBlock
  <2>2. j.query.id \in Blocks => Unknown(j)
    BY <1>2, <1>3, <1>7, <2>1, Truth DEF Unknown
  <2>3. JobOK(NotFound(j))
    BY <1>3, <2>1, <2>2, NotFoundOK DEF Ids
  <2>4. QED
    BY <1>2, <1>7, <2>3, StepKeeps
<1>8. QED
  BY <1>5, <1>6, <1>7

\* A call fails: something was taken away.
LEMMA FailsStep ==
    ASSUME IInv, NEW r \in Requests, Fails(r)
    PROVE  IInv'
<1>1. PICK j : j = job[r]
  OBVIOUS
<1>2. PICK k : k = [j EXCEPT !.facts = @ \cup {"shaken"}]
  OBVIOUS
<1>3. Set(r, Done(k, "error")) /\ UNCHANGED node
  BY <1>1, <1>2 DEF Fails
<1>4. j \in JobType /\ IsInjective(j.parents)
  BY <1>1 DEF IInv, JobOK
<1>5. k \in JobType /\ IsInjective(k.parents) /\ Shaken(k)
  BY <1>2, <1>4 DEF JobType, FactNames, Shaken
<1>6. JobOK(Done(k, "error"))
  BY <1>5, DoneOK
<1>7. QED
  BY <1>3, <1>6, StepKeeps

-----------------------------------------------------------------------------
(* The theorems *)

\* The invariant holds at first, ...
LEMMA InitHolds == Init => IInv
<1> SUFFICES ASSUME Init
             PROVE  IInv
  OBVIOUS
<1>1. Idle \in JobType /\ JobOK(Idle)
  <2>1. <<>> \in Seq(Txs) /\ IsInjective(<<>>)
    BY DEF IsInjective
  <2>2. Idle \in JobType
    BY <2>1 DEF Idle, JobType
  <2>3. QED
    BY <2>1, <2>2 DEF Idle, JobOK, Steps, TxSteps
<1>2. job = [r \in Requests |-> Idle]
  BY DEF Init
<1>3. QED
  BY <1>1, <1>2, NodeInit DEF IInv

\* ... and every step keeps it.
LEMMA NextHolds == IInv /\ [Next]_vars => IInv'
<1> SUFFICES ASSUME IInv, [Next]_vars
             PROVE  IInv'
  OBVIOUS
<1>1. NodeOK
  BY DEF IInv
<1>2. ASSUME NEW t \in Txs, Accept(t)
      PROVE  IInv'
  <2>1. Change(FALSE)
    BY <1>2 DEF Accept
  <2>2. QED
    BY <1>1, <1>2, <2>1, AcceptStep, ChangeKeeps
<1>3. ASSUME NEW t \in Txs, Evict(t)
      PROVE  IInv'
  <2>1. Change(TRUE)
    BY <1>3 DEF Evict
  <2>2. QED
    BY <1>1, <1>3, <2>1, EvictStep, ChangeKeeps
<1>4. ASSUME NEW b \in Blocks, Mine(b)
      PROVE  IInv'
  <2>1. Change(FALSE)
    BY <1>4 DEF Mine
  <2>2. QED
    BY <1>1, <1>4, <2>1, MineStep, ChangeKeeps
<1>5. ASSUME NEW b \in Blocks, Reorg(b)
      PROVE  IInv'
  <2>1. Change(TRUE)
    BY <1>5 DEF Reorg
  <2>2. QED
    BY <1>1, <1>5, <2>1, ReorgStep, ChangeKeeps
<1>6. ASSUME NEW r \in Requests,
             \/ Start(r) \/ GetRawTransaction(r) \/ CachedInput(r)
             \/ ParentInput(r) \/ FetchParent(r) \/ Header(r) \/ Pending(r)
             \/ GetBlockHash(r) \/ GetBlock(r) \/ Fails(r)
      PROVE  IInv'
  BY <1>6, StartStep, GetRawTransactionStep, ResolvedStep, FetchParentStep,
     HeaderStep, PendingStep, GetBlockHashStep, GetBlockStep, FailsStep
<1>7. CASE UNCHANGED vars
  <2>1. UNCHANGED node /\ job' = job
    BY <1>7 DEF vars
  <2>2. ASSUME NEW r \in Requests
        PROVE  JobOK(job[r])'
    <3>1. PICK i : i = job[r]
      OBVIOUS
    <3>2. JobOK(i)
      BY <3>1 DEF IInv
    <3>3. QED
      BY <2>1, <3>1, <3>2, NodeSame
  <2>3. QED
    BY <2>1, <2>2, NodeSame DEF IInv
<1>8. QED
  BY <1>2, <1>3, <1>4, <1>5, <1>6, <1>7 DEF Next

\* At any moment, for any chain and any lookups: what IInv says.
THEOREM Consistent == Spec => []IInv
<1>1. Init => IInv
  BY InitHolds
<1>2. IInv /\ [Next]_vars => IInv'
  BY NextHolds
<1>3. QED
  BY <1>1, <1>2, PTL DEF Spec

\* Every answer was true at some moment of its lookup: nothing is "not found"
\* that was known all along, nothing is cached publicly that was in no block,
\* and no failure is reported unless a call failed or something was taken
\* away.
THEOREM AnswersTrue == Spec => []AnswerWasTrue
<1>1. IInv => AnswerWasTrue
  BY DEF IInv, JobOK, Answered, AnswerWasTrue, Unknown, Shaken
<1>2. QED
  BY <1>1, Consistent, PTL

\* GetTx fetches a parent at most once, however small the outpoint cache is
\* and whatever other lookups push out of it.
THEOREM ParentsOnce == Spec => []ParentOnce
<1>1. IInv => ParentOnce
  BY DEF IInv, JobOK, ParentOnce
<1>2. QED
  BY <1>1, Consistent, PTL

\* A state of the run, in which functions of Derivations are called besides,
\* is one of Lookup.
THEOREM RunIsLookup == MCSpec => Spec
<1>1. MCInit => Init
  BY DEF MCInit
<1>2. [MCNext]_<<vars, call>> => [Next]_vars
  BY DEF MCNext, vars
<1>3. QED
  BY <1>1, <1>2, PTL DEF MCSpec, Spec

-----------------------------------------------------------------------------
(* Derived numbers: induction and sums *)

\* The order of the naturals as a relation, which is well founded.
LEMMA LessThan == \E R : /\ IsWellFoundedOn(R, Nat)
                         /\ \A a, b \in Nat : a < b => <<a, b>> \in R
<1>1. IsWellFoundedOn(OpToRel(<, Nat), Nat)
  BY NatLessThanWellFounded
<1>2. \A a, b \in Nat : a < b => <<a, b>> \in OpToRel(<, Nat)
  BY DEF OpToRel
<1> QED
  BY <1>1, <1>2, Zenon

\* A nonempty set of naturals has a minimal element.
LEMMA Minimal ==
    ASSUME NEW R, IsWellFoundedOn(R, Nat), NEW T, T \subseteq Nat, T # {}
    PROVE  \E x \in T : \A y \in T : ~(<<y, x>> \in R)
<1> PICK S : S = Nat
  OBVIOUS
<1>1. IsWellFoundedOn(R, S) /\ T \subseteq S
  OBVIOUS
<1> QED
  BY <1>1, WFMin, ZenonT(20)

\* Every nonempty set of naturals has a least element.
LEMMA LeastNumber ==
    ASSUME NEW T \in SUBSET Nat, T # {}
    PROVE  \E x \in T : \A y \in T : x <= y
<1> PICK R : /\ IsWellFoundedOn(R, Nat)
             /\ \A a, b \in Nat : a < b => <<a, b>> \in R
  BY LessThan
<1>2. T \subseteq Nat /\ \A x, y \in Nat : <<y, x>> \notin R => ~(y < x)
  OBVIOUS
<1>3. \E x \in T : \A y \in T : ~(<<y, x>> \in R)
  BY Minimal
<1>4. \E x \in T : \A y \in T : ~(y < x)
  BY <1>2, <1>3, Zenon
<1> QED
  BY <1>4

\* Induction over the naturals, the statement being the set where it holds.
LEMMA Induction ==
    ASSUME NEW P \in SUBSET Nat, 0 \in P, \A n \in P : n + 1 \in P
    PROVE  P = Nat
<1> SUFFICES ASSUME Nat \ P # {}
             PROVE  FALSE
  OBVIOUS
<1>1. PICK k \in Nat \ P : \A j \in Nat \ P : k <= j
  <2> PICK T : T = Nat \ P
    OBVIOUS
  <2>1. \E x \in T : \A y \in T : x <= y
    BY LeastNumber
  <2> QED
    BY <2>1
<1>2. k # 0 /\ k - 1 \in Nat
  BY <1>1
<1>3. k - 1 \in P
  BY <1>1, <1>2
<1>4. (k - 1) + 1 = k
  BY <1>1
<1> QED
  BY <1>1, <1>3, <1>4

Pick(s) == CHOOSE x \in s : TRUE

\* g sums f over the subsets of S, the way MapThenFoldSet does.
IsSum(g, f, S) ==
    g = [s \in SUBSET S |-> IF s = {} THEN 0
                            ELSE f[Pick(s)] + g[s \ {Pick(s)}]]

\* What is picked from a set is in it.
LEMMA PickIs == \A s : s # {} => Pick(s) \in s
BY DEF Pick

\* What is left of a finite set without one of its members is smaller.
LEMMA Smaller ==
    ASSUME NEW s, IsFiniteSet(s), NEW x \in s
    PROVE  /\ IsFiniteSet(s \ {x})
           /\ Cardinality(s) \in Nat /\ Cardinality(s \ {x}) \in Nat
           /\ Cardinality(s \ {x}) = Cardinality(s) - 1
BY FS_RemoveElement, FS_CardinalityType

\* There is a function that sums over every part of a finite set, ...
LEMMA SumExists ==
    ASSUME NEW S, IsFiniteSet(S), NEW f, \A x \in S : f[x] \in Int
    PROVE  \E g : IsSum(g, f, S) /\ \A s \in SUBSET S : g[s] \in Int
<1> DEFINE Sub(n) == {s \in SUBSET S : Cardinality(s) <= n}
           OK(g, n) == /\ g \in [Sub(n) -> Int]
                       /\ \A s \in Sub(n) :
                             g[s] = IF s = {} THEN 0
                                    ELSE f[Pick(s)] + g[s \ {Pick(s)}]
           P == {n \in Nat : \E g : OK(g, n)}
<1>1. \A s \in SUBSET S : IsFiniteSet(s) /\ Cardinality(s) \in Nat
  BY FS_Subset, FS_CardinalityType
<1>2. 0 \in P
  <2>1. \A s \in Sub(0) : s = {}
    BY <1>1, FS_EmptySet
  <2>2. OK([s \in Sub(0) |-> 0], 0)
    BY <2>1
  <2> QED
    BY <2>2
<1>3. ASSUME NEW n \in P
      PROVE  n + 1 \in P
  <2>1. PICK g : OK(g, n)
    OBVIOUS
  <2> DEFINE h == [s \in Sub(n + 1) |-> IF s = {} THEN 0
                                       ELSE f[Pick(s)] + g[s \ {Pick(s)}]]
  <2>2. ASSUME NEW s \in Sub(n + 1), s # {}
        PROVE  /\ Pick(s) \in S /\ s \ {Pick(s)} \in Sub(n)
               /\ s \ {Pick(s)} \in Sub(n + 1)
    <3>1. Pick(s) \in s /\ IsFiniteSet(s) /\ n \in Nat
      BY <2>2, PickIs, <1>1
    <3>2. PICK u : u = s \ {Pick(s)}
      OBVIOUS
    <3>3. Cardinality(u) \in Nat /\ Cardinality(u) = Cardinality(s) - 1
          /\ Cardinality(s) \in Nat
      BY <3>1, <3>2, Smaller
    <3> QED
      BY <3>1, <3>2, <3>3
  <2>3. \A u \in Sub(n) : u \in Sub(n + 1) /\ h[u] = g[u]
    <3>1. \A u \in Sub(n) : u \in Sub(n + 1)
      BY <1>1
    <3> QED
      BY <2>1, <3>1
  <2>4. h \in [Sub(n + 1) -> Int]
    <3> SUFFICES ASSUME NEW s \in Sub(n + 1), s # {}
                 PROVE  f[Pick(s)] + g[s \ {Pick(s)}] \in Int
      OBVIOUS
    <3>1. g[s \ {Pick(s)}] \in Int /\ f[Pick(s)] \in Int
      BY <2>2, <2>1
    <3> QED
      BY <3>1
  <2>5. OK(h, n + 1)
    <3>1. ASSUME NEW s \in Sub(n + 1), s # {}
          PROVE  h[s \ {Pick(s)}] = g[s \ {Pick(s)}]
      BY <3>1, <2>2, <2>3
    <3> QED
      BY <2>4, <3>1
  <2> HIDE DEF h, OK
  <2>6. n \in Nat
    OBVIOUS
  <2> QED
    BY <2>5, <2>6
<1>4. P = Nat
  <2> HIDE DEF P
  <2>1. P \subseteq Nat
    BY DEF P
  <2> QED
    BY <2>1, <1>2, <1>3, Induction
<1>5. PICK c \in Nat : c = Cardinality(S)
  BY FS_CardinalityType
<1>6. PICK g : OK(g, c)
  BY <1>4
<1>7. Sub(c) = SUBSET S
  BY <1>5, FS_Subset, FS_CardinalityType
<1>8. IsSum(g, f, S) /\ \A s \in SUBSET S : g[s] \in Int
  BY <1>6, <1>7 DEF IsSum
<1> QED
  BY <1>8

\* ... and on the sets they share two of them agree.
LEMMA SumUnique ==
    ASSUME NEW f, NEW S, NEW R, NEW g, NEW h, IsSum(g, f, S), IsSum(h, f, R),
           NEW t, IsFiniteSet(t), t \subseteq S, t \subseteq R
    PROVE  g[t] = h[t]
<1> DEFINE P == {n \in Nat : \A s \in SUBSET t : Cardinality(s) <= n => g[s] = h[s]}
<1>1. \A s \in SUBSET t : IsFiniteSet(s) /\ Cardinality(s) \in Nat
  BY FS_Subset, FS_CardinalityType
<1>0. g[{}] = 0 /\ h[{}] = 0
  BY DEF IsSum
<1>2. 0 \in P
  <2>1. \A s \in SUBSET t : Cardinality(s) <= 0 => s = {}
    BY <1>1, FS_EmptySet
  <2> QED
    BY <2>1, <1>0
<1>3. ASSUME NEW n \in P
      PROVE  n + 1 \in P
  <2>1. n \in Nat
    OBVIOUS
  <2> SUFFICES ASSUME NEW s \in SUBSET t, Cardinality(s) <= n + 1
               PROVE  g[s] = h[s]
    BY <2>1
  <2> SUFFICES ASSUME s # {}
               PROVE  g[s] = h[s]
    BY <1>0
  <2>2. Pick(s) \in s /\ IsFiniteSet(s)
    BY PickIs, <1>1
  <2>3. PICK u : u = s \ {Pick(s)}
    OBVIOUS
  <2>4. Cardinality(u) \in Nat /\ Cardinality(u) = Cardinality(s) - 1
        /\ Cardinality(s) \in Nat
    BY <2>2, <2>3, Smaller
  <2>5. u \in SUBSET t /\ Cardinality(u) <= n
    BY <2>1, <2>3, <2>4
  <2>6. g[u] = h[u]
    BY <2>5
  <2>7. g[s] = f[Pick(s)] + g[u] /\ h[s] = f[Pick(s)] + h[u]
    <3>1. s \in SUBSET S /\ s \in SUBSET R
      OBVIOUS
    <3> QED
      BY <3>1, <2>3 DEF IsSum
  <2> QED
    BY <2>6, <2>7
<1>4. P = Nat
  <2> HIDE DEF P
  <2>1. P \subseteq Nat
    BY DEF P
  <2> QED
    BY <2>1, <1>2, <1>3, Induction
<1>5. Cardinality(t) \in P /\ t \in SUBSET t /\ Cardinality(t) <= Cardinality(t)
  BY <1>1, <1>4
<1> QED
  BY <1>5

\* The sum of f over S, as the community modules compute it.
LEMMA SumStep ==
    ASSUME NEW S, IsFiniteSet(S), NEW f, \A x \in S : f[x] \in Int
    PROVE  /\ SumFunctionOnSet(f, S) \in Int
           /\ S = {} => SumFunctionOnSet(f, S) = 0
           /\ S # {} => SumFunctionOnSet(f, S) =
                           f[Pick(S)] + SumFunctionOnSet(f, S \ {Pick(S)})
<1> DEFINE iter(R) == CHOOSE g : IsSum(g, f, R)
<1>1. \A R : SumFunctionOnSet(f, R) = iter(R)[R]
  BY DEF SumFunctionOnSet, FoldFunctionOnSet, MapThenFoldSet, IsSum, Pick
<1>2. PICK g : IsSum(g, f, S) /\ \A s \in SUBSET S : g[s] \in Int
  BY SumExists
<1>3. IsSum(iter(S), f, S)
  BY <1>2
<1>4. iter(S)[S] = g[S]
  <2> HIDE DEF iter
  <2> QED
    BY <1>2, <1>3, SumUnique
<1>5. CASE S = {}
  <2>1. g[{}] = 0
    BY <1>2 DEF IsSum
  <2> HIDE DEF iter
  <2> QED
    BY <1>1, <1>2, <1>4, <1>5, <2>1
<1>6. CASE S # {}
  <2>1. PICK R : R = S \ {Pick(S)}
    OBVIOUS
  <2>2. Pick(S) \in S /\ R \subseteq S /\ IsFiniteSet(R)
    BY <1>6, <2>1, PickIs, FS_Subset
  <2>3. IsSum(iter(R), f, R)
    <3>1. \E h : IsSum(h, f, R)
      BY <2>2, SumExists
    <3> QED
      BY <3>1
  <2>4. iter(R)[R] = g[R]
    <3> HIDE DEF iter
    <3> QED
      BY <1>2, <2>2, <2>3, SumUnique
  <2>5. g[S] = f[Pick(S)] + g[R]
    BY <1>2, <1>6, <2>1 DEF IsSum
  <2> HIDE DEF iter
  <2> QED
    BY <1>1, <1>2, <1>4, <1>6, <2>1, <2>4, <2>5
<1> QED
  BY <1>5, <1>6

\* Nothing sums to nothing.
LEMMA SumOfNone == \A f : SumFunctionOnSet(f, {}) = 0
<1> SUFFICES ASSUME NEW f
             PROVE  SumFunctionOnSet(f, {}) = 0
  OBVIOUS
<1>1. IsFiniteSet({}) /\ \A x \in {} : f[x] \in Int
  BY FS_EmptySet
<1> QED
  BY <1>1, SumStep

\* Whichever member is taken first, the sum is the same.
LEMMA SumTake ==
    ASSUME NEW S, IsFiniteSet(S), NEW f, \A x \in S : f[x] \in Int, NEW x \in S
    PROVE  SumFunctionOnSet(f, S) = f[x] + SumFunctionOnSet(f, S \ {x})
<1> DEFINE sum(s) == SumFunctionOnSet(f, s)
           P == {n \in Nat : \A s \in SUBSET S : Cardinality(s) = n =>
                                \A y \in s : sum(s) = f[y] + sum(s \ {y})}
<1>1. \A s \in SUBSET S : /\ IsFiniteSet(s) /\ Cardinality(s) \in Nat
                          /\ \A y \in s : f[y] \in Int
  BY FS_Subset, FS_CardinalityType
<1>2. \A s \in SUBSET S : sum(s) \in Int
  BY <1>1, SumStep
<1>3. 0 \in P
  BY <1>1, FS_EmptySet
<1>4. ASSUME NEW n \in P
      PROVE  n + 1 \in P
  <2>1. n \in Nat /\ \A s \in SUBSET S : Cardinality(s) = n =>
                        \A y \in s : sum(s) = f[y] + sum(s \ {y})
    OBVIOUS
  <2> SUFFICES ASSUME NEW s \in SUBSET S, Cardinality(s) = n + 1, NEW y \in s
               PROVE  sum(s) = f[y] + sum(s \ {y})
    BY <2>1
  <2> HIDE DEF P
  <2>2. PICK p \in s : p = Pick(s) /\ sum(s) = f[p] + sum(s \ {p})
    BY <1>1, PickIs, SumStep
  <2>3. CASE p = y
    BY <2>2, <2>3
  <2>4. CASE p # y
    <3> PICK u, v, w : u = s \ {p} /\ v = s \ {y} /\ w = s \ {p, y}
      OBVIOUS
    <3>1. Cardinality(u) = n /\ Cardinality(v) = n
      <4> IsFiniteSet(s)
        BY <1>1
      <4>1. Cardinality(s \ {p}) = Cardinality(s) - 1
            /\ Cardinality(s \ {y}) = Cardinality(s) - 1
        BY Smaller
      <4> QED
        BY <4>1, <2>1
    <3>2. sum(u) = f[y] + sum(w)
      <4>1. y \in u /\ u \in SUBSET S /\ w = u \ {y}
        BY <2>4
      <4> HIDE DEF sum
      <4> QED
        BY <4>1, <2>1, <3>1
    <3>3. sum(v) = f[p] + sum(w)
      <4>1. p \in v /\ v \in SUBSET S /\ w = v \ {p}
        BY <2>4
      <4> HIDE DEF sum
      <4> QED
        BY <4>1, <2>1, <3>1
    <3>4. sum(w) \in Int /\ f[p] \in Int /\ f[y] \in Int
      BY <1>1, <1>2
    <3>5. sum(s) = f[p] + sum(u)
      BY <2>2
    <3> HIDE DEF sum
    <3> QED
      BY <3>2, <3>3, <3>4, <3>5
  <2> QED
    BY <2>3, <2>4
<1>5. P = Nat
  <2> HIDE DEF P
  <2>1. P \subseteq Nat
    BY DEF P
  <2> QED
    BY <2>1, <1>3, <1>4, Induction
<1>6. Cardinality(S) \in P /\ S \in SUBSET S
  BY <1>1, <1>5
<1> QED
  BY <1>6

\* Induction over a finite set, the statement being the subsets for which it
\* holds.
LEMMA SetInduction ==
    ASSUME NEW S, IsFiniteSet(S), NEW P \in SUBSET (SUBSET S), {} \in P,
           \A s \in P : \A x \in S \ s : s \cup {x} \in P
    PROVE  S \in P
<1> DEFINE N == {n \in Nat : \A s \in SUBSET S : Cardinality(s) = n => s \in P}
<1>1. \A s \in SUBSET S : IsFiniteSet(s) /\ Cardinality(s) \in Nat
  BY FS_Subset, FS_CardinalityType
<1>2. 0 \in N
  BY <1>1, FS_EmptySet
<1>3. ASSUME NEW n \in N
      PROVE  n + 1 \in N
  <2>1. n \in Nat /\ \A s \in SUBSET S : Cardinality(s) = n => s \in P
    OBVIOUS
  <2> SUFFICES ASSUME NEW s \in SUBSET S, Cardinality(s) = n + 1
               PROVE  s \in P
    BY <2>1
  <2> HIDE DEF N
  <2>2. PICK x : x \in s
    BY <2>1, FS_EmptySet
  <2>3. Cardinality(s \ {x}) = n
    <3>1. IsFiniteSet(s)
      BY <1>1
    <3>2. Cardinality(s \ {x}) = Cardinality(s) - 1
      BY <2>2, <3>1, Smaller
    <3> QED
      BY <2>1, <3>2
  <2>4. s \ {x} \in P /\ x \in S \ (s \ {x})
    BY <2>1, <2>2, <2>3
  <2>5. (s \ {x}) \cup {x} = s
    BY <2>2
  <2> QED
    BY <2>4, <2>5
<1>4. N = Nat
  <2> HIDE DEF N
  <2>1. N \subseteq Nat
    BY DEF N
  <2> QED
    BY <2>1, <1>2, <1>3, Induction
<1>5. Cardinality(S) \in N /\ S \in SUBSET S
  BY <1>1, <1>4
<1> QED
  BY <1>5

\* One member more adds its value.
LEMMA SumAdd ==
    ASSUME NEW s, IsFiniteSet(s), NEW x, x \notin s,
           NEW f, \A y \in s \cup {x} : f[y] \in Int
    PROVE  SumFunctionOnSet(f, s \cup {x}) = f[x] + SumFunctionOnSet(f, s)
<1> PICK S : S = s \cup {x}
  OBVIOUS
<1>1. IsFiniteSet(S) /\ x \in S /\ S \ {x} = s /\ \A y \in S : f[y] \in Int
  BY FS_AddElement
<1>2. SumFunctionOnSet(f, S) = f[x] + SumFunctionOnSet(f, S \ {x})
  BY <1>1, SumTake
<1> QED
  BY <1>1, <1>2

\* Sums of integers are integers.
LEMMA SumInt ==
    ASSUME NEW S, IsFiniteSet(S), NEW f, \A x \in S : f[x] \in Int
    PROVE  \A s \in SUBSET S : IsFiniteSet(s) /\ SumFunctionOnSet(f, s) \in Int
BY SumStep, FS_Subset

\* Functions that agree on a set have the same sum over it.
LEMMA SumSame ==
    ASSUME NEW S, IsFiniteSet(S), NEW f, NEW g,
           \A x \in S : f[x] \in Int /\ g[x] = f[x]
    PROVE  SumFunctionOnSet(f, S) = SumFunctionOnSet(g, S)
<1> DEFINE P == {s \in SUBSET S : SumFunctionOnSet(f, s) = SumFunctionOnSet(g, s)}
<1>1. {} \in P
  BY SumOfNone
<1>2. ASSUME NEW s \in P, NEW x \in S \ s
      PROVE  s \cup {x} \in P
  <2>1. /\ IsFiniteSet(s) /\ s \cup {x} \subseteq S
        /\ \A y \in s \cup {x} : f[y] \in Int /\ g[y] \in Int /\ g[y] = f[y]
    BY FS_Subset
  <2>2. SumFunctionOnSet(f, s \cup {x}) = f[x] + SumFunctionOnSet(f, s)
    BY <1>2, <2>1, SumAdd
  <2>3. SumFunctionOnSet(g, s \cup {x}) = g[x] + SumFunctionOnSet(g, s)
    BY <1>2, <2>1, SumAdd
  <2> QED
    BY <2>1, <2>2, <2>3
<1>3. P \in SUBSET (SUBSET S)
  OBVIOUS
<1>4. S \in P
  <2> HIDE DEF P
  <2> QED
    BY <1>1, <1>2, <1>3, SetInduction
<1> QED
  BY <1>4

\* What is summed over two sets apart is summed over both.
LEMMA SumSplit ==
    ASSUME NEW S, IsFiniteSet(S), NEW f, \A x \in S : f[x] \in Int,
           NEW T \in SUBSET S
    PROVE  SumFunctionOnSet(f, S) =
           SumFunctionOnSet(f, T) + SumFunctionOnSet(f, S \ T)
<1> DEFINE sum(s) == SumFunctionOnSet(f, s)
           P == {s \in SUBSET S : sum(s) = sum(s \cap T) + sum(s \ T)}
<1>0. \A s \in SUBSET S : IsFiniteSet(s) /\ sum(s) \in Int
  BY SumInt
<1>1. {} \in P
  BY SumOfNone
<1>2. ASSUME NEW s \in P, NEW x \in S \ s
      PROVE  s \cup {x} \in P
  <2>1. \A r \in SUBSET s : sum(r \cup {x}) = f[x] + sum(r)
    <3> SUFFICES ASSUME NEW r \in SUBSET s
                 PROVE  sum(r \cup {x}) = f[x] + sum(r)
      OBVIOUS
    <3>1. IsFiniteSet(r) /\ x \notin r /\ \A y \in r \cup {x} : f[y] \in Int
      BY <1>0
    <3> QED
      BY <3>1, SumAdd
  <2>2. sum(s \cap T) \in Int /\ sum(s \ T) \in Int /\ f[x] \in Int
    BY <1>0
  <2>3. sum(s \cup {x}) = f[x] + sum(s) /\ sum(s) = sum(s \cap T) + sum(s \ T)
    BY <2>1
  <2>4. CASE x \in T
    <3>1. (s \cup {x}) \cap T = (s \cap T) \cup {x} /\ (s \cup {x}) \ T = s \ T
      BY <2>4
    <3>2. sum((s \cap T) \cup {x}) = f[x] + sum(s \cap T)
      BY <2>1
    <3>3. sum(s \cup {x}) = sum((s \cup {x}) \cap T) + sum((s \cup {x}) \ T)
      <4> PICK a, b, m, n, o : /\ a = s \cap T /\ b = s \ T /\ o = s \cup {x}
                              /\ m = (s \cup {x}) \cap T /\ n = (s \cup {x}) \ T
        OBVIOUS
      <4>1. sum(m) = f[x] + sum(a) /\ sum(n) = sum(b)
        BY <3>1, <3>2
      <4>2. sum(a) \in Int /\ sum(b) \in Int /\ sum(o) = f[x] + (sum(a) + sum(b))
        BY <2>2, <2>3
      <4>3. f[x] \in Int
        BY <2>2
      <4>4. sum(o) = sum(m) + sum(n)
        BY <4>1, <4>2, <4>3
      <4> QED
        BY <4>4
    <3> QED
      BY <3>3
  <2>5. CASE x \notin T
    <3>1. (s \cup {x}) \cap T = s \cap T /\ (s \cup {x}) \ T = (s \ T) \cup {x}
      BY <2>5
    <3>2. sum((s \ T) \cup {x}) = f[x] + sum(s \ T)
      BY <2>1
    <3>3. sum(s \cup {x}) = sum((s \cup {x}) \cap T) + sum((s \cup {x}) \ T)
      <4> PICK a, b, m, n, o : /\ a = s \cap T /\ b = s \ T /\ o = s \cup {x}
                              /\ m = (s \cup {x}) \cap T /\ n = (s \cup {x}) \ T
        OBVIOUS
      <4>1. sum(n) = f[x] + sum(b) /\ sum(m) = sum(a)
        BY <3>1, <3>2
      <4>2. sum(a) \in Int /\ sum(b) \in Int /\ sum(o) = f[x] + (sum(a) + sum(b))
        BY <2>2, <2>3
      <4>3. f[x] \in Int
        BY <2>2
      <4>4. sum(o) = sum(m) + sum(n)
        BY <4>1, <4>2, <4>3
      <4> QED
        BY <4>4
    <3> QED
      BY <3>3
  <2> QED
    BY <2>4, <2>5
<1>3. P \in SUBSET (SUBSET S)
  OBVIOUS
<1>4. S \in P
  <2> HIDE DEF P
  <2> QED
    BY <1>1, <1>2, <1>3, SetInduction
<1>5. S \cap T = T
  OBVIOUS
<1> QED
  BY <1>4, <1>5

\* Natural numbers: their sum is natural, and a part is no more than the
\* whole.
LEMMA SumNat ==
    ASSUME NEW S, IsFiniteSet(S), NEW f, \A x \in S : f[x] \in Nat
    PROVE  /\ SumFunctionOnSet(f, S) \in Nat
           /\ \A T \in SUBSET S :
                 SumFunctionOnSet(f, T) \in Nat
                 /\ SumFunctionOnSet(f, T) <= SumFunctionOnSet(f, S)
<1> DEFINE P == {s \in SUBSET S : SumFunctionOnSet(f, s) \in Nat}
<1>1. \A s \in SUBSET S : SumFunctionOnSet(f, s) \in Nat
  <2> SUFFICES ASSUME NEW R \in SUBSET S
               PROVE  SumFunctionOnSet(f, R) \in Nat
    OBVIOUS
  <2> DEFINE Q == {s \in SUBSET R : SumFunctionOnSet(f, s) \in Nat}
  <2>1. {} \in Q
    BY SumOfNone
  <2>2. ASSUME NEW s \in Q, NEW x \in R \ s
        PROVE  s \cup {x} \in Q
    <3>1. /\ IsFiniteSet(s) /\ f[x] \in Nat
          /\ \A y \in s \cup {x} : f[y] \in Int
      BY FS_Subset
    <3>2. SumFunctionOnSet(f, s \cup {x}) = f[x] + SumFunctionOnSet(f, s)
      BY <2>2, <3>1, SumAdd
    <3> QED
      BY <3>1, <3>2
  <2>3. Q \in SUBSET (SUBSET R) /\ IsFiniteSet(R)
    BY FS_Subset
  <2>4. R \in Q
    <3> HIDE DEF Q
    <3> QED
      BY <2>1, <2>2, <2>3, SetInduction
  <2> QED
    BY <2>4
<1>2. \A T \in SUBSET S : SumFunctionOnSet(f, S) =
          SumFunctionOnSet(f, T) + SumFunctionOnSet(f, S \ T)
  BY SumSplit
<1>3. \A T \in SUBSET S : SumFunctionOnSet(f, T) <= SumFunctionOnSet(f, S)
  <2> SUFFICES ASSUME NEW T \in SUBSET S
               PROVE  SumFunctionOnSet(f, T) <= SumFunctionOnSet(f, S)
    OBVIOUS
  <2>1. SumFunctionOnSet(f, T) \in Nat /\ SumFunctionOnSet(f, S \ T) \in Nat
    BY <1>1
  <2> QED
    BY <1>2, <2>1
<1> QED
  BY <1>1, <1>3

\* g[i] is the result of a walk over 1..n after i steps.
Walk(g, n, start, step) ==
    g[0] = start /\ \A i \in 1..n : g[i] = step[<<i, g[i - 1]>>]

\* Every walk has its results: the recursive function of a loop exists.
LEMMA Recursion ==
    ASSUME NEW n \in Nat, NEW D, NEW start \in D, NEW step \in [(1..n) \X D -> D]
    PROVE  \E g \in [0..n -> D] : Walk(g, n, start, step)
<1> DEFINE OK(g, m) == /\ g \in [0..m -> D] /\ g[0] = start
                       /\ \A i \in 1..m : g[i] = step[<<i, g[i - 1]>>]
           P == {m \in Nat : m <= n => \E g : OK(g, m)}
<1>1. 0 \in P
  <2>1. OK([i \in 0..0 |-> start], 0)
    OBVIOUS
  <2> QED
    BY <2>1
<1>2. ASSUME NEW m \in P
      PROVE  m + 1 \in P
  <2>1. m \in Nat /\ (m <= n => \E g : OK(g, m))
    OBVIOUS
  <2> SUFFICES ASSUME m + 1 <= n
               PROVE  \E g : OK(g, m + 1)
    BY <2>1
  <2> HIDE DEF P
  <2>2. PICK g : OK(g, m)
    BY <2>1
  <2> DEFINE h == [i \in 0..m + 1 |-> IF i = m + 1 THEN step[<<m + 1, g[m]>>]
                                      ELSE g[i]]
  <2>3. \A i \in 0..m : i \in 0..m + 1 /\ i # m + 1 /\ h[i] = g[i] /\ g[i] \in D
    BY <2>1, <2>2
  <2>4. m + 1 \in 0..m + 1 /\ m \in 0..m /\ m + 1 \in 1..n
    BY <2>1
  <2>5. h[m + 1] = step[<<m + 1, h[m]>>] /\ step[<<m + 1, g[m]>>] \in D
    BY <2>3, <2>4
  <2>6. h \in [0..m + 1 -> D]
    <3> SUFFICES ASSUME NEW i \in 0..m + 1
                 PROVE  h[i] \in D
      OBVIOUS
    <3>1. i = m + 1 \/ i \in 0..m
      BY <2>1
    <3> QED
      BY <3>1, <2>3, <2>4, <2>5
  <2>7. h[0] = start
    BY <2>1, <2>2, <2>3
  <2>8. ASSUME NEW i \in 1..m + 1
        PROVE  h[i] = step[<<i, h[i - 1]>>]
    <3>1. i = m + 1 \/ (i \in 1..m /\ i \in 0..m /\ i - 1 \in 0..m)
      BY <2>1
    <3>2. CASE i = m + 1
      BY <3>2, <2>5, <2>1
    <3>3. CASE i \in 1..m /\ i \in 0..m /\ i - 1 \in 0..m
      <4>1. g[i] = step[<<i, g[i - 1]>>]
        BY <2>2, <3>3
      <4>2. h[i] = g[i] /\ h[i - 1] = g[i - 1]
        BY <2>3, <3>3
      <4> HIDE DEF h
      <4> QED
        BY <4>1, <4>2
    <3> QED
      BY <3>1, <3>2, <3>3
  <2> HIDE DEF h
  <2>9. OK(h, m + 1)
    BY <2>6, <2>7, <2>8
  <2> QED
    BY <2>9
<1>3. P = Nat
  <2> HIDE DEF P
  <2>1. P \subseteq Nat
    BY DEF P
  <2> QED
    BY <2>1, <1>1, <1>2, Induction
<1>4. PICK g : OK(g, n)
  <2>1. n \in P
    BY <1>3
  <2> HIDE DEF OK
  <2> QED
    BY <2>1
<1> QED
  BY <1>4 DEF Walk

-----------------------------------------------------------------------------
(* The calls *)

\* Every call is one of Calls.
LEMMA CallsOnly == MCSpec => [](call \in Calls \cup {NoCall})
<1>1. MCInit => call \in Calls \cup {NoCall}
  BY DEF MCInit
<1>2. /\ call \in Calls \cup {NoCall}
      /\ [MCNext]_<<vars, call>>
      => (call \in Calls \cup {NoCall})'
  BY DEF MCNext, Call, Return
<1> QED
  BY <1>1, <1>2, PTL DEF MCSpec

-----------------------------------------------------------------------------
(* Pages *)

\* The rows of page n.
LEMMA Shown ==
    ASSUME NEW total \in Nat, NEW limit \in Nat \ {0}, NEW n \in Nat \ {0}
    PROVE  LET a == (n - 1) * limit
               s == Cardinality(((n - 1) * limit + 1) .. (n * limit) \cap 1..total)
           IN  /\ a \in Nat /\ n * limit = a + limit
               /\ s = IF a + limit <= total THEN limit
                      ELSE IF a < total THEN total - a ELSE 0
<1> PICK a : a = (n - 1) * limit
  OBVIOUS
<1>1. a \in Nat /\ n * limit = a + limit
  BY SMTT(30)
<1> PICK b : b = a + limit
  OBVIOUS
<1>2. CASE b <= total
  <2>1. ((a + 1) .. b) \cap (1..total) = (a + 1) .. b
    BY <1>1, <1>2
  <2>2. Cardinality((a + 1) .. b) = limit
    BY <1>1, FS_Interval
  <2> QED
    BY <1>1, <1>2, <2>1, <2>2
<1>3. CASE ~(b <= total) /\ a < total
  <2>1. ((a + 1) .. b) \cap (1..total) = (a + 1) .. total
    BY <1>1, <1>3
  <2>2. Cardinality((a + 1) .. total) = total - a
    BY <1>1, <1>3, FS_Interval
  <2> QED
    BY <1>1, <1>3, <2>1, <2>2
<1>4. CASE ~(b <= total) /\ ~(a < total)
  <2>1. ((a + 1) .. b) \cap (1..total) = {}
    BY <1>1, <1>4
  <2> QED
    BY <1>1, <1>4, <2>1, FS_EmptySet
<1> QED
  BY <1>2, <1>3, <1>4

\* Page n starts after a[n] entries and shows shown[n]; those in more promise
\* another.
Paging(total, limit, approximate, a, shown, more) ==
    \A n \in Nat \ {0} :
        /\ a[n] = (n - 1) * limit /\ n * limit = a[n] + limit
        /\ shown[n] = IF a[n] + limit <= total THEN limit
                      ELSE IF a[n] < total THEN total - a[n] ELSE 0
        /\ approximate => (n \in more <=> shown[n] = limit)
        /\ ~approximate => (n \in more <=> a[n] + shown[n] < total)

IsLastPage(n, total, limit, approximate, shown, more) ==
    /\ n \notin more /\ \A m \in 1..n - 1 : m \in more
    /\ total <= n * limit
    /\ approximate \/ n = 1 \/ shown[n] > 0

\* There is a first page that promises no other, and it ends the list.
LEMMA LastPage ==
    ASSUME NEW total \in Nat, NEW limit \in Nat \ {0}, NEW approximate \in BOOLEAN,
           NEW a \in [Nat \ {0} -> Nat], NEW shown, NEW more,
           Paging(total, limit, approximate, a, shown, more)
    PROVE  \E n \in 1..total + 1 :
              IsLastPage(n, total, limit, approximate, shown, more)
<1> USE DEF Paging
<1> DEFINE T == {n \in Nat \ {0} : n \notin more}
<1>1. total + 1 \in T
  <2>1. total <= total * limit
    BY SMTT(30)
  <2>2. PICK k \in Nat \ {0} : k = total + 1
    OBVIOUS
  <2>3. a[k] = total * limit /\ a[k] \in Nat
    BY <2>2
  <2>4. shown[k] = 0
    BY <2>1, <2>3
  <2>5. k \notin more
    BY <2>1, <2>3, <2>4
  <2> QED
    BY <2>2, <2>5
<1>2. PICK n \in T : \A m \in T : n <= m
  <2>1. T \in SUBSET Nat /\ T # {}
    BY <1>1
  <2> HIDE DEF T
  <2> QED
    BY <2>1, LeastNumber
<1>3. n \in Nat \ {0} /\ n \notin more
  BY <1>2
<1>4. n \in 1..total + 1
  BY <1>1, <1>2, <1>3
<1>5. \A m \in 1..n - 1 : m \in more
  <2> SUFFICES ASSUME NEW m \in 1..n - 1, m \notin more
               PROVE  FALSE
    OBVIOUS
  <2>1. m \in Nat \ {0} /\ ~(n <= m)
    BY <1>3
  <2>2. m \in T
    BY <2>1
  <2> HIDE DEF T
  <2> QED
    BY <2>1, <2>2, <1>2
<1>6. a[n] \in Nat /\ n * limit = a[n] + limit
  BY <1>3
<1>7. total <= n * limit
  <2>1. CASE approximate
    <3>1. shown[n] # limit
      BY <1>3, <2>1
    <3> QED
      BY <1>3, <1>6, <3>1
  <2>2. CASE ~approximate
    <3>1. ~(a[n] + shown[n] < total)
      BY <1>3, <2>2
    <3> QED
      BY <1>3, <1>6, <3>1
  <2> QED
    BY <2>1, <2>2
<1>8. approximate \/ n = 1 \/ shown[n] > 0
  <2> SUFFICES ASSUME ~approximate, n # 1
               PROVE  shown[n] > 0
    OBVIOUS
  <2>1. PICK k \in Nat \ {0} : k = n - 1 /\ k \in 1..n - 1
    BY <1>3
  <2>2. a[k] + shown[k] < total /\ a[k] \in Nat
    BY <1>5, <2>1
  <2>3. a[n] = a[k] + limit
    BY <1>3, <2>1
  <2>4. /\ shown[k] = IF a[k] + limit <= total THEN limit
                      ELSE IF a[k] < total THEN total - a[k] ELSE 0
        /\ shown[n] = IF a[n] + limit <= total THEN limit
                      ELSE IF a[n] < total THEN total - a[n] ELSE 0
    BY <1>3, <2>1
  <2>5. shown[k] = limit
    BY <2>2, <2>4
  <2> QED
    BY <1>6, <2>2, <2>3, <2>4, <2>5
<1> QED
  BY <1>3, <1>4, <1>5, <1>7, <1>8 DEF IsLastPage

\* PagesCover, of any call.
LEMMA PagesImplied ==
    ASSUME call \in Calls \cup {NoCall}
    PROVE  PagesCover
<1> SUFFICES ASSUME call.fn = "pages"
             PROVE  PagesCover
  BY DEF PagesCover
<1>1. call \in Calls
  BY DEF NoCall
<1>2. PICK total, limit, approximate :
          /\ total = call.total /\ limit = call.limit
          /\ approximate = call.approximate
  OBVIOUS
<1>3. total \in Nat /\ limit \in Nat \ {0} /\ approximate \in BOOLEAN
  <2>1. /\ call.total \in Nat /\ call.limit \in Nat \ {0}
        /\ call.approximate \in BOOLEAN
    BY <1>1, CallAssumption DEF PageArgs
  <2> QED
    BY <1>2, <2>1
<1>4. PICK a, shown, more :
          /\ a = [n \in Nat \ {0} |-> (n - 1) * limit]
          /\ shown = [n \in Nat \ {0} |->
                Cardinality(((n - 1) * limit + 1) .. (n * limit) \cap 1..total)]
          /\ more = {n \in Nat \ {0} :
                HasMore(total, approximate, (n - 1) * limit, limit, shown[n])}
  OBVIOUS
<1>5. ASSUME NEW n \in Nat \ {0}
      PROVE  /\ a[n] \in Nat /\ a[n] = (n - 1) * limit
             /\ n * limit = a[n] + limit
             /\ shown[n] = IF a[n] + limit <= total THEN limit
                           ELSE IF a[n] < total THEN total - a[n] ELSE 0
             /\ approximate => (n \in more <=> shown[n] = limit)
             /\ ~approximate => (n \in more <=> a[n] + shown[n] < total)
  <2>1. a[n] = (n - 1) * limit /\ shown[n] =
            Cardinality(((n - 1) * limit + 1) .. (n * limit) \cap 1..total)
    BY <1>4
  <2>2. n \in more <=> HasMore(total, approximate, a[n], limit, shown[n])
    BY <1>4, <2>1
  <2>3. /\ (n - 1) * limit \in Nat /\ n * limit = (n - 1) * limit + limit
        /\ Cardinality(((n - 1) * limit + 1) .. (n * limit) \cap 1..total) =
              IF (n - 1) * limit + limit <= total THEN limit
              ELSE IF (n - 1) * limit < total THEN total - (n - 1) * limit ELSE 0
    BY <1>3, Shown
  <2>4. /\ a[n] \in Nat /\ n * limit = a[n] + limit
        /\ shown[n] = IF a[n] + limit <= total THEN limit
                      ELSE IF a[n] < total THEN total - a[n] ELSE 0
    BY <2>1, <2>3
  <2> QED
    BY <2>1, <2>2, <2>4 DEF HasMore
<1>6. a \in [Nat \ {0} -> Nat]
  BY <1>4, <1>5
<1>7. Paging(total, limit, approximate, a, shown, more)
  BY <1>5 DEF Paging
<1>8. PICK n \in 1..total + 1 :
          IsLastPage(n, total, limit, approximate, shown, more)
  BY <1>3, <1>6, <1>7, LastPage
<1> DEFINE show(m) == Cardinality((m - 1) * limit + 1 .. m * limit \cap 1..total)
           promised(m) == HasMore(total, approximate, (m - 1) * limit, limit, show(m))
<1>9. \A m \in Nat \ {0} : (promised(m) <=> m \in more) /\ show(m) = shown[m]
  BY <1>4
<1>10. n \in Nat \ {0} /\ \A m \in 1..n - 1 : m \in Nat \ {0}
  BY <1>3
<1>11. /\ ~promised(n) /\ \A m \in 1..n - 1 : promised(m)
       /\ total <= n * limit
       /\ approximate \/ n = 1 \/ show(n) > 0
  <2> HIDE DEF promised, show
  <2> QED
    BY <1>8, <1>9, <1>10 DEF IsLastPage
<1> QED
  BY <1>2, <1>11 DEF PagesCover

\* Whoever pages on while there is more sees all of a history or a block.
THEOREM PagesSafe == MCSpec => []PagesCover
BY CallsOnly, PagesImplied, PTL

-----------------------------------------------------------------------------
(* Halvings *)

\* Quotient and remainder of k * i + r.
LEMMA Quotient ==
    ASSUME NEW k \in Nat, NEW i \in Nat \ {0}, NEW r \in 0..i - 1
    PROVE  (k * i + r) \div i = k /\ (k * i + r) % i = r
<1>1. \A z \in Int : z = k * i + r => z \div i = k
  BY SMTT(30)
<1>2. \A z \in Int : z = k * i + r => z % i = r
  BY SMTT(30)
<1>3. k * i + r \in Int
  OBVIOUS
<1> QED
  BY <1>1, <1>2, <1>3

\* Division with remainder.
LEMMA Division ==
    ASSUME NEW h \in Nat, NEW i \in Nat \ {0}
    PROVE  /\ h \div i \in Nat /\ h % i \in 0..i - 1
           /\ h = (h \div i) * i + (h % i)
BY SMTT(30)

\* Shifting by one more bit halves what is left.
LEMMA HalfOfShift ==
    ASSUME NEW x \in Nat, NEW p \in Nat \ {0}
    PROVE  x \div (2 * p) = (x \div p) \div 2
<1>1. x \div p \in Nat /\ x % p \in 0..p - 1 /\ x = (x \div p) * p + (x % p)
  BY Division
<1>2. PICK q, r : q = x \div p /\ r = x % p
  OBVIOUS
<1>3. q \in Nat /\ r \in 0..p - 1 /\ x = q * p + r
  BY <1>1, <1>2
<1>4. PICK m \in Nat, b \in 0..1 : m = q \div 2 /\ q = 2 * m + b
  <2>1. q \div 2 \in Nat /\ q % 2 \in 0..1 /\ q = 2 * (q \div 2) + (q % 2)
    BY <1>3, SMTT(30)
  <2> QED
    BY <2>1
<1>5. b = 0 \/ b = 1
  OBVIOUS
<1>6. b * p = IF b = 0 THEN 0 ELSE p
  BY <1>5
<1>7. b * p + r \in 0..2 * p - 1
  BY <1>3, <1>6
<1>8. x = m * (2 * p) + (b * p + r)
  <2>1. q * p = m * (2 * p) + b * p
    BY <1>4, <1>5
  <2> QED
    BY <1>3, <2>1
<1>9. 2 * p \in Nat \ {0}
  OBVIOUS
<1>10. (m * (2 * p) + (b * p + r)) \div (2 * p) = m
  BY <1>7, <1>9, Quotient
<1> QED
  BY <1>2, <1>4, <1>8, <1>10

\* Pow2 is what its definition says.
LEMMA PowersOfTwo ==
    /\ Pow2 \in [0..63 -> Nat \ {0}] /\ Pow2[0] = 1
    /\ \A n \in 1..63 : Pow2[n] = 2 * Pow2[n - 1]
<1> DEFINE step == [p \in (1..63) \X (Nat \ {0}) |-> 2 * p[2]]
           IsPow2(g) == g = [n \in 0..63 |-> IF n = 0 THEN 1 ELSE 2 * g[n - 1]]
<1>1. step \in [(1..63) \X (Nat \ {0}) -> Nat \ {0}]
  OBVIOUS
<1>2. PICK g \in [0..63 -> Nat \ {0}] :
          g[0] = 1 /\ \A i \in 1..63 : g[i] = step[<<i, g[i - 1]>>]
  <2>0. PICK n, D, one : n = 63 /\ D = Nat \ {0} /\ one = 1
    OBVIOUS
  <2>1. n \in Nat /\ step \in [(1..n) \X D -> D] /\ one \in D
    BY <1>1, <2>0
  <2> HIDE DEF step
  <2>2. \E g \in [0..n -> D] : Walk(g, n, one, step)
    BY <2>1, Recursion
  <2> QED
    BY <2>0, <2>2 DEF Walk
<1>3. \A i \in 1..63 : step[<<i, g[i - 1]>>] = 2 * g[i - 1]
  <2> SUFFICES ASSUME NEW i \in 1..63
               PROVE  step[<<i, g[i - 1]>>] = 2 * g[i - 1]
    OBVIOUS
  <2>1. g[i - 1] \in Nat \ {0}
    OBVIOUS
  <2> QED
    BY <2>1
<1>4. g = [n \in 0..63 |-> IF n = 0 THEN 1 ELSE 2 * g[n - 1]]
  <2>1. \A n \in 0..63 : n = 0 \/ n \in 1..63
    OBVIOUS
  <2> HIDE DEF step
  <2> QED
    BY <1>2, <1>3, <2>1
<1>5. IsPow2(g)
  BY <1>4
<1>6. IsPow2(Pow2)
  <2>1. Pow2 = CHOOSE h : IsPow2(h)
    BY DEF Pow2
  <2> HIDE DEF IsPow2
  <2> QED
    BY <1>5, <2>1
<1>7. \A n \in 0..63 : Pow2[n] = g[n]
  <2> DEFINE P == {n \in Nat : n <= 63 => Pow2[n] = g[n]}
  <2>1. 0 \in P
    BY <1>4, <1>6
  <2>2. ASSUME NEW n \in P
        PROVE  n + 1 \in P
    <3> SUFFICES ASSUME n + 1 <= 63
                 PROVE  Pow2[n + 1] = g[n + 1]
      OBVIOUS
    <3>1. n \in 0..63 /\ n + 1 \in 0..63 /\ n + 1 # 0 /\ (n + 1) - 1 = n
          /\ Pow2[n] = g[n]
      OBVIOUS
    <3>2. Pow2[n + 1] = 2 * Pow2[n]
      BY <1>6, <3>1
    <3>3. g[n + 1] = 2 * g[n]
      BY <1>4, <3>1
    <3> QED
      BY <3>1, <3>2, <3>3
  <2>3. P = Nat
    <3> HIDE DEF P
    <3>1. P \subseteq Nat
      BY DEF P
    <3> QED
      BY <3>1, <2>1, <2>2, Induction
  <2> SUFFICES ASSUME NEW n \in 0..63
               PROVE  Pow2[n] = g[n]
    OBVIOUS
  <2>4. n \in P
    BY <2>3
  <2> QED
    BY <2>4
<1>8. Pow2[0] = 1
  BY <1>6
<1>9. \A n \in 1..63 : Pow2[n] = 2 * Pow2[n - 1]
  BY <1>6
<1>10. Pow2 \in [0..63 -> Nat \ {0}]
  <2>1. DOMAIN Pow2 = 0..63 /\ Pow2 = [n \in DOMAIN Pow2 |-> Pow2[n]]
    BY <1>6
  <2> HIDE DEF IsPow2
  <2> QED
    BY <1>2, <1>7, <2>1
<1> QED
  BY <1>8, <1>9, <1>10

\* After 63 halvings nothing is left of 50 bitcoins.
LEMMA AllShifted ==
    ASSUME NEW initial \in Nat, initial \div 100000000 <= 50
    PROVE  initial \div Pow2[63] = 0
<1>1. initial < 5100000000
  BY SMTT(30)
<1>2. \A n \in 0..53 : Pow2[n + 10] = 1024 * Pow2[n]
  <2> SUFFICES ASSUME NEW n \in 0..53
               PROVE  Pow2[n + 10] = 1024 * Pow2[n]
    OBVIOUS
  <2>1. \A k \in 1..10 : Pow2[n + k] = 2 * Pow2[n + (k - 1)]
    <3> SUFFICES ASSUME NEW k \in 1..10
                 PROVE  Pow2[n + k] = 2 * Pow2[n + (k - 1)]
      OBVIOUS
    <3>1. n + k \in 1..63 /\ (n + k) - 1 = n + (k - 1)
      OBVIOUS
    <3>2. Pow2[n + k] = 2 * Pow2[(n + k) - 1]
      BY <3>1, PowersOfTwo
    <3> QED
      BY <3>1, <3>2
  <2>2. n \in 0..63 /\ Pow2[n] \in Nat
    BY PowersOfTwo
  <2>3. Pow2[n + 1] = 2 * Pow2[n] /\ Pow2[n + 2] = 4 * Pow2[n]
        /\ Pow2[n + 3] = 8 * Pow2[n] /\ Pow2[n + 4] = 16 * Pow2[n]
    <3>1. /\ Pow2[n + 1] = 2 * Pow2[n + (1 - 1)] /\ Pow2[n + 2] = 2 * Pow2[n + (2 - 1)]
          /\ Pow2[n + 3] = 2 * Pow2[n + (3 - 1)] /\ Pow2[n + 4] = 2 * Pow2[n + (4 - 1)]
      BY <2>1
    <3> QED
      BY <2>2, <3>1
  <2>4. Pow2[n + 5] = 32 * Pow2[n] /\ Pow2[n + 6] = 64 * Pow2[n]
        /\ Pow2[n + 7] = 128 * Pow2[n]
    <3>1. /\ Pow2[n + 5] = 2 * Pow2[n + (5 - 1)] /\ Pow2[n + 6] = 2 * Pow2[n + (6 - 1)]
          /\ Pow2[n + 7] = 2 * Pow2[n + (7 - 1)]
      BY <2>1
    <3> QED
      BY <2>2, <2>3, <3>1
  <2>5. /\ Pow2[n + 8] = 2 * Pow2[n + (8 - 1)] /\ Pow2[n + 9] = 2 * Pow2[n + (9 - 1)]
        /\ Pow2[n + 10] = 2 * Pow2[n + (10 - 1)]
    BY <2>1
  <2> QED
    BY <2>2, <2>4, <2>5
<1>3. /\ Pow2[13] = 1024 * Pow2[3] /\ Pow2[23] = 1024 * Pow2[13]
      /\ Pow2[33] = 1024 * Pow2[23] /\ Pow2[43] = 1024 * Pow2[33]
      /\ Pow2[53] = 1024 * Pow2[43] /\ Pow2[63] = 1024 * Pow2[53]
  <2>1. /\ Pow2[3 + 10] = 1024 * Pow2[3] /\ Pow2[13 + 10] = 1024 * Pow2[13]
        /\ Pow2[23 + 10] = 1024 * Pow2[23] /\ Pow2[33 + 10] = 1024 * Pow2[33]
        /\ Pow2[43 + 10] = 1024 * Pow2[43] /\ Pow2[53 + 10] = 1024 * Pow2[53]
    BY <1>2
  <2> QED
    BY <2>1
<1>4. Pow2[3] = 8
  <2>1. /\ Pow2[1] = 2 * Pow2[1 - 1] /\ Pow2[2] = 2 * Pow2[2 - 1]
        /\ Pow2[3] = 2 * Pow2[3 - 1]
    BY PowersOfTwo
  <2> QED
    BY <2>1, PowersOfTwo
<1>5. Pow2[33] > 5100000000
  BY <1>3, <1>4
<1>6. /\ Pow2[43] > 5100000000
  BY <1>3, <1>5, PowersOfTwo
<1>7. /\ Pow2[53] > 5100000000
  BY <1>3, <1>6, PowersOfTwo
<1>8. /\ Pow2[63] > 5100000000 /\ Pow2[63] \in Nat \ {0}
  BY <1>3, <1>7, PowersOfTwo
<1>9. /\ 0 * Pow2[63] + initial = initial /\ initial \in 0..Pow2[63] - 1
  BY <1>1, <1>8
<1>10. (0 * Pow2[63] + initial) \div Pow2[63] = 0
  BY <1>8, <1>9, Quotient
<1> QED
  BY <1>9, <1>10

\* HalvingsAgree, of any call.
LEMMA HalvingsImplied ==
    ASSUME call \in Calls \cup {NoCall}
    PROVE  HalvingsAgree
<1> SUFFICES ASSUME call.fn = "height"
             PROVE  HalvingsAgree
  BY DEF HalvingsAgree
<1>1. call \in Calls
  BY DEF NoCall
<1>0. \A h \in Nat, i \in Nat \ {0} :
          h \div i \in Nat /\ h % i \in 0..i - 1 /\ h = (h \div i) * i + (h % i)
  BY Division
<1>2. /\ call.height \in Nat /\ call.interval \in Nat \ {0} /\ call.initial \in Nat
      /\ call.initial \div 100000000 <= 50
  BY <1>1, CallAssumption DEF HeightArgs
<1>3. PICK h, i, initial :
          h = call.height /\ i = call.interval /\ initial = call.initial
  OBVIOUS
<1>4. h \in Nat /\ i \in Nat \ {0} /\ initial \in Nat
  BY <1>2, <1>3
<1>5. PICK k, r : k = h \div i /\ r = h % i
  OBVIOUS
<1>6. k \in Nat /\ r \in 0..i - 1 /\ h = k * i + r
  BY <1>0, <1>4, <1>5
<1>7. initial \div Pow2[63] = 0
  BY <1>2, <1>3, AllShifted
<1> DEFINE left == i - r
           subsidy(n) == BlockSubsidy(n, initial, i)
<1>8. left \in 1..i /\ BlocksUntilHalving(h, i) = left
  BY <1>4, <1>5, <1>6 DEF BlocksUntilHalving
<1>9. (h + left) \div i = k + 1
  <2>1. h + left = (k + 1) * i + 0
    BY <1>4, <1>6, SMTT(30)
  <2>2. ((k + 1) * i + 0) \div i = k + 1
    <3>1. k + 1 \in Nat /\ 0 \in 0..i - 1
      BY <1>4, <1>6
    <3> QED
      BY <1>4, <3>1, Quotient
  <2> QED
    BY <2>1, <2>2
<1>10. \A n \in 0..left - 1 : (h + n) \div i = k
  <2> SUFFICES ASSUME NEW n \in 0..left - 1
               PROVE  (h + n) \div i = k
    OBVIOUS
  <2>1. r + n \in 0..i - 1 /\ h + n = k * i + (r + n)
    BY <1>4, <1>6
  <2>2. (k * i + (r + n)) \div i = k
    BY <1>4, <1>6, <2>1, Quotient
  <2> QED
    BY <2>1, <2>2
<1>11. subsidy(h) = IF k >= 64 THEN 0 ELSE initial \div Pow2[k]
  BY <1>4, <1>5 DEF BlockSubsidy
<1>12. subsidy(h + left) = IF k + 1 >= 64 THEN 0 ELSE initial \div Pow2[k + 1]
  BY <1>4, <1>9 DEF BlockSubsidy
<1>13. \A n \in 0..left - 1 : subsidy(h + n) = subsidy(h)
  BY <1>4, <1>10, <1>11 DEF BlockSubsidy
<1>14. subsidy(h + left) = subsidy(h) \div 2
  <2> HIDE DEF subsidy
  <2>1. CASE k >= 64
    BY <1>6, <1>11, <1>12, <2>1
  <2>2. CASE k = 63
    BY <1>7, <1>11, <1>12, <2>2
  <2>3. CASE k < 63
    <3>1. k + 1 \in 1..63 /\ k \in 0..63 /\ (k + 1) - 1 = k
      BY <1>6, <2>3
    <3>2. Pow2[k + 1] = 2 * Pow2[k] /\ Pow2[k] \in Nat \ {0}
      BY <3>1, PowersOfTwo
    <3>3. initial \div (2 * Pow2[k]) = (initial \div Pow2[k]) \div 2
      BY <1>4, <3>2, HalfOfShift
    <3> QED
      BY <1>11, <1>12, <2>3, <3>1, <3>2, <3>3
  <2> QED
    BY <1>6, <2>1, <2>2, <2>3
<1> QED
  BY <1>3, <1>8, <1>13, <1>14 DEF HalvingsAgree

\* The countdown and the subsidy agree, whatever the halving interval.
THEOREM HalvingsSafe == MCSpec => []HalvingsAgree
BY CallsOnly, HalvingsImplied, PTL

-----------------------------------------------------------------------------
(* The line *)

\* A snapshot as SnapshotArgs has it.
Waiting(s) == /\ IsFiniteSet(DOMAIN s)
              /\ \A t \in DOMAIN s : s[t] \in [rate : Nat, vsize : Nat \ {0}]

\* The vbytes of a part of the mempool: a measure of the part.
LEMMA VBytesIs ==
    ASSUME NEW s, Waiting(s)
    PROVE  /\ VBytes(s, {}) = 0
           /\ \A R \in SUBSET DOMAIN s : \A T \in SUBSET R :
                 /\ VBytes(s, T) \in Nat /\ VBytes(s, R) \in Nat
                 /\ VBytes(s, T) <= VBytes(s, R)
                 /\ VBytes(s, R) = VBytes(s, T) + VBytes(s, R \ T)
                 /\ T # R => VBytes(s, T) < VBytes(s, R)
<1> PICK f : f = [t \in DOMAIN s |-> s[t].vsize]
  OBVIOUS
<1>1. \A T : VBytes(s, T) = SumFunctionOnSet(f, T)
  BY DEF VBytes
<1>2. \A t \in DOMAIN s : f[t] \in Nat \ {0}
  BY DEF Waiting
<1>3. VBytes(s, {}) = 0
  BY <1>1, SumOfNone
<1>4. ASSUME NEW R \in SUBSET DOMAIN s, NEW T \in SUBSET R
      PROVE  /\ VBytes(s, T) \in Nat /\ VBytes(s, R) \in Nat
             /\ VBytes(s, T) <= VBytes(s, R)
             /\ VBytes(s, R) = VBytes(s, T) + VBytes(s, R \ T)
             /\ T # R => VBytes(s, T) < VBytes(s, R)
  <2>1. IsFiniteSet(R) /\ \A t \in R : f[t] \in Nat /\ f[t] \in Int
    BY <1>2, FS_Subset DEF Waiting
  <2>2. /\ SumFunctionOnSet(f, R) \in Nat
        /\ \A X \in SUBSET R : SumFunctionOnSet(f, X) \in Nat
              /\ SumFunctionOnSet(f, X) <= SumFunctionOnSet(f, R)
    BY <2>1, SumNat
  <2>3. SumFunctionOnSet(f, R) =
        SumFunctionOnSet(f, T) + SumFunctionOnSet(f, R \ T)
    BY <2>1, SumSplit
  <2>4. ASSUME T # R
        PROVE  SumFunctionOnSet(f, T) < SumFunctionOnSet(f, R)
    <3>1. PICK x \in R : x \notin T
      BY <2>4
    <3>2. SumFunctionOnSet(f, R) = f[x] + SumFunctionOnSet(f, R \ {x})
      BY <2>1, SumTake
    <3>3. PICK Q : Q = R \ {x} /\ IsFiniteSet(Q) /\ Q \in SUBSET R
      <4>1. IsFiniteSet(R \ {x})
        BY <2>1, <3>1, Smaller
      <4> QED
        BY <4>1
    <3>4. T \in SUBSET Q /\ \A t \in Q : f[t] \in Nat
      BY <2>1, <3>1, <3>3
    <3>5. SumFunctionOnSet(f, T) <= SumFunctionOnSet(f, Q)
      BY <3>3, <3>4, SumNat
    <3>6. f[x] \in Nat \ {0} /\ SumFunctionOnSet(f, T) \in Nat
          /\ SumFunctionOnSet(f, Q) \in Nat
      BY <1>2, <2>2, <3>3
    <3>7. SumFunctionOnSet(f, R) = f[x] + SumFunctionOnSet(f, Q)
      BY <3>2, <3>3
    <3> QED
      BY <3>5, <3>6, <3>7
  <2> QED
    BY <1>1, <2>2, <2>3, <2>4
<1> QED
  BY <1>3, <1>4

\* A descending order of the set T.
InOrder(s, T, line) ==
    \A i, j \in DOMAIN line : i < j => /\ line[i] # line[j]
                                       /\ s[line[i]].rate >= s[line[j]].rate

\* Every set of transactions can be put in a line.
LEMMA LineExists ==
    ASSUME NEW s, Waiting(s)
    PROVE  \E line \in [1..Cardinality(DOMAIN s) -> DOMAIN s] :
              InOrder(s, DOMAIN s, line)
<1> DEFINE D == DOMAIN s
           Sorted(T, n, line) == line \in [1..n -> T] /\ InOrder(s, T, line)
           P == {n \in Nat : \A T \in SUBSET D :
                    Cardinality(T) = n => \E line : Sorted(T, n, line)}
<1>1. \A T \in SUBSET D : IsFiniteSet(T) /\ Cardinality(T) \in Nat
  BY FS_Subset, FS_CardinalityType DEF Waiting
<1>2. \A t \in D : s[t].rate \in Nat
  BY DEF Waiting
<1>3. 0 \in P
  <2>1. \A T \in SUBSET D : Cardinality(T) = 0 => Sorted(T, 0, <<>>)
    <3> SUFFICES ASSUME NEW T \in SUBSET D, Cardinality(T) = 0
                 PROVE  Sorted(T, 0, <<>>)
      OBVIOUS
    <3>1. DOMAIN <<>> = {} /\ <<>> \in [1..0 -> T]
      OBVIOUS
    <3> QED
      BY <3>1 DEF InOrder
  <2> QED
    BY <2>1
<1>4. ASSUME NEW n \in P
      PROVE  n + 1 \in P
  <2>1. n \in Nat /\ \A T \in SUBSET D :
            Cardinality(T) = n => \E line : Sorted(T, n, line)
    OBVIOUS
  <2> SUFFICES ASSUME NEW T \in SUBSET D, Cardinality(T) = n + 1
               PROVE  \E line : Sorted(T, n + 1, line)
    BY <2>1
  <2> HIDE DEF P
  <2>2. PICK x \in T : \A t \in T : s[x].rate <= s[t].rate
    <3> DEFINE rates == {s[t].rate : t \in T}
    <3>0. PICK t : t \in T
      BY <2>1, FS_EmptySet
    <3>1. rates \in SUBSET Nat /\ rates # {}
      BY <1>2, <3>0
    <3>2. \E r \in rates : \A q \in rates : r <= q
      <4> HIDE DEF rates
      <4> QED
        BY <3>1, LeastNumber
    <3> QED
      BY <3>2
  <2>3. PICK R : R = T \ {x} /\ R \in SUBSET D /\ Cardinality(R) = n
    <3>1. IsFiniteSet(T)
      BY <1>1
    <3>2. Cardinality(T \ {x}) = Cardinality(T) - 1
      BY <3>1, Smaller
    <3> QED
      BY <2>1, <3>2
  <2>4. PICK l : Sorted(R, n, l)
    BY <2>1, <2>3
  <2> DEFINE line == [i \in 1..n + 1 |-> IF i = n + 1 THEN x ELSE l[i]]
  <2>5. \A i \in 1..n : i \in 1..n + 1 /\ i # n + 1 /\ line[i] = l[i] /\ l[i] \in R
    BY <2>1, <2>4
  <2>6. line[n + 1] = x /\ \A i \in 1..n + 1 : i = n + 1 \/ i \in 1..n
    BY <2>1
  <2>7. line \in [1..n + 1 -> T]
    BY <2>3, <2>5, <2>6
  <2>8. DOMAIN line = 1..n + 1
    OBVIOUS
  <2>9. ASSUME NEW i \in 1..n + 1, NEW j \in 1..n + 1, i < j
        PROVE  line[i] # line[j] /\ s[line[i]].rate >= s[line[j]].rate
    <3>1. i \in 1..n
      BY <2>1, <2>9
    <3>2. CASE j = n + 1
      <4>1. line[i] \in R /\ line[j] = x /\ s[x].rate \in Nat
        BY <1>2, <2>5, <2>6, <3>1, <3>2
      <4>2. line[i] # x /\ line[i] \in T
        BY <2>3, <4>1
      <4>3. s[x].rate <= s[line[i]].rate /\ s[line[i]].rate \in Nat
        BY <1>2, <2>2, <4>2
      <4> HIDE DEF line
      <4> QED
        BY <4>1, <4>2, <4>3
    <3>3. CASE j \in 1..n
      <4>1. l[i] # l[j] /\ s[l[i]].rate >= s[l[j]].rate
        BY <2>4, <2>9, <3>1, <3>3 DEF InOrder
      <4>2. line[i] = l[i] /\ line[j] = l[j]
        BY <2>5, <3>1, <3>3
      <4> HIDE DEF line
      <4> QED
        BY <4>1, <4>2
    <3> QED
      BY <2>6, <3>2, <3>3
  <2> HIDE DEF line
  <2>10. InOrder(s, T, line)
    BY <2>8, <2>9 DEF InOrder
  <2> QED
    BY <2>7, <2>10
<1>5. P = Nat
  <2> HIDE DEF P
  <2>1. P \subseteq Nat
    BY DEF P
  <2> QED
    BY <2>1, <1>3, <1>4, Induction
<1>6. Cardinality(D) \in P /\ D \in SUBSET D
  BY <1>1, <1>5
<1> QED
  BY <1>6

\* The line is in order, and everybody stands in it.
LEMMA LineIs ==
    ASSUME NEW s, Waiting(s)
    PROVE  /\ Cardinality(DOMAIN s) \in Nat
           /\ Line(s) \in [1..Cardinality(DOMAIN s) -> DOMAIN s]
           /\ \A i, j \in 1..Cardinality(DOMAIN s) :
                 i < j => /\ Line(s)[i] # Line(s)[j]
                          /\ s[Line(s)[i]].rate >= s[Line(s)[j]].rate
           /\ \A t \in DOMAIN s : \E i \in 1..Cardinality(DOMAIN s) : t = Line(s)[i]
<1>1. PICK n \in Nat : n = Cardinality(DOMAIN s)
  BY FS_CardinalityType DEF Waiting
<1>2. /\ Line(s) \in [1..n -> DOMAIN s]
      /\ \A i, j \in DOMAIN Line(s) : i < j =>
            /\ Line(s)[i] # Line(s)[j]
            /\ s[Line(s)[i]].rate >= s[Line(s)[j]].rate
  BY <1>1, LineExists DEF Line, InOrder
<1>3. DOMAIN Line(s) = 1..n
  BY <1>2
<1>4. PICK line : line = Line(s)
  OBVIOUS
<1>5. line \in Injection(1..n, DOMAIN s)
  <2>1. \A i, j \in 1..n : i < j \/ j < i \/ i = j
    OBVIOUS
  <2>2. \A i, j \in 1..n : line[i] = line[j] => i = j
    BY <1>2, <1>3, <1>4, <2>1
  <2> QED
    BY <1>2, <1>4, <2>2 DEF Injection, IsInjective
<1>6. IsFiniteSet(1..n) /\ Cardinality(1..n) = n
  BY FS_Interval
<1>7. line \in Surjection(1..n, DOMAIN s)
  BY <1>1, <1>5, <1>6, FS_Injection DEF Waiting
<1>8. \A t \in DOMAIN s : \E i \in 1..n : t = line[i]
  BY <1>7 DEF Surjection
<1> QED
  BY <1>1, <1>2, <1>3, <1>4, <1>8

\* Less than a block ahead is a place in the next block.
LEMMA ShareBelow ==
    ASSUME NEW ahead \in Nat, NEW block \in Nat \ {0}
    PROVE  ahead \div block + 1 = 1 <=> ahead < block
<1>1. ahead \div block \in Nat /\ ahead % block \in 0..block - 1
      /\ ahead = (ahead \div block) * block + (ahead % block)
  BY Division
<1>2. PICK q \in Nat, r \in 0..block - 1 : q = ahead \div block /\ ahead = q * block + r
  BY <1>1
<1>3. q = 0 => ahead < block
  BY <1>2
<1>4. q >= 1 => q * block >= block
  BY SMTT(30)
<1>5. q >= 1 => ahead >= block
  BY <1>2, <1>4
<1> QED
  BY <1>2, <1>3, <1>5

\* The rate of the next block: who pays it or more has less than a block
\* ahead, and nobody else.
LEMMA NextBlockIs ==
    ASSUME NEW s, Waiting(s), NEW t \in DOMAIN s
    PROVE  s[t].rate >= NextBlockRate(s) <=>
           VBytes(s, Ahead(s, t)) < VBytesPerBlock
<1> DEFINE n == Cardinality(DOMAIN s)
           line == Line(s)
           rate(i) == s[line[i]].rate
           first(i) == {line[j] : j \in 1..i}
           full == {i \in 1..n : VBytes(s, first(i)) >= VBytesPerBlock}
<1>1. /\ n \in Nat /\ line \in [1..n -> DOMAIN s]
      /\ \A i, j \in 1..n : i < j => line[i] # line[j] /\ rate(i) >= rate(j)
      /\ \A u \in DOMAIN s : \E i \in 1..n : u = line[i]
  BY LineIs
<1>2. /\ \A i \in 1..n : rate(i) \in Nat /\ first(i) \in SUBSET DOMAIN s
      /\ \A u \in DOMAIN s : s[u].rate \in Nat
  BY <1>1 DEF Waiting
<1>3. VBytesPerBlock \in Nat \ {0}
  BY LineAssumption
<1>4. /\ Ahead(s, t) \in SUBSET DOMAIN s
      /\ \A u : u \in Ahead(s, t) <=> u \in DOMAIN s /\ s[u].rate > s[t].rate
  BY <1>2 DEF Ahead
<1>5. n # 0 /\ n \in 1..n /\ first(n) = DOMAIN s
  <2>1. n # 0 /\ n \in 1..n
    <3>1. PICK i \in 1..n : t = line[i]
      BY <1>1
    <3> QED
      BY <1>1, <3>1
  <2>2. first(n) \subseteq DOMAIN s
    BY <1>2, <2>1
  <2>3. \A u \in DOMAIN s : u \in first(n)
    BY <1>1
  <2> QED
    BY <2>1, <2>2, <2>3
<1>6. DOMAIN line = 1..n /\ Len(line) = n /\ line # <<>>
  BY <1>1, <1>5
<1>7. full = {i \in DOMAIN line : Fills(UpTo(s, line, i))}
  BY <1>6 DEF Fills, UpTo
<1>8. \A i \in 1..n : VBytes(s, first(i)) \in Nat
  BY <1>2, VBytesIs
<1>9. VBytes(s, Ahead(s, t)) \in Nat
  BY <1>4, VBytesIs
<1>10. CASE full = {}
  <2>1. NextBlockRate(s) = rate(n)
    BY <1>6, <1>7, <1>10 DEF NextBlockRate, Last
  <2>2. s[t].rate >= rate(n)
    <3>1. PICK i \in 1..n : t = line[i]
      BY <1>1
    <3>2. i < n \/ i = n
      BY <1>1
    <3> QED
      BY <1>1, <1>2, <1>5, <3>1, <3>2
  <2>3. VBytes(s, first(n)) < VBytesPerBlock
    BY <1>3, <1>5, <1>8, <1>10
  <2>4. VBytes(s, Ahead(s, t)) <= VBytes(s, first(n))
    BY <1>4, <1>5, VBytesIs
  <2> QED
    BY <1>3, <1>5, <1>8, <1>9, <2>1, <2>2, <2>3, <2>4
<1>11. CASE full # {}
  <2>1. PICK m \in full : \A j \in full : m <= j
    <3>1. full \in SUBSET Nat
      BY <1>1
    <3> HIDE DEF full
    <3> QED
      BY <1>11, <3>1, LeastNumber
  <2>2. (CHOOSE i \in full : \A j \in full : i <= j) = m
    <3>1. \A i \in full : i \in Nat
      BY <1>1
    <3> HIDE DEF full
    <3> QED
      BY <2>1, <3>1
  <2>3. NextBlockRate(s) = rate(m)
    <3> HIDE DEF full
    <3> QED
      BY <1>6, <1>7, <1>11, <2>2 DEF NextBlockRate
  <2>4. m \in 1..n /\ VBytes(s, first(m)) >= VBytesPerBlock
    BY <2>1
  <2>5. CASE s[t].rate >= rate(m)
    <3>1. \A u \in Ahead(s, t) : \E j \in 1..m - 1 : u = line[j]
      <4> SUFFICES ASSUME NEW u \in Ahead(s, t)
                   PROVE  \E j \in 1..m - 1 : u = line[j]
        OBVIOUS
      <4>1. PICK j \in 1..n : u = line[j]
        BY <1>1, <1>4
      <4>2. rate(j) > rate(m)
        BY <1>2, <1>4, <2>4, <2>5, <4>1
      <4>3. j < m
        BY <1>1, <1>2, <2>4, <4>2
      <4> QED
        BY <1>1, <2>4, <4>1, <4>3
    <3>2. CASE m = 1
      <4>1. Ahead(s, t) = {}
        BY <3>1, <3>2
      <4> QED
        BY <1>3, <2>3, <2>5, <4>1, VBytesIs
    <3>3. CASE m # 1
      <4>1. m - 1 \in 1..n /\ ~(m <= m - 1)
        BY <1>1, <2>4, <3>3
      <4>2. m - 1 \notin full
        <5> HIDE DEF full
        <5> QED
          BY <2>1, <4>1
      <4>3. VBytes(s, first(m - 1)) < VBytesPerBlock
        BY <1>3, <1>8, <4>1, <4>2
      <4>4. Ahead(s, t) \in SUBSET first(m - 1)
        BY <3>1
      <4>5. VBytes(s, Ahead(s, t)) <= VBytes(s, first(m - 1))
        BY <1>2, <4>1, <4>4, VBytesIs
      <4> QED
        BY <1>3, <1>8, <1>9, <2>3, <2>5, <4>1, <4>3, <4>5
    <3> QED
      BY <3>2, <3>3
  <2>6. CASE s[t].rate < rate(m)
    <3>1. first(m) \in SUBSET Ahead(s, t)
      <4> SUFFICES ASSUME NEW j \in 1..m
                   PROVE  line[j] \in Ahead(s, t)
        OBVIOUS
      <4>1. j \in 1..n /\ (j < m \/ j = m)
        BY <1>1, <2>4
      <4>2. rate(j) >= rate(m)
        BY <1>1, <1>2, <2>4, <4>1
      <4> QED
        BY <1>1, <1>2, <1>4, <2>4, <2>6, <4>1, <4>2
    <3>2. VBytes(s, first(m)) <= VBytes(s, Ahead(s, t))
      BY <1>4, <3>1, VBytesIs
    <3> QED
      BY <1>2, <1>3, <1>8, <1>9, <2>3, <2>4, <2>6, <3>2
  <2> QED
    BY <1>2, <2>4, <2>5, <2>6
<1> QED
  BY <1>10, <1>11

\* The bands share the line among them.
LEMMA BandsAreAll ==
    ASSUME NEW s, Waiting(s)
    PROVE  SumFunction(Bands(s)) = Total(s)
<1> DEFINE D == DOMAIN BandMins
           of(b) == {t \in DOMAIN s : BandOf(s[t].rate) = b}
           within(B) == {t \in DOMAIN s : BandOf(s[t].rate) \in B}
           f == Bands(s)
           P == {B \in SUBSET D : SumFunctionOnSet(f, B) = VBytes(s, within(B))}
<1>1. D = 1..Len(BandMins) /\ Len(BandMins) \in Nat \ {0}
      /\ \A b \in D : BandMins[b] \in Nat
  BY LineAssumption
<1>2. IsFiniteSet(D)
  BY <1>1, FS_Interval
<1>3. \A r \in Nat : BandOf(r) \in D
  <2> SUFFICES ASSUME NEW r \in Nat
               PROVE  BandOf(r) \in D
    OBVIOUS
  <2> DEFINE R == {b \in D : r >= BandMins[b]}
  <2>1. CASE R = {}
    BY <1>1, <2>1 DEF BandOf
  <2>2. CASE R # {}
    <3>1. \E b \in R : \A c \in R : b <= c
      <4>1. R \in SUBSET Nat
        BY <1>1
      <4> HIDE DEF R
      <4> QED
        BY <2>2, <4>1, LeastNumber
    <3>2. PICK b \in R : \A c \in R : b <= c
      BY <3>1
    <3>3. b \in D /\ r >= BandMins[b] /\ \A c \in 1..b - 1 : r < BandMins[c]
      <4> SUFFICES ASSUME NEW c \in 1..b - 1
                   PROVE  r < BandMins[c]
        OBVIOUS
      <4>1. c \in D /\ ~(b <= c)
        BY <1>1
      <4>2. c \notin R
        <5> HIDE DEF R
        <5> QED
          BY <3>2, <4>1
      <4> QED
        BY <1>1, <4>1, <4>2
    <3> QED
      BY <3>3 DEF BandOf
  <2> QED
    BY <2>1, <2>2
<1>4. \A b \in D : f[b] = VBytes(s, of(b)) /\ f[b] \in Nat
  <2>1. \A b \in D : f[b] = VBytes(s, of(b))
    BY DEF Bands
  <2>2. \A b \in D : of(b) \in SUBSET DOMAIN s
    OBVIOUS
  <2>3. \A b \in D : VBytes(s, of(b)) \in Nat
    <3> HIDE DEF of
    <3> QED
      BY <2>2, VBytesIs
  <2> QED
    BY <2>1, <2>3
<1>5. {} \in P
  <2>1. within({}) = {}
    OBVIOUS
  <2> QED
    BY <2>1, SumOfNone, VBytesIs
<1>6. ASSUME NEW B \in P, NEW b \in D \ B
      PROVE  B \cup {b} \in P
  <2>1. IsFiniteSet(B) /\ \A c \in B \cup {b} : f[c] \in Int
    <3>1. B \in SUBSET D /\ b \in D
      OBVIOUS
    <3>2. \A c \in B \cup {b} : f[c] \in Nat
      <4> HIDE DEF f, P
      <4> QED
        BY <1>4, <3>1
    <3>3. IsFiniteSet(B)
      BY <1>2, <3>1, FS_Subset
    <3> QED
      BY <3>2, <3>3
  <2>2. SumFunctionOnSet(f, B \cup {b}) = f[b] + SumFunctionOnSet(f, B)
    <3> HIDE DEF f
    <3> QED
      BY <1>6, <2>1, SumAdd
  <2>3. PICK X, Y, Z : X = within(B \cup {b}) /\ Y = of(b) /\ Z = within(B)
    OBVIOUS
  <2>4. X \in SUBSET DOMAIN s /\ Y \in SUBSET X /\ X \ Y = Z
    BY <2>3
  <2>5. VBytes(s, X) = VBytes(s, Y) + VBytes(s, X \ Y)
    <3> HIDE DEF P
    <3> QED
      BY <2>4, VBytesIs
  <2>6. VBytes(s, within(B \cup {b})) = f[b] + VBytes(s, within(B))
    BY <1>4, <2>3, <2>4, <2>5
  <2>7. B \cup {b} \in SUBSET D
    OBVIOUS
  <2> HIDE DEF f, within, of
  <2> QED
    BY <2>2, <2>6, <2>7
<1>7. P \in SUBSET (SUBSET D)
  OBVIOUS
<1>8. D \in P
  <2> HIDE DEF P, D
  <2> QED
    BY <1>2, <1>5, <1>6, <1>7, SetInduction
<1>9. within(D) = DOMAIN s
  BY <1>3 DEF Waiting
<1>10. DOMAIN f = D
  BY DEF Bands
<1> QED
  BY <1>8, <1>9, <1>10 DEF SumFunction, Total

\* LineAgrees, of any call.
LEMMA LineImplied ==
    ASSUME call \in Calls \cup {NoCall}
    PROVE  LineAgrees
<1> SUFFICES ASSUME call.fn = "snapshot"
             PROVE  LineAgrees
  BY DEF LineAgrees
<1>1. call \in Calls
  BY DEF NoCall
<1>2. PICK s : s = call.snapshot
  OBVIOUS
<1>3. Waiting(s)
  BY <1>1, <1>2, CallAssumption DEF SnapshotArgs, Waiting
<1>4. ASSUME NEW t \in DOMAIN s
      PROVE  /\ EtaBlocks(s, t) = 1 <=> s[t].rate >= NextBlockRate(s)
             /\ EtaBlocks(s, t) = 1 <=> MarkerBeforeCutoff(s, t)
  <2>1. PICK ahead : ahead = VBytes(s, Ahead(s, t))
    OBVIOUS
  <2>2. Ahead(s, t) \in SUBSET DOMAIN s /\ t \notin Ahead(s, t)
    BY DEF Ahead
  <2>3. /\ ahead \in Nat
        /\ Ahead(s, t) # DOMAIN s => ahead < VBytes(s, DOMAIN s)
    BY <1>3, <2>1, <2>2, VBytesIs
  <2>4. ahead < Total(s)
    BY <2>2, <2>3 DEF Total
  <2>5. VBytesPerBlock \in Nat \ {0}
    BY LineAssumption
  <2>6. EtaBlocks(s, t) = 1 <=> ahead < VBytesPerBlock
    BY <2>1, <2>3, <2>5, ShareBelow DEF EtaBlocks
  <2>7. MarkerBeforeCutoff(s, t) <=> ahead < VBytesPerBlock
    BY <2>1, <2>4 DEF MarkerBeforeCutoff
  <2>8. s[t].rate >= NextBlockRate(s) <=> ahead < VBytesPerBlock
    BY <1>3, <2>1, NextBlockIs
  <2> QED
    BY <2>6, <2>7, <2>8
<1>5. SumFunction(Bands(s)) = Total(s)
  BY <1>3, BandsAreAll
<1> QED
  BY <1>2, <1>4, <1>5 DEF LineAgrees

\* The place of a pending transaction agrees with the queue, for any mempool,
\* any bands and any size of a block.
THEOREM LineSafe == MCSpec => []LineAgrees
BY CallsOnly, LineImplied, PTL

-----------------------------------------------------------------------------
(* The tiers *)

\* What pays the percentile or less is at least that share of the vbytes.
LEMMA PercentileIs ==
    ASSUME NEW s, Waiting(s), DOMAIN s # {}, NEW percent \in 0..100
    PROVE  /\ Percentile(s, percent) \in Nat
           /\ percent * Total(s) <=
                 100 * VBytes(s, {t \in DOMAIN s : s[t].rate <= Percentile(s, percent)})
<1> DEFINE n == Cardinality(DOMAIN s)
           line == Line(s)
           up == Reverse(Line(s))
           rate(i) == s[up[i]].rate
           first(i) == {up[j] : j \in 1..i}
           enough == {i \in 1..n : 100 * VBytes(s, first(i)) >= percent * Total(s)}
<1>1. /\ n \in Nat /\ line \in [1..n -> DOMAIN s]
      /\ \A i, j \in 1..n : i < j => s[line[i]].rate >= s[line[j]].rate
      /\ \A u \in DOMAIN s : \E i \in 1..n : u = line[i]
  BY LineIs
<1>2. n # 0 /\ n \in 1..n
  <2>1. PICK u : u \in DOMAIN s
    OBVIOUS
  <2>2. PICK i \in 1..n : u = line[i]
    BY <1>1, <2>1
  <2> QED
    BY <1>1, <2>2
<1>3. Len(line) = n
  BY <1>1
<1>4. up = [i \in 1..n |-> line[(n - i) + 1]]
  BY <1>3 DEF Reverse
<1>5. \A i \in 1..n : (n - i) + 1 \in 1..n /\ up[i] = line[(n - i) + 1]
  BY <1>1, <1>4
<1>6. \A i \in 1..n : up[i] \in DOMAIN s /\ rate(i) \in Nat
  BY <1>1, <1>5 DEF Waiting
<1>7. \A i, j \in 1..n : i < j => rate(i) <= rate(j)
  <2> SUFFICES ASSUME NEW i \in 1..n, NEW j \in 1..n, i < j
               PROVE  rate(i) <= rate(j)
    OBVIOUS
  <2>1. PICK a \in 1..n, b \in 1..n : a = (n - i) + 1 /\ b = (n - j) + 1
    BY <1>5
  <2>2. b < a
    BY <1>1, <2>1
  <2>3. s[line[b]].rate >= s[line[a]].rate
    BY <1>1, <2>2
  <2>4. up[i] = line[a] /\ up[j] = line[b]
    BY <1>5, <2>1
  <2>5. rate(i) = s[line[a]].rate /\ rate(j) = s[line[b]].rate
    BY <2>4
  <2>6. rate(i) \in Nat /\ rate(j) \in Nat
    BY <1>6
  <2> HIDE DEF rate
  <2> QED
    BY <2>3, <2>5, <2>6
<1>8. first(n) = DOMAIN s
  <2>1. \A u \in DOMAIN s : \E i \in 1..n : u = up[i]
    <3> SUFFICES ASSUME NEW u \in DOMAIN s
                 PROVE  \E i \in 1..n : u = up[i]
      OBVIOUS
    <3>1. PICK j \in 1..n : u = line[j]
      BY <1>1
    <3>2. (n - j) + 1 \in 1..n /\ (n - ((n - j) + 1)) + 1 = j
      BY <1>1
    <3>3. up[(n - j) + 1] = line[j]
      BY <1>5, <3>2
    <3> QED
      BY <3>1, <3>2, <3>3
  <2>2. first(n) \subseteq DOMAIN s
    BY <1>6
  <2>3. \A u \in DOMAIN s : u \in first(n)
    BY <2>1
  <2> QED
    BY <2>2, <2>3
<1>9. \A i \in 1..n : first(i) \in SUBSET DOMAIN s
  <2>1. \A i \in 1..n : \A j \in 1..i : j \in 1..n
    BY <1>1
  <2> QED
    BY <1>6, <2>1
<1>10. Total(s) \in Nat
  BY VBytesIs DEF Total
<1>11. n \in enough
  <2>1. VBytes(s, first(n)) = Total(s)
    BY <1>8 DEF Total
  <2>2. 100 * Total(s) >= percent * Total(s)
    <3>1. PICK total \in Nat : total = Total(s)
      BY <1>10
    <3>2. 100 * total >= percent * total
      BY SMTT(30)
    <3> QED
      BY <3>1, <3>2
  <2> HIDE DEF first
  <2> QED
    BY <1>2, <2>1, <2>2
<1>12. PICK m \in enough : \A j \in enough : m <= j
  <2>1. enough \in SUBSET Nat /\ enough # {}
    <3>1. \A i \in 1..n : i \in Nat
      BY <1>1
    <3> QED
      BY <1>11, <3>1
  <2> HIDE DEF enough
  <2> QED
    BY <2>1, LeastNumber
<1>13. (CHOOSE i \in enough : \A j \in enough : i <= j) = m
  <2>1. \A i \in enough : i \in Nat
    BY <1>1
  <2> HIDE DEF enough
  <2> QED
    BY <1>12, <2>1
<1>14. DOMAIN up = 1..n
  BY <1>4
<1>15. enough = {i \in DOMAIN up :
                    100 * UpTo(s, up, i) >= percent * Total(s)}
  BY <1>14 DEF UpTo
<1>16. Percentile(s, percent) = rate(m)
  <2> HIDE DEF enough
  <2> QED
    BY <1>13, <1>15 DEF Percentile
<1>17. m \in 1..n /\ 100 * VBytes(s, first(m)) >= percent * Total(s)
  BY <1>12
<1>18. PICK paid : paid = {t \in DOMAIN s : s[t].rate <= rate(m)}
  OBVIOUS
<1>19. first(m) \in SUBSET paid /\ paid \in SUBSET DOMAIN s
  <2> SUFFICES ASSUME NEW j \in 1..m
               PROVE  up[j] \in DOMAIN s /\ rate(j) <= rate(m)
    BY <1>18
  <2>1. j \in 1..n /\ (j < m \/ j = m)
    BY <1>1, <1>17
  <2> QED
    BY <1>6, <1>7, <1>17, <2>1
<1>20. VBytes(s, first(m)) <= VBytes(s, paid)
       /\ VBytes(s, first(m)) \in Nat /\ VBytes(s, paid) \in Nat
  <2> HIDE DEF first
  <2> QED
    BY <1>19, VBytesIs
<1>21. percent * Total(s) <= 100 * VBytes(s, paid)
  <2>1. percent * Total(s) \in Int
    BY <1>10
  <2> HIDE DEF first
  <2> QED
    BY <1>17, <1>20, <2>1
<1> QED
  BY <1>6, <1>16, <1>17, <1>18, <1>21

\* Rounding takes away less than half a tenth.
LEMMA RoundedIs ==
    ASSUME NEW x \in Nat
    PROVE  Rounded(x) \in Nat /\ x <= Rounded(x) + 4
<1>1. Rounded(x) = ((x + 5) \div 10) * 10
  BY DEF Rounded
<1> QED
  BY <1>1

\* TiersCover, of any call.
LEMMA TiersImplied ==
    ASSUME call \in Calls \cup {NoCall}
    PROVE  TiersCover
<1> SUFFICES ASSUME call.fn = "snapshot"
             PROVE  TiersCover
  BY DEF TiersCover
<1>1. call \in Calls
  BY DEF NoCall
<1>2. PICK s : s = call.snapshot
  OBVIOUS
<1>3. Waiting(s)
  BY <1>1, <1>2, CallAssumption DEF SnapshotArgs, Waiting
<1> DEFINE paying(r) == {t \in DOMAIN s : s[t].rate <= r + 5}
           covers(r, percent) == percent * Total(s) <= 100 * VBytes(s, paying(r))
           raw(percent, floor) ==
               Rounded(IF DOMAIN s = {} THEN floor
                       ELSE Greater(Percentile(s, percent), floor))
<1>4. ASSUME NEW percent \in 0..100, NEW floor \in Nat
      PROVE  /\ raw(percent, floor) \in Nat
             /\ \A r \in Nat : raw(percent, floor) <= r => covers(r, percent)
  <2>1. CASE DOMAIN s = {}
    <3>1. Total(s) = 0 /\ \A r : paying(r) = {}
      BY <1>3, <2>1, VBytesIs DEF Total
    <3>2. \A r : VBytes(s, paying(r)) = 0
      BY <1>3, <3>1, VBytesIs
    <3>3. \A r : covers(r, percent)
      <4>1. percent * 0 <= 100 * 0
        OBVIOUS
      <4> HIDE DEF paying
      <4> QED
        BY <3>1, <3>2, <4>1
    <3>4. raw(percent, floor) \in Nat
      BY <2>1, RoundedIs
    <3> QED
      BY <3>3, <3>4
  <2>2. CASE DOMAIN s # {}
    <3>1. PICK p \in Nat : p = Percentile(s, percent)
      BY <1>3, <2>2, PercentileIs
    <3>2. percent * Total(s) <= 100 * VBytes(s, {t \in DOMAIN s : s[t].rate <= p})
      BY <1>3, <2>2, <3>1, PercentileIs
    <3>3. PICK x \in Nat : x = Greater(p, floor) /\ p <= x
      BY DEF Greater
    <3>4. raw(percent, floor) = Rounded(x)
      BY <2>2, <3>1, <3>3
    <3>5. Rounded(x) \in Nat /\ x <= Rounded(x) + 4
      BY RoundedIs
    <3>6. ASSUME NEW r \in Nat, Rounded(x) <= r
          PROVE  covers(r, percent)
      <4>1. p <= r + 5
        BY <3>3, <3>5, <3>6
      <4>2. PICK X, Y : X = {t \in DOMAIN s : s[t].rate <= p} /\ Y = paying(r)
        OBVIOUS
      <4>3. X \in SUBSET Y /\ Y \in SUBSET DOMAIN s
        BY <1>3, <4>1, <4>2 DEF Waiting
      <4>4. VBytes(s, X) <= VBytes(s, Y) /\ VBytes(s, X) \in Nat /\ VBytes(s, Y) \in Nat
        BY <1>3, <4>3, VBytesIs
      <4>5. Total(s) \in Nat
        BY <1>3, VBytesIs DEF Total
      <4>6. percent * Total(s) \in Int
        BY <4>5
      <4>7. percent * Total(s) <= 100 * VBytes(s, Y)
        BY <3>2, <4>2, <4>4, <4>6
      <4> QED
        BY <4>2, <4>7
    <3> HIDE DEF raw, covers
    <3> QED
      BY <3>4, <3>5, <3>6
  <2> QED
    BY <2>1, <2>2
<1>5. Floors.slow \in Nat /\ Floors.standard \in Nat /\ Floors.urgent \in Nat
  BY LineAssumption
<1> DEFINE Tier(x, percent) ==
               x \in Nat /\ \A r \in Nat : x <= r => covers(r, percent)
<1>6. PICK a, b, c : /\ a = raw(25, Floors.slow) /\ b = raw(50, Floors.standard)
                     /\ c = raw(90, Floors.urgent)
  OBVIOUS
<1>11. Tier(a, 25) /\ Tier(b, 50) /\ Tier(c, 90)
  <2>1. \A percent \in 0..100, floor \in Nat : Tier(raw(percent, floor), percent)
    <3> HIDE DEF raw, covers
    <3> QED
      BY <1>4
  <2> HIDE DEF Tier, raw
  <2>2. 25 \in 0..100 /\ 50 \in 0..100 /\ 90 \in 0..100
    OBVIOUS
  <2>3. Tier(raw(25, Floors.slow), 25)
    BY <1>5, <2>1, <2>2
  <2>4. Tier(raw(50, Floors.standard), 50)
    BY <1>5, <2>1, <2>2
  <2>5. Tier(raw(90, Floors.urgent), 90)
    BY <1>5, <2>1, <2>2
  <2> QED
    BY <1>6, <2>3, <2>4, <2>5
<1>12. a \in Nat /\ b \in Nat /\ c \in Nat
  BY <1>11
<1>7. PICK slow, standard, urgent :
          /\ slow = Greater(a, SatPerVb) /\ standard = Greater(b, slow)
          /\ urgent = Greater(c, standard)
  OBVIOUS
<1>8. tierRates(s) = [slow |-> slow, standard |-> standard, urgent |-> urgent]
  BY <1>6, <1>7 DEF tierRates
<1>9. /\ slow \in Nat /\ standard \in Nat /\ urgent \in Nat
      /\ SatPerVb <= slow /\ slow <= standard /\ standard <= urgent
      /\ a <= slow /\ b <= standard /\ c <= urgent
  BY <1>7, <1>12 DEF Greater, SatPerVb
<1>10. covers(slow, 25) /\ covers(standard, 50) /\ covers(urgent, 90)
  <2> HIDE DEF covers
  <2> QED
    BY <1>9, <1>11
<1> QED
  BY <1>2, <1>8, <1>9, <1>10 DEF TiersCover

\* Each tier covers its share of any mempool, whatever the floors.
THEOREM TiersSafe == MCSpec => []TiersCover
BY CallsOnly, TiersImplied, PTL

-----------------------------------------------------------------------------
(* The cards *)

\* Zeros sum to zero.
LEMMA SumOfZeros ==
    ASSUME NEW S, IsFiniteSet(S), NEW f, \A x \in S : f[x] = 0
    PROVE  SumFunctionOnSet(f, S) = 0
<1> DEFINE P == {s \in SUBSET S : SumFunctionOnSet(f, s) = 0}
<1>1. {} \in P
  BY SumOfNone
<1>2. ASSUME NEW s \in P, NEW x \in S \ s
      PROVE  s \cup {x} \in P
  <2>1. IsFiniteSet(s) /\ \A y \in s \cup {x} : f[y] \in Int
    BY FS_Subset
  <2>2. SumFunctionOnSet(f, s \cup {x}) = f[x] + SumFunctionOnSet(f, s)
    BY <1>2, <2>1, SumAdd
  <2> QED
    BY <2>2
<1>3. P \in SUBSET (SUBSET S)
  OBVIOUS
<1>4. S \in P
  <2> HIDE DEF P
  <2> QED
    BY <1>1, <1>2, <1>3, SetInduction
<1> QED
  BY <1>4

\* The headline and the rows of a transaction.
LEMMA HeadlineIs ==
    ASSUME NEW outs, DOMAIN outs = 1..Len(outs), Len(outs) \in Nat,
           \A i \in DOMAIN outs : outs[i].sats \in Nat, NEW from
    PROVE  LET change == ChangeRows(outs, from)
               kept == {i \in DOMAIN outs : i \notin change}
           IN  /\ Amount(outs, from) =
                     SumFunctionOnSet([i \in DOMAIN outs |-> outs[i].sats], kept)
               /\ \A i \in change : outs[i].addr \in from
               /\ outs # <<>> => kept # {}
<1> DEFINE D == DOMAIN outs
           flagged == {i \in D : IsChange(outs[i], from)}
           change == ChangeRows(outs, from)
           kept == {i \in D : i \notin change}
           f == [i \in D |-> outs[i].sats]
           g == [i \in D |-> IF IsChange(outs[i], from) THEN 0 ELSE outs[i].sats]
<1>1. change = IF flagged = D THEN {} ELSE flagged
  BY DEF ChangeRows
<1>2. IsFiniteSet(D) /\ DOMAIN f = D /\ DOMAIN g = D
  BY FS_Interval
<1>3. \A i \in D : f[i] \in Nat /\ g[i] \in Nat
  OBVIOUS
<1>4. \A i \in change : outs[i].addr \in from
  BY <1>1 DEF IsChange
<1>5. outs # <<>> => kept # {}
  <2> SUFFICES ASSUME outs # <<>>, kept = {}
               PROVE  FALSE
    OBVIOUS
  <2>1. D # {}
    BY <1>1
  <2>2. D \subseteq change
    OBVIOUS
  <2> QED
    BY <1>1, <2>1, <2>2
<1>6. CASE flagged = D
  <2>1. kept = D /\ Amount(outs, from) = SumFunctionOnSet(f, D)
    BY <1>1, <1>2, <1>6 DEF Amount, SatsOf, SumFunction
  <2> QED
    BY <1>4, <1>5, <2>1
<1>7. CASE flagged # D
  <2>1. Amount(outs, from) = SumFunctionOnSet(g, D)
    BY <1>2, <1>7 DEF Amount, SumFunction
  <2>2. kept = {i \in D : ~IsChange(outs[i], from)} /\ D \ kept = flagged
    BY <1>1, <1>7
  <2>3. /\ IsFiniteSet(kept) /\ IsFiniteSet(flagged)
        /\ kept \in SUBSET D /\ flagged \in SUBSET D
    BY <1>2, <2>2, FS_Subset
  <2>4. SumFunctionOnSet(g, D) =
        SumFunctionOnSet(g, kept) + SumFunctionOnSet(g, D \ kept)
    <3>1. \A i \in D : g[i] \in Int
      BY <1>3
    <3> HIDE DEF g, D, kept, flagged
    <3> QED
      BY <1>2, <2>3, <3>1, SumSplit
  <2>5. \A i \in flagged : g[i] = 0
    OBVIOUS
  <2>6. SumFunctionOnSet(g, D \ kept) = 0
    <3> HIDE DEF g, D, kept, flagged
    <3> QED
      BY <2>2, <2>3, <2>5, SumOfZeros
  <2>7. \A i \in kept : f[i] \in Int /\ g[i] = f[i]
    BY <1>3, <2>2
  <2>8. SumFunctionOnSet(f, kept) = SumFunctionOnSet(g, kept)
        /\ SumFunctionOnSet(f, kept) \in Int
    <3> HIDE DEF f, g, D, kept, flagged
    <3> QED
      BY <2>3, <2>7, SumSame, SumInt
  <2>9. Amount(outs, from) = SumFunctionOnSet(f, kept)
    <3> HIDE DEF f, g, D, kept, flagged
    <3> QED
      BY <2>1, <2>4, <2>6, <2>8
  <2> QED
    BY <1>4, <1>5, <2>9
<1> QED
  BY <1>6, <1>7

\* Activity, summed, is the balance.
LEMMA BalanceIs ==
    ASSUME NEW txs \in Seq([sent : Nat, recv : Nat, fee : Int, known : BOOLEAN])
    PROVE  SumFunction([i \in DOMAIN txs |-> Effect(txs[i])]) =
           SumFunction([i \in DOMAIN txs |-> txs[i].recv - txs[i].sent])
<1> DEFINE D == DOMAIN txs
           f == [i \in D |-> txs[i].recv - txs[i].sent]
           g == [i \in D |-> Effect(txs[i])]
<1>1. IsFiniteSet(D)
  BY FS_Interval
<1>2. ASSUME NEW i \in D
      PROVE  f[i] \in Int /\ g[i] = f[i]
  <2>1. PICK tx \in [sent : Nat, recv : Nat, fee : Int, known : BOOLEAN] : tx = txs[i]
    <3>1. PICK R : R = [sent : Nat, recv : Nat, fee : Int, known : BOOLEAN]
      OBVIOUS
    <3>2. txs \in Seq(R)
      BY <3>1
    <3>3. txs[i] \in R
      BY <3>2
    <3> QED
      BY <3>1, <3>3
  <2>2. tx.sent \in Nat /\ tx.recv \in Nat
    OBVIOUS
  <2>3. CASE tx.sent = 0
    <3>1. activityFor(tx) = [direction |-> "received", amount |-> tx.recv]
      BY <2>3 DEF activityFor
    <3> QED
      BY <2>1, <2>2, <2>3, <3>1 DEF Effect
  <2>4. CASE tx.sent # 0 /\ tx.recv = 0
    <3>1. activityFor(tx) = [direction |-> "sent", amount |-> tx.sent]
      BY <2>4 DEF activityFor
    <3> QED
      BY <2>1, <2>2, <2>4, <3>1 DEF Effect
  <2>5. CASE tx.sent # 0 /\ tx.recv # 0
    <3>1. PICK direction \in {"self", "sent"} :
              activityFor(tx) = [direction |-> direction, amount |-> tx.sent - tx.recv]
      BY <2>5 DEF activityFor
    <3> QED
      BY <2>1, <2>2, <3>1 DEF Effect
  <2> QED
    BY <2>3, <2>4, <2>5
<1>3. SumFunctionOnSet(f, D) = SumFunctionOnSet(g, D)
  <2> HIDE DEF f, g, D
  <2> QED
    BY <1>1, <1>2, SumSame
<1>4. DOMAIN f = D /\ DOMAIN g = D
  OBVIOUS
<1> QED
  BY <1>3, <1>4 DEF SumFunction

\* dominantCode, of a list with the counts and first places of its codes: K[i]
\* counts each code among the first i, and F has its first place.
Counts(codes, C, K, F) ==
    /\ \A c \in C : K[0][c] = 0
    /\ \A i \in 1..Len(codes) : \A c \in C :
          K[i][c] = K[i - 1][c] + (IF codes[i] = c THEN 1 ELSE 0)
    /\ \A i \in 0..Len(codes) : K[i] \in [C -> Nat]
    /\ F \in [C -> Nat] /\ \A c, d \in C : F[c] = F[d] => c = d

\* b is the best of the first i.
BestOf(b, i, C, K, F) ==
    \/ b.code = NoCode /\ b.count = 0 /\ \A c \in C : K[i][c] = 0
    \/ /\ b.code \in C /\ b.count = K[i][b.code] /\ b.count > 0
       /\ b.first = F[b.code]
       /\ \A c \in C \ {b.code} :
             b.count > K[i][c] \/ (b.count = K[i][c] /\ F[b.code] < F[c])

\* The result after one more code.
NextBest(b, i, codes, K, F) ==
    IF codes[i] # NoCode
       /\ \/ K[i][codes[i]] > b.count
          \/ K[i][codes[i]] = b.count /\ F[codes[i]] < b.first
    THEN [code |-> codes[i], count |-> K[i][codes[i]], first |-> F[codes[i]]]
    ELSE b

\* The best of the first codes, and one more, is the best of them all.
LEMMA BestStays ==
    ASSUME NEW codes, Len(codes) \in Nat, NEW C, NoCode \notin C,
           NEW K, NEW F, Counts(codes, C, K, F),
           NEW i \in 1..Len(codes), codes[i] \in C \cup {NoCode},
           NEW b, BestOf(b, i - 1, C, K, F)
    PROVE  BestOf(NextBest(b, i, codes, K, F), i, C, K, F)
<1> PICK d : d = codes[i]
  OBVIOUS
<1>1. /\ \A c \in C : /\ K[i][c] \in Nat /\ K[i - 1][c] \in Nat /\ F[c] \in Nat
                      /\ K[i][c] = K[i - 1][c] + (IF d = c THEN 1 ELSE 0)
      /\ \A c, e \in C : F[c] = F[e] => c = e
  BY DEF Counts
<1>2. CASE d = NoCode
  <2>1. NextBest(b, i, codes, K, F) = b
    BY <1>2 DEF NextBest
  <2>2. \A c \in C : K[i][c] = K[i - 1][c]
    BY <1>1, <1>2
  <2> QED
    BY <2>1, <2>2 DEF BestOf
<1>3. CASE d \in C
  <2>1. PICK k \in Nat : k = K[i][d] /\ k = K[i - 1][d] + 1
    BY <1>1, <1>3
  <2>2. \A c \in C \ {d} : K[i][c] = K[i - 1][c]
    BY <1>1
  <2>3. PICK new : new = [code |-> d, count |-> k, first |-> F[d]]
    OBVIOUS
  <2>4. NextBest(b, i, codes, K, F) =
            IF k > b.count \/ (k = b.count /\ F[d] < b.first) THEN new ELSE b
    BY <1>3, <2>1, <2>3 DEF NextBest
  <2>5. k > 0 /\ new.code = d /\ new.count = k /\ new.first = F[d]
    BY <1>1, <1>3, <2>1, <2>3
  <2>6. CASE b.code = NoCode /\ b.count = 0 /\ \A c \in C : K[i - 1][c] = 0
    <3>1. NextBest(b, i, codes, K, F) = new
      BY <2>4, <2>5, <2>6
    <3>2. \A c \in C \ {d} : K[i][c] = 0
      BY <2>2, <2>6
    <3> QED
      BY <1>3, <2>1, <2>5, <3>1, <3>2 DEF BestOf
  <2>7. CASE /\ b.code \in C /\ b.count = K[i - 1][b.code] /\ b.count > 0
             /\ b.first = F[b.code]
             /\ \A c \in C \ {b.code} :
                   \/ b.count > K[i - 1][c]
                   \/ b.count = K[i - 1][c] /\ F[b.code] < F[c]
    <3>1. CASE d = b.code
      <4>1. k = b.count + 1
        BY <2>1, <2>7, <3>1
      <4>2. NextBest(b, i, codes, K, F) = new
        BY <1>1, <2>4, <2>7, <4>1
      <4>3. \A c \in C \ {d} : k > K[i][c]
        BY <1>1, <2>2, <2>7, <3>1, <4>1
      <4> QED
        BY <1>3, <2>1, <2>5, <4>2, <4>3 DEF BestOf
    <3>2. CASE d # b.code
      <4>1. K[i][b.code] = b.count /\ b.count \in Nat /\ F[b.code] \in Nat
        BY <1>1, <2>2, <2>7, <3>2
      <4>2. CASE k > b.count \/ (k = b.count /\ F[d] < b.first)
        <5>1. NextBest(b, i, codes, K, F) = new
          BY <2>4, <4>2
        <5>2. \A c \in C \ {d} : k > K[i][c] \/ (k = K[i][c] /\ F[d] < F[c])
          <6> SUFFICES ASSUME NEW c \in C \ {d}
                       PROVE  k > K[i][c] \/ (k = K[i][c] /\ F[d] < F[c])
            OBVIOUS
          <6>1. K[i][c] \in Nat /\ F[c] \in Nat /\ F[d] \in Nat /\ K[i][c] = K[i - 1][c]
            BY <1>1, <1>3, <2>2
          <6>2. CASE c = b.code
            BY <2>7, <4>1, <4>2, <6>1, <6>2
          <6>3. CASE c # b.code
            <7>1. b.count > K[i][c] \/ (b.count = K[i][c] /\ F[b.code] < F[c])
              BY <2>7, <6>1, <6>3
            <7> QED
              BY <2>1, <2>7, <4>1, <4>2, <6>1, <7>1
          <6> QED
            BY <6>2, <6>3
        <5> QED
          BY <1>3, <2>1, <2>5, <5>1, <5>2 DEF BestOf
      <4>3. CASE ~(k > b.count \/ (k = b.count /\ F[d] < b.first))
        <5>1. NextBest(b, i, codes, K, F) = b
          BY <2>4, <4>3
        <5>2. \A c \in C \ {b.code} :
                  b.count > K[i][c] \/ (b.count = K[i][c] /\ F[b.code] < F[c])
          <6> SUFFICES ASSUME NEW c \in C \ {b.code}
                       PROVE  b.count > K[i][c] \/ (b.count = K[i][c] /\ F[b.code] < F[c])
            OBVIOUS
          <6>1. CASE c = d
            <7>1. F[d] # F[b.code] /\ F[d] \in Nat
              BY <1>1, <1>3, <2>7, <3>2
            <7>2. /\ K[i][c] = k /\ F[c] = F[d] /\ b.first = F[b.code]
                  /\ ~(k > b.count) /\ ~(k = b.count /\ F[d] < b.first)
              BY <2>1, <2>7, <4>3, <6>1
            <7> QED
              BY <2>1, <4>1, <7>1, <7>2
          <6>2. CASE c # d
            BY <2>2, <2>7, <6>2
          <6> QED
            BY <6>1, <6>2
        <5> QED
          BY <2>7, <4>1, <5>1, <5>2 DEF BestOf
      <4> QED
        BY <4>2, <4>3
    <3> QED
      BY <3>1, <3>2
  <2> QED
    BY <2>6, <2>7 DEF BestOf
<1> QED
  BY <1>2, <1>3

CountOf(codes, i, c) == Cardinality({j \in 1..i : codes[j] = c})

IsFirst(codes, c, j) ==
    /\ j \in 1..Len(codes) /\ codes[j] = c
    /\ \A k \in 1..Len(codes) : codes[k] = c => j <= k

\* One more code is one more of its own, and no more of any other.
LEMMA CountNext ==
    ASSUME NEW codes, NEW i \in Nat \ {0}, NEW c
    PROVE  /\ CountOf(codes, i, c) \in Nat
           /\ CountOf(codes, i, c) =
                 CountOf(codes, i - 1, c) + (IF codes[i] = c THEN 1 ELSE 0)
<1> PICK u, v : /\ u = {j \in 1..i : codes[j] = c}
                /\ v = {j \in 1..i - 1 : codes[j] = c}
  OBVIOUS
<1>1. IsFiniteSet(u) /\ IsFiniteSet(v)
  <2>1. IsFiniteSet(1..i) /\ u \subseteq 1..i /\ v \subseteq 1..i
    BY FS_Interval
  <2> QED
    BY <2>1, FS_Subset
<1>2. CountOf(codes, i, c) = Cardinality(u) /\ CountOf(codes, i - 1, c) = Cardinality(v)
  BY DEF CountOf
<1>3. Cardinality(u) \in Nat /\ Cardinality(v) \in Nat
  BY <1>1, FS_CardinalityType
<1>4. CASE codes[i] = c
  <2>1. u = v \cup {i} /\ i \notin v
    BY <1>4
  <2>2. Cardinality(v \cup {i}) = Cardinality(v) + 1
    BY <1>1, <2>1, FS_AddElement
  <2> QED
    BY <1>2, <1>3, <1>4, <2>1, <2>2
<1>5. CASE codes[i] # c
  <2>1. u = v
    BY <1>5
  <2> QED
    BY <1>2, <1>3, <1>5, <2>1
<1> QED
  BY <1>4, <1>5

\* No code has been seen before the first.
LEMMA CountZero ==
    ASSUME NEW codes, NEW c
    PROVE  CountOf(codes, 0, c) = 0
<1>1. {j \in 1..0 : codes[j] = c} = {}
  OBVIOUS
<1> QED
  BY <1>1, FS_EmptySet DEF CountOf

\* The first place of a code up to one of its places is its first place.
LEMMA FirstIs ==
    ASSUME NEW codes, Len(codes) \in Nat, NEW i \in 1..Len(codes),
           NEW u, u = {j \in 1..i : codes[j] = codes[i]}
    PROVE  IsFirst(codes, codes[i], CHOOSE j \in u : \A k \in u : j <= k)
<1>1. u \in SUBSET Nat /\ u # {}
  OBVIOUS
<1>2. PICK x : x = CHOOSE j \in u : \A k \in u : j <= k
  OBVIOUS
<1>3. x \in u /\ \A k \in u : x <= k
  <2>1. \E j \in u : \A k \in u : j <= k
    BY <1>1, LeastNumber
  <2> QED
    BY <1>2, <2>1
<1>4. ASSUME NEW k \in 1..Len(codes), codes[k] = codes[i]
      PROVE  x <= k
  <2>1. CASE k <= i
    BY <1>3, <1>4, <2>1
  <2>2. CASE k > i
    BY <1>3, <2>2
  <2> QED
    BY <2>1, <2>2
<1>5. x \in 1..Len(codes) /\ codes[x] = codes[i]
  BY <1>3
<1> QED
  BY <1>2, <1>4, <1>5 DEF IsFirst

\* A code has one first place.
LEMMA FirstOnce ==
    ASSUME NEW codes, Len(codes) \in Nat, NEW c, NEW i, NEW j,
           IsFirst(codes, c, i), IsFirst(codes, c, j)
    PROVE  i = j /\ i \in Nat
BY DEF IsFirst

\* K and F are the counts and first places of the codes C of a list.
Tally(codes, C, K, F) ==
    /\ Counts(codes, C, K, F)
    /\ \A i \in 0..Len(codes) : \A c \in C : K[i][c] = CountOf(codes, i, c)
    /\ \A c \in C : IsFirst(codes, c, F[c])

\* Every list of codes has its counts and first places.
LEMMA CountsExist ==
    ASSUME NEW codes, Len(codes) \in Nat, DOMAIN codes = 1..Len(codes),
           NEW C, C = Range(codes) \ {NoCode}
    PROVE  \E K, F : Tally(codes, C, K, F)
<1> PICK n \in Nat : n = Len(codes)
  OBVIOUS
<1>1. \A c \in C : \E i \in 1..n : codes[i] = c
  BY DEF Range
<1>2. ASSUME NEW c \in C
      PROVE  \E j : IsFirst(codes, c, j)
  <2> PICK i \in 1..n : codes[i] = c
    BY <1>1
  <2> PICK u : u = {j \in 1..i : codes[j] = codes[i]}
    OBVIOUS
  <2> QED
    BY FirstIs
<1>3. PICK K : K = [i \in 0..n |-> [c \in C |-> CountOf(codes, i, c)]]
  OBVIOUS
<1>4. PICK F : F = [c \in C |-> CHOOSE j : IsFirst(codes, c, j)]
  OBVIOUS
<1>5. \A c \in C : IsFirst(codes, c, F[c])
  BY <1>2, <1>4
<1>6. \A i \in 0..n : \A c \in C : K[i][c] = CountOf(codes, i, c)
  BY <1>3
<1>7. \A c \in C : K[0][c] = 0
  BY <1>6, CountZero
<1>8. ASSUME NEW i \in 1..n, NEW c \in C
      PROVE  K[i][c] = K[i - 1][c] + (IF codes[i] = c THEN 1 ELSE 0)
  <2>1. i \in 0..n /\ i - 1 \in 0..n /\ i \in Nat \ {0}
    OBVIOUS
  <2> QED
    BY <1>6, <2>1, CountNext
<1>9. ASSUME NEW i \in 0..n
      PROVE  K[i] \in [C -> Nat]
  <2>1. CASE i = 0
    <3>1. \A c \in C : CountOf(codes, i, c) \in Nat
      BY <2>1, CountZero
    <3> QED
      BY <1>3, <3>1
  <2>2. CASE i # 0
    <3>1. \A c \in C : CountOf(codes, i, c) \in Nat
      BY <2>2, CountNext
    <3> QED
      BY <1>3, <3>1
  <2> QED
    BY <2>1, <2>2
<1>10. F \in [C -> Nat]
  <2>1. \A c \in C : F[c] \in Nat
    BY <1>5 DEF IsFirst
  <2> QED
    BY <1>4, <2>1
<1>11. \A c, d \in C : F[c] = F[d] => c = d
  BY <1>5 DEF IsFirst
<1> QED
  BY <1>5, <1>6, <1>7, <1>8, <1>9, <1>10, <1>11 DEF Counts, Tally

\* The walk of dominantCode.
Nothing == [code |-> NoCode, count |-> 0, first |-> 0]

BestAfter(codes, seen, i, b) ==
    IF codes[i] # NoCode /\ Better(seen, i, b)
    THEN [code |-> codes[i], count |-> seen.count[i], first |-> seen.first[i]]
    ELSE b

IsBest(g, codes, seen) ==
    g = [i \in 0..Len(codes) |-> IF i = 0 THEN Nothing
                                 ELSE BestAfter(codes, seen, i, g[i - 1])]

\* The walk has its results.
LEMMA BestExists ==
    ASSUME NEW codes, NEW n \in Nat, n = Len(codes), NEW seen,
           \A i \in 1..n : seen.count[i] \in Nat /\ seen.first[i] \in Nat
    PROVE  \E g : IsBest(g, codes, seen)
<1> PICK A : A = {codes[i] : i \in 1..n} \cup {NoCode}
  OBVIOUS
<1> PICK D : D = [code : A, count : Nat, first : Nat]
  OBVIOUS
<1> PICK step : step = [p \in (1..n) \X D |-> BestAfter(codes, seen, p[1], p[2])]
  OBVIOUS
<1>1. ASSUME NEW i \in 1..n, NEW b \in D
      PROVE  BestAfter(codes, seen, i, b) \in D /\ step[<<i, b>>] = BestAfter(codes, seen, i, b)
  <2>1. BestAfter(codes, seen, i, b) \in D
    BY DEF BestAfter
  <2>2. <<i, b>> \in (1..n) \X D
    OBVIOUS
  <2> QED
    BY <2>1, <2>2
<1>2. step \in [(1..n) \X D -> D]
  <2>1. ASSUME NEW p \in (1..n) \X D
        PROVE  BestAfter(codes, seen, p[1], p[2]) \in D
    <3>1. p[1] \in 1..n /\ p[2] \in D
      OBVIOUS
    <3> QED
      BY <1>1, <3>1
  <2> QED
    BY <2>1
<1>3. PICK start \in D : start = Nothing
  BY DEF Nothing
<1>4. PICK g \in [0..n -> D] : Walk(g, n, start, step)
  BY <1>2, Recursion
<1>5. g[0] = Nothing /\ \A i \in 1..n : g[i] = step[<<i, g[i - 1]>>]
  BY <1>3, <1>4 DEF Walk
<1>6. \A i \in 1..n : g[i] = BestAfter(codes, seen, i, g[i - 1])
  <2> SUFFICES ASSUME NEW i \in 1..n
               PROVE  g[i] = BestAfter(codes, seen, i, g[i - 1])
    OBVIOUS
  <2>1. g[i - 1] \in D
    OBVIOUS
  <2> QED
    BY <1>1, <1>5, <2>1
<1>7. \A i \in 0..n : i = 0 \/ i \in 1..n
  OBVIOUS
<1>8. g = [i \in 0..n |-> IF i = 0 THEN Nothing ELSE BestAfter(codes, seen, i, g[i - 1])]
  BY <1>5, <1>6, <1>7
<1> QED
  BY <1>8 DEF IsBest

\* The walk ends with the best of all.
LEMMA BestAtEnd ==
    ASSUME NEW codes, NEW n \in Nat, n = Len(codes), NEW C, NoCode \notin C,
           \A i \in 1..n : codes[i] \in C \cup {NoCode},
           NEW K, NEW F, Counts(codes, C, K, F), NEW seen,
           \A i \in 1..n : codes[i] # NoCode =>
              seen.count[i] = K[i][codes[i]] /\ seen.first[i] = F[codes[i]],
           NEW g, IsBest(g, codes, seen)
    PROVE  BestOf(g[n], n, C, K, F)
<1> PICK P \in SUBSET Nat : P = {i \in Nat : i <= n => BestOf(g[i], i, C, K, F)}
  OBVIOUS
<1>1. 0 \in P
  <2>1. g[0] = Nothing
    BY DEF IsBest
  <2>2. \A c \in C : K[0][c] = 0
    BY DEF Counts
  <2> QED
    BY <2>1, <2>2 DEF BestOf, Nothing
<1>2. ASSUME NEW m \in P
      PROVE  m + 1 \in P
  <2> SUFFICES ASSUME m + 1 <= n
               PROVE  BestOf(g[m + 1], m + 1, C, K, F)
    OBVIOUS
  <2>1. PICK i \in 1..n : i = m + 1 /\ i - 1 = m
    OBVIOUS
  <2>2. PICK b : b = g[i - 1] /\ BestOf(b, i - 1, C, K, F)
    <3>1. m <= n
      OBVIOUS
    <3> QED
      BY <2>1, <3>1
  <2>3. g[i] = BestAfter(codes, seen, i, b)
    BY <2>2 DEF IsBest
  <2>4. BestAfter(codes, seen, i, b) = NextBest(b, i, codes, K, F)
    BY DEF BestAfter, Better, NextBest
  <2>5. i \in 1..Len(codes) /\ Len(codes) \in Nat /\ codes[i] \in C \cup {NoCode}
    OBVIOUS
  <2>6. BestOf(NextBest(b, i, codes, K, F), i, C, K, F)
    BY <2>2, <2>5, BestStays
  <2> QED
    BY <2>1, <2>3, <2>4, <2>6
<1>3. P = Nat
  BY <1>1, <1>2, Induction
<1>4. n \in P
  BY <1>3
<1> QED
  BY <1>4

SameUpTo(codes, i) == {j \in 1..i : codes[j] = codes[i]}
Seen(codes) ==
    [count |-> [i \in DOMAIN codes |-> Cardinality(SameUpTo(codes, i))],
     first |-> [i \in DOMAIN codes |-> CHOOSE j \in SameUpTo(codes, i) :
                                          \A k \in SameUpTo(codes, i) : j <= k]]

\* b, the best of all, holds what dominantCode returns.
IsDominant(b, codes, n, C, K, F) ==
    /\ BestOf(b, n, C, K, F) /\ b.code = dominantCode(codes)
    /\ \A c \in C : K[n][c] = CountOf(codes, n, c) /\ IsFirst(codes, c, F[c])

\* dominantCode is the most frequent code, the earliest of several.
LEMMA DominantIs ==
    ASSUME NEW codes, NEW n \in Nat, n = Len(codes), DOMAIN codes = 1..n,
           NEW C, C = Range(codes) \ {NoCode}
    PROVE  \E K, F, b : IsDominant(b, codes, n, C, K, F)
<1> PICK seen : seen = Seen(codes)
  OBVIOUS
<1>1. \A i \in 1..n : /\ seen.count[i] = CountOf(codes, i, codes[i])
                      /\ IsFirst(codes, codes[i], seen.first[i])
  <2> SUFFICES ASSUME NEW i \in 1..n
               PROVE  /\ seen.count[i] = CountOf(codes, i, codes[i])
                      /\ IsFirst(codes, codes[i], seen.first[i])
    OBVIOUS
  <2> PICK u : u = SameUpTo(codes, i)
    OBVIOUS
  <2>1. seen.count[i] = Cardinality(u)
    BY DEF Seen
  <2>2. seen.first[i] = CHOOSE j \in u : \A k \in u : j <= k
    BY DEF Seen
  <2>3. IsFirst(codes, codes[i], CHOOSE j \in u : \A k \in u : j <= k)
    <3>1. u = {j \in 1..i : codes[j] = codes[i]} /\ i \in 1..Len(codes)
          /\ Len(codes) \in Nat
      BY DEF SameUpTo
    <3> QED
      BY <3>1, FirstIs
  <2> QED
    BY <2>1, <2>2, <2>3 DEF CountOf, SameUpTo
<1>2. \A i \in 1..n : seen.count[i] \in Nat /\ seen.first[i] \in Nat
  <2>1. \A i \in 1..n : i \in Nat \ {0}
    OBVIOUS
  <2>2. \A i \in 1..n : CountOf(codes, i, codes[i]) \in Nat
    BY <2>1, CountNext
  <2>3. \A i, j : IsFirst(codes, i, j) => j \in Nat
    BY DEF IsFirst
  <2> QED
    BY <1>1, <2>2, <2>3
<1>3. PICK K, F : /\ Counts(codes, C, K, F)
                  /\ \A i \in 0..n : \A c \in C : K[i][c] = CountOf(codes, i, c)
                  /\ \A c \in C : IsFirst(codes, c, F[c])
  <2>1. Len(codes) \in Nat /\ DOMAIN codes = 1..Len(codes)
    OBVIOUS
  <2>2. PICK K, F : Tally(codes, C, K, F)
    BY <2>1, CountsExist
  <2> QED
    BY <2>2 DEF Tally
<1>4. NoCode \notin C /\ \A i \in 1..n : codes[i] \in C \cup {NoCode}
  BY DEF Range
<1>5. ASSUME NEW i \in 1..n, codes[i] # NoCode
      PROVE  seen.count[i] = K[i][codes[i]] /\ seen.first[i] = F[codes[i]]
  <2>1. PICK c \in C : c = codes[i]
    BY <1>4, <1>5
  <2>2. seen.count[i] = K[i][c]
    BY <1>1, <1>3, <2>1
  <2>3. IsFirst(codes, c, seen.first[i]) /\ IsFirst(codes, c, F[c])
    BY <1>1, <1>3, <2>1
  <2>4. seen.first[i] = F[c]
    BY <2>3, FirstOnce
  <2> QED
    BY <2>1, <2>2, <2>4
<1>6. PICK g : g = CHOOSE h : IsBest(h, codes, seen)
  OBVIOUS
<1>7. IsBest(g, codes, seen)
  <2>1. \E h : IsBest(h, codes, seen)
    BY <1>2, BestExists
  <2> QED
    BY <1>6, <2>1
<1>8. BestOf(g[n], n, C, K, F)
  BY <1>3, <1>4, <1>5, <1>7, BestAtEnd
<1>9. dominantCode(codes) = g[n].code
  BY <1>6 DEF dominantCode, IsBest, BestAfter, Nothing, Seen, SameUpTo
<1> QED
  BY <1>3, <1>8, <1>9 DEF IsDominant

\* The codes' part of CardsAgree.
LEMMA CodesAgree ==
    ASSUME NEW codes, codes \in Seq(Range(codes))
    PROVE  LET best == dominantCode(codes)
               at(c) == {i \in DOMAIN codes : codes[i] = c}
               seen == Range(codes) \ {NoCode}
           IN  IF seen = {} THEN best = NoCode
               ELSE /\ best \in seen
                    /\ \A c \in seen \ {best} :
                          \/ Cardinality(at(best)) > Cardinality(at(c))
                          \/ /\ Cardinality(at(best)) = Cardinality(at(c))
                             /\ \E i \in at(best) : \A j \in at(c) : i < j
<1> DEFINE at(c) == {i \in DOMAIN codes : codes[i] = c}
<1> PICK n \in Nat : n = Len(codes) /\ DOMAIN codes = 1..n
  OBVIOUS
<1> PICK C : C = Range(codes) \ {NoCode}
  OBVIOUS
<1>1. PICK K, F, b :
          /\ BestOf(b, n, C, K, F) /\ b.code = dominantCode(codes)
          /\ \A c \in C : K[n][c] = CountOf(codes, n, c) /\ IsFirst(codes, c, F[c])
  <2>1. PICK K, F, b : IsDominant(b, codes, n, C, K, F)
    BY DominantIs
  <2> QED
    BY <2>1 DEF IsDominant
<1>2. \A c : at(c) \subseteq 1..n /\ Cardinality(at(c)) = CountOf(codes, n, c)
  BY DEF CountOf
<1>3. CASE C = {}
  <2>1. b.code = NoCode
    BY <1>1, <1>3 DEF BestOf
  <2> QED
    BY <1>1, <1>3, <2>1
<1>4. CASE C # {}
  <2>1. ASSUME NEW c \in C
        PROVE  K[n][c] \in Nat \ {0}
    <3>1. PICK i \in 1..n : codes[i] = c
      BY DEF Range
    <3>2. PICK s : s = at(c)
      OBVIOUS
    <3>3. i \in s /\ s \subseteq 1..n /\ IsFiniteSet(1..n)
      BY <3>1, <3>2, FS_Interval
    <3>4. IsFiniteSet(s)
      BY <3>3, FS_Subset
    <3>5. Cardinality(s) \in Nat /\ Cardinality(s) # 0
      BY <3>3, <3>4, FS_CardinalityType, FS_EmptySet
    <3>6. K[n][c] = Cardinality(s)
      BY <1>1, <1>2, <3>2
    <3> QED
      BY <3>5, <3>6
  <2>2. /\ b.code \in C
        /\ \A c \in C \ {b.code} :
              K[n][b.code] > K[n][c] \/ (K[n][b.code] = K[n][c] /\ F[b.code] < F[c])
    BY <1>1, <1>4, <2>1 DEF BestOf
  <2>3. PICK best \in C : best = b.code
    BY <2>2
  <2>4. ASSUME NEW c \in C \ {best}
        PROVE  \/ Cardinality(at(best)) > Cardinality(at(c))
               \/ /\ Cardinality(at(best)) = Cardinality(at(c))
                  /\ \E i \in at(best) : \A j \in at(c) : i < j
    <3>1. /\ K[n][best] = Cardinality(at(best)) /\ K[n][c] = Cardinality(at(c))
          /\ IsFirst(codes, best, F[best]) /\ IsFirst(codes, c, F[c])
      BY <1>1, <1>2
    <3>2. CASE K[n][best] > K[n][c]
      BY <3>1, <3>2
    <3>3. CASE K[n][best] = K[n][c] /\ F[best] < F[c]
      <4>1. F[best] \in at(best)
        BY <3>1 DEF IsFirst
      <4>2. \A j \in at(c) : F[best] < j
        BY <3>1, <3>3 DEF IsFirst
      <4> QED
        BY <3>1, <3>3, <4>1, <4>2
    <3> QED
      BY <2>2, <2>3, <3>2, <3>3
  <2>5. dominantCode(codes) = best
    BY <1>1, <2>3
  <2> QED
    BY <1>4, <2>4, <2>5
<1> QED
  BY <1>3, <1>4

\* CardsAgree, of any call.
LEMMA CardsImplied ==
    ASSUME call \in Calls \cup {NoCall}
    PROVE  CardsAgree
<1>1. CASE call.fn = "tx"
  <2>1. call \in Calls
    BY <1>1 DEF NoCall
  <2> PICK outs, from : outs = call.outs /\ from = call.from
    OBVIOUS
  <2>2. PICK A : outs \in Seq([addr : A, sats : Nat])
    BY <1>1, <2>1, CallAssumption DEF TxArgs
  <2>3. /\ DOMAIN outs = 1..Len(outs) /\ Len(outs) \in Nat
        /\ \A i \in DOMAIN outs : outs[i].sats \in Nat
    <3> PICK R : R = [addr : A, sats : Nat]
      OBVIOUS
    <3>1. outs \in Seq(R)
      BY <2>2
    <3>2. DOMAIN outs = 1..Len(outs)
      BY <3>1
    <3>3. \A i \in 1..Len(outs) : outs[i] \in R
      BY <3>1, ElementOfSeq
    <3> QED
      BY <3>1, <3>2, <3>3
  <2> DEFINE change == ChangeRows(outs, from)
             kept == {i \in DOMAIN outs : i \notin change}
  <2>4. /\ Amount(outs, from) =
              SumFunctionOnSet([i \in DOMAIN outs |-> outs[i].sats], kept)
        /\ \A i \in change : outs[i].addr \in from
        /\ outs # <<>> => kept # {}
    BY <2>3, HeadlineIs
  <2> QED
    BY <1>1, <2>4 DEF CardsAgree
<1>2. CASE call.fn = "codes"
  <2>1. call \in Calls
    BY <1>2 DEF NoCall
  <2> PICK codes : codes = call.codes
    OBVIOUS
  <2>2. codes \in Seq(Range(codes))
    BY <1>2, <2>1, CallAssumption DEF CodeArgs
  <2> DEFINE best == dominantCode(codes)
             at(c) == {i \in DOMAIN codes : codes[i] = c}
             seen == Range(codes) \ {NoCode}
  <2>3. IF seen = {} THEN best = NoCode
        ELSE /\ best \in seen
             /\ \A c \in seen \ {best} :
                   \/ Cardinality(at(best)) > Cardinality(at(c))
                   \/ /\ Cardinality(at(best)) = Cardinality(at(c))
                      /\ \E i \in at(best) : \A j \in at(c) : i < j
    BY <2>2, CodesAgree
  <2> QED
    BY <1>2, <2>3 DEF CardsAgree
<1>3. CASE call.fn = "address"
  <2>1. call \in Calls
    BY <1>3 DEF NoCall
  <2> PICK txs : txs = call.history
    OBVIOUS
  <2>2. txs \in Seq([sent : Nat, recv : Nat, fee : Int, known : BOOLEAN])
    BY <1>3, <2>1, CallAssumption DEF AddressArgs
  <2>3. SumFunction([i \in DOMAIN txs |-> Effect(txs[i])]) =
        SumFunction([i \in DOMAIN txs |-> txs[i].recv - txs[i].sent])
    BY <2>2, BalanceIs
  <2> QED
    BY <1>3, <2>3 DEF CardsAgree
<1>4. CASE call.fn \notin {"tx", "codes", "address"}
  BY <1>4 DEF CardsAgree
<1> QED
  BY <1>1, <1>2, <1>3, <1>4

\* The cards agree for every transaction, list of codes and history.
THEOREM CardsSafe == MCSpec => []CardsAgree
BY CallsOnly, CardsImplied, PTL
=============================================================================
