---------------------------- MODULE Derivations ----------------------------
(***************************************************************************)
(* The pure parts of internal/explorer/tx.go, address.go and block.go and  *)
(* of internal/chain: what is made of a transaction, a history and a block *)
(* once the node has answered (FeeLine: of a mempool snapshot).  Amounts   *)
(* are integers; an address and a script type are members of small sets.   *)
(* An output is [addr, sats], NoAddr standing for an output nobody can be  *)
(* named for.  A call of one of these functions is a step that leaves its  *)
(* arguments in call, for the properties to be evaluated on.               *)
(***************************************************************************)
EXTENDS FeeLine

CONSTANT Calls \* bound: the arguments, records whose fn says which they are

\* Satoshis, counts and heights are not negative; a size is not zero; the
\* subsidy starts at 50 bitcoins or less.
TxArgs(c) == c.outs \in Seq([addr : {o.addr : o \in Range(c.outs)}, sats : Nat])
CodeArgs(c) == c.codes \in Seq(Range(c.codes))
AddressArgs(c) ==
    c.history \in Seq([sent : Nat, recv : Nat, fee : Int, known : BOOLEAN])
PageArgs(c) ==
    c.total \in Nat /\ c.approximate \in BOOLEAN /\ c.limit \in Nat \ {0}
HeightArgs(c) ==
    /\ c.height \in Nat /\ c.interval \in Nat \ {0}
    /\ c.initial \in Nat /\ c.initial \div 100000000 <= 50
SnapshotArgs(c) ==
    /\ IsFiniteSet(DOMAIN c.snapshot)
    /\ \A t \in DOMAIN c.snapshot :
          c.snapshot[t] \in [rate : Nat, vsize : Nat \ {0}]

ASSUME CallAssumption ==
    \A c \in Calls :
        /\ c.fn = "tx" => TxArgs(c)
        /\ c.fn = "codes" => CodeArgs(c)
        /\ c.fn = "address" => AddressArgs(c)
        /\ c.fn = "pages" => PageArgs(c)
        /\ c.fn = "height" => HeightArgs(c)
        /\ c.fn = "snapshot" => SnapshotArgs(c)

VARIABLE call
NoCall == [fn |-> "none"]

Call == call = NoCall /\ call' \in Calls
Return == call # NoCall /\ call' = NoCall

NoAddr == "nonstandard"
NoCode == ""


-----------------------------------------------------------------------------
(* Transactions *)

\* isChange of deriveOutputs.
IsChange(o, from) == o.addr # NoAddr /\ o.addr \in from

\* Mutant of ChangeRows: the rows of a self-send keep their flags.
ChangeRowsSelfSend(outs, from) == {i \in DOMAIN outs : IsChange(outs[i], from)}

\* deriveOutputs: the rows flagged as change.  When every output would be,
\* none is: the sender is the recipient.
ChangeRows(outs, from) ==
    LET change == {i \in DOMAIN outs : IsChange(outs[i], from)}
    IN  IF change = DOMAIN outs THEN {} ELSE change

SatsOf(outs) == SumFunction([i \in DOMAIN outs |-> outs[i].sats])

\* deriveOutputs: the amount a transaction moves, its loop and its self-send
\* branch.
Amount(outs, from) ==
    IF \A i \in DOMAIN outs : IsChange(outs[i], from) THEN SatsOf(outs)
    ELSE SumFunction([i \in DOMAIN outs |->
                         IF IsChange(outs[i], from) THEN 0 ELSE outs[i].sats])

\* dominantCode's test: more of this code than of the best so far, or as
\* many and it was seen earlier.
Better(seen, i, best) ==
    \/ seen.count[i] > best.count
    \/ seen.count[i] = best.count /\ seen.first[i] < best.first

\* dominantCode: one walk that keeps the best code so far.
dominantCode(codes) ==
    LET upTo(i) == {j \in 1..i : codes[j] = codes[i]}
        seen == [count |-> [i \in DOMAIN codes |-> Cardinality(upTo(i))],
                 first |-> [i \in DOMAIN codes |-> CHOOSE j \in upTo(i) :
                                               \A k \in upTo(i) : j <= k]]
        best[i \in 0..Len(codes)] ==
            IF i = 0 THEN [code |-> NoCode, count |-> 0, first |-> 0]
            ELSE IF codes[i] # NoCode /\ Better(seen, i, best[i - 1])
                 THEN [code |-> codes[i], count |-> seen.count[i],
                       first |-> seen.first[i]]
                 ELSE best[i - 1]
    IN  best[Len(codes)].code

\* deriveTxType, of the codes of both sides.
TxType(inCodes, outCodes) ==
    IF dominantCode(inCodes) # NoCode THEN dominantCode(inCodes)
    ELSE dominantCode(outCodes)

-----------------------------------------------------------------------------
(* Addresses.  A history entry is [sent, recv, fee, known]: what it spent  *)
(* from and paid to the address, its fee, and whether every prevout is     *)
(* known.                                                                  *)

\* activityFor: how an entry is shown.
activityFor(tx) ==
    CASE tx.sent = 0 -> [direction |-> "received", amount |-> tx.recv]
      [] tx.sent # 0 /\ tx.recv = 0 -> [direction |-> "sent", amount |-> tx.sent]
      [] tx.sent # 0 /\ tx.recv # 0 ->
            [direction |-> IF tx.known /\ tx.sent - tx.recv <= tx.fee
                           THEN "self" ELSE "sent",
             amount |-> tx.sent - tx.recv]

\* What an entry does to the balance, as it is shown.
Effect(tx) == IF activityFor(tx).direction = "received"
              THEN activityFor(tx).amount ELSE -activityFor(tx).amount

\* Mutant of HasMore: the page that ends the history promises another.
HasMoreOffByOne(total, approximate, offset, limit, shown) ==
    IF approximate THEN shown = limit ELSE offset + shown <= total

\* Address and block: is there another page?  (A block's pages are those of
\* a total that is never approximate.)
HasMore(total, approximate, offset, limit, shown) ==
    IF approximate THEN shown = limit ELSE offset + shown < total

-----------------------------------------------------------------------------
(* Blocks *)

Pow2[n \in 0..63] == IF n = 0 THEN 1 ELSE 2 * Pow2[n - 1]

\* BlockSubsidy, initial being 50 bitcoins and interval the halving interval.
BlockSubsidy(height, initial, interval) ==
    IF interval = 0 THEN initial
    ELSE IF height \div interval >= 64 THEN 0
    ELSE initial \div Pow2[height \div interval]

\* Mutant of BlocksUntilHalving: the next block is not counted.
BlocksUntilHalvingFromNext(height, interval) ==
    interval - ((height + 1) % interval)

BlocksUntilHalving(height, interval) == interval - (height % interval)

-----------------------------------------------------------------------------
(* Properties *)

\* What one card says agrees with what the other does: the headline of a
\* transaction is the sum of the rows not flagged as change, and payments to
\* others are never flagged; its type is the most frequent one, the earliest
\* of several; and the amounts of an address's activity, with their
\* directions, add up to its balance.
CardsAgree ==
    CASE call.fn = "tx" ->
            LET change == ChangeRows(call.outs, call.from)
                kept == {i \in DOMAIN call.outs : i \notin change}
            IN  /\ Amount(call.outs, call.from) =
                      SumFunctionOnSet([i \in DOMAIN call.outs |->
                                           call.outs[i].sats], kept)
                /\ \A i \in change : call.outs[i].addr \in call.from
                /\ call.outs # <<>> => kept # {}
      [] call.fn = "codes" ->
            LET best == dominantCode(call.codes)
                at(c) == {i \in DOMAIN call.codes : call.codes[i] = c}
                seen == Range(call.codes) \ {NoCode}
            IN  IF seen = {} THEN best = NoCode
                ELSE /\ best \in seen
                     /\ \A c \in seen \ {best} :
                           \/ Cardinality(at(best)) > Cardinality(at(c))
                           \/ /\ Cardinality(at(best)) = Cardinality(at(c))
                              /\ \E i \in at(best) : \A j \in at(c) : i < j
      [] call.fn = "address" ->
            LET txs == call.history
            IN  SumFunction([i \in DOMAIN txs |-> Effect(txs[i])]) =
                SumFunction([i \in DOMAIN txs |-> txs[i].recv - txs[i].sent])
      [] OTHER -> TRUE

\* Whoever pages on while there is more sees the whole history or block, and
\* no empty page unless the total is only approximate.
PagesCover ==
    call.fn = "pages" =>
        LET shown(n) == Cardinality((n - 1) * call.limit + 1 .. n * call.limit
                                    \cap 1..call.total)
            more(n) == HasMore(call.total, call.approximate,
                               (n - 1) * call.limit, call.limit, shown(n))
        IN  \E n \in 1..call.total + 1 :
                /\ ~more(n) /\ \A m \in 1..n - 1 : more(m)
                /\ call.total <= n * call.limit
                /\ call.approximate \/ n = 1 \/ shown(n) > 0

\* The countdown and the subsidy agree: the subsidy stays what it is until
\* the last block counted down, which halves it.
HalvingsAgree ==
    call.fn = "height" =>
        LET subsidy(h) == BlockSubsidy(h, call.initial, call.interval)
            left == BlocksUntilHalving(call.height, call.interval)
        IN  /\ subsidy(call.height + left) = subsidy(call.height) \div 2
            /\ \A n \in 0..left - 1 :
                  subsidy(call.height + n) = subsidy(call.height)

\* The pending page and the landing page tell the same story: a waiting
\* transaction is given one block exactly when it pays the rate the queue bar
\* asks for the next block, and exactly then its marker lies before the bar's
\* cutoff; and the bands add up to the whole line.
LineAgrees ==
    call.fn = "snapshot" =>
        LET s == call.snapshot
        IN  /\ \A t \in DOMAIN s :
                  /\ EtaBlocks(s, t) = 1 <=> s[t].rate >= NextBlockRate(s)
                  /\ EtaBlocks(s, t) = 1 <=> MarkerBeforeCutoff(s, t)
            /\ SumFunction(Bands(s)) = Total(s)

\* Each tier costs at least what the one before does and covers its share of
\* the mempool's vbytes, as its percentile promises, up to the rounding.
TiersCover ==
    call.fn = "snapshot" =>
        LET s == call.snapshot
            tiers == tierRates(s)
            covers(rate, percent) ==
                percent * Total(s) <=
                    100 * VBytes(s, {t \in DOMAIN s : s[t].rate <= rate + 5})
        IN  /\ SatPerVb <= tiers.slow /\ tiers.slow <= tiers.standard
            /\ tiers.standard <= tiers.urgent
            /\ covers(tiers.slow, 25) /\ covers(tiers.standard, 50)
            /\ covers(tiers.urgent, 90)
=============================================================================
