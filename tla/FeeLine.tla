------------------------------ MODULE FeeLine -------------------------------
(***************************************************************************)
(* The mempool seen as a line, highest fee rate first: the histogram of    *)
(* internal/explorer/queue.go, the fee tiers of fees.go and the place of a *)
(* pending transaction (tx.go, derivePending).  A snapshot maps the        *)
(* transactions to [rate, vsize].  Rates are integers, in hundredths of a  *)
(* sat/vB; shares and fractions are compared by multiplying out.           *)
(***************************************************************************)
EXTENDS Integers, FiniteSets, SequencesExt

CONSTANTS BandMins,       \* queueBandMins
          VBytesPerBlock, \* vbytesPerBlock
          Floors          \* s.floors: [slow, standard, urgent]

ASSUME LineAssumption ==
    /\ BandMins \in Seq(Nat) \ {<<>>}
    /\ VBytesPerBlock \in Nat \ {0}
    /\ Floors \in [slow : Nat, standard : Nat, urgent : Nat]

SatPerVb == 100
Greater(a, b) == IF a > b THEN a ELSE b

VBytes(snapshot, txs) ==
    SumFunctionOnSet([t \in DOMAIN snapshot |-> snapshot[t].vsize], txs)

Total(snapshot) == VBytes(snapshot, DOMAIN snapshot)

\* sort.Slice: the entries in descending order, ties in any order.
Line(snapshot) ==
    CHOOSE line \in [1..Cardinality(DOMAIN snapshot) -> DOMAIN snapshot] :
        \A i, j \in DOMAIN line : i < j =>
            /\ line[i] # line[j]
            /\ snapshot[line[i]].rate >= snapshot[line[j]].rate

\* The vbytes of the first n entries of the line.
UpTo(snapshot, line, n) == VBytes(snapshot, {line[i] : i \in 1..n})

-----------------------------------------------------------------------------
(* The histogram *)

\* Mutant of Fills: the block must overflow.
FillsOver(vbytes) == vbytes > VBytesPerBlock

\* One block's worth of the line has been consumed.
Fills(vbytes) == vbytes >= VBytesPerBlock

\* queueFromSnapshot: NextBlockRate, the rate of the entry that fills the
\* next block, of the last one when none does, 1 sat/vB when nobody waits.
NextBlockRate(snapshot) ==
    LET line == Line(snapshot)
        full == {i \in DOMAIN line : Fills(UpTo(snapshot, line, i))}
    IN  CASE line = <<>> -> SatPerVb
          [] line # <<>> /\ full = {} -> snapshot[Last(line)].rate
          [] full # {} -> snapshot[line[CHOOSE i \in full :
                                        \A j \in full : i <= j]].rate

\* The band of a rate: the first one it reaches, the last for those below all.
BandOf(rate) ==
    IF \E b \in DOMAIN BandMins : rate >= BandMins[b]
    THEN CHOOSE b \in DOMAIN BandMins :
            rate >= BandMins[b] /\ \A c \in 1..b - 1 : rate < BandMins[c]
    ELSE Len(BandMins)

\* The vbytes of every band: the walk's band index only advances.
Bands(snapshot) ==
    [b \in DOMAIN BandMins |->
        VBytes(snapshot, {t \in DOMAIN snapshot : BandOf(snapshot[t].rate) = b})]

-----------------------------------------------------------------------------
(* The place of a pending transaction *)

\* derivePending: what pays more than t, which itself is not counted.
Ahead(snapshot, t) ==
    {u \in DOMAIN snapshot \ {t} : snapshot[u].rate > snapshot[t].rate}

EtaBlocks(snapshot, t) ==
    VBytes(snapshot, Ahead(snapshot, t)) \div VBytesPerBlock + 1

\* The marker at QueueVbytesFraction lies before the one at CutoffFraction:
\* both are shares of Total, the latter at most 1.
MarkerBeforeCutoff(snapshot, t) ==
    LET ahead == VBytes(snapshot, Ahead(snapshot, t))
    IN  ahead < Total(snapshot) /\ ahead < VBytesPerBlock

-----------------------------------------------------------------------------
(* The tiers *)

\* percentile: the rate at which percent of the vbytes are reached, walking
\* up from the lowest.
Percentile(snapshot, percent) ==
    LET up == Reverse(Line(snapshot))
        enough == {i \in DOMAIN up :
                      100 * UpTo(snapshot, up, i) >= percent * Total(snapshot)}
    IN  snapshot[up[CHOOSE i \in enough : \A j \in enough : i <= j]].rate

\* math.Round(rate * 10) / 10.
Rounded(rate) == ((rate + 5) \div 10) * 10

\* Mutant of tierRates: the tiers are clamped to their floors and rounded,
\* each by itself.
tierRatesApart(snapshot) ==
    LET tier(percent, floor) ==
            Greater(Rounded(IF DOMAIN snapshot = {} THEN floor
                            ELSE Greater(Percentile(snapshot, percent), floor)),
                    SatPerVb)
    IN  [slow |-> tier(25, Floors.slow),
         standard |-> tier(50, Floors.standard),
         urgent |-> tier(90, Floors.urgent)]

\* tierRates: percentiles clamped to the floors, or the floors of an empty
\* mempool; rounded, never below 1 sat/vB and never below the tier before.
tierRates(snapshot) ==
    LET raw(percent, floor) ==
            Rounded(IF DOMAIN snapshot = {} THEN floor
                    ELSE Greater(Percentile(snapshot, percent), floor))
        slow == Greater(raw(25, Floors.slow), SatPerVb)
        standard == Greater(raw(50, Floors.standard), slow)
    IN  [slow |-> slow, standard |-> standard,
         urgent |-> Greater(raw(90, Floors.urgent), standard)]
=============================================================================
