------------------------------ MODULE Landing -------------------------------
(***************************************************************************)
(* What the landing page shows of the mempool: the buffer of arrivals      *)
(* (internal/explorer/arrivals.go), the rate they come at (inflow.go) and  *)
(* the rolling peak of its depth (mempool.go, notePeakLocked).             *)
(* Notifications come one at a time from rpcclient's goroutine; the update *)
(* is computed by the live cache's recompute, from any snapshot (Mempool   *)
(* says which), of which only the depth matters to what is kept.           *)
(*                                                                         *)
(* Time is counted in inflow buckets.  Ages are measured on the monotonic  *)
(* clock, now; buckets are those of the wall clock, which may be stepped.  *)
(***************************************************************************)
EXTENDS Integers, FiniteSets, SequencesExt

CONSTANTS Txs,
          Depths,        \* bound: depths of the mempools at the updates
          ArrivalsCap,   \* arrivalsCap
          ArrivalMaxAge, \* arrivalMaxAge
          InflowBuckets, \* inflowBuckets
          PeakWidth,     \* peakBucketDur
          PeakBuckets,   \* peakBuckets
          Start,         \* the wall clock's first reading
          MaxStep,       \* how far the wall clock is stepped, less than
                         \* InflowBuckets
          MaxTime,       \* bound: time that passes
          MaxNotes,      \* bound: notifications
          MaxUpdates     \* bound: updates

\* What the constants satisfy; MCWindows assumes it of its values.
LandingAssumption ==
    /\ InflowBuckets \in Nat \ {0} /\ MaxStep \in 0..InflowBuckets - 1
    /\ PeakWidth \in Nat \ {0} /\ PeakBuckets \in Nat \ {0} /\ MaxTime \in Nat
    /\ ArrivalsCap \in Nat \ {0} /\ ArrivalMaxAge \in Nat /\ Depths \subseteq Nat
    /\ Start \in Nat /\ Start >= InflowBuckets + MaxStep

VARIABLES
    now, shift, \* the clocks: the wall clock shows now + shift
    stepped,    \* history: how it was stepped
    arrivals,   \* s.arrivals, newest first: [txid, seen]
    inflow,     \* s.inflow: [slot, counts]
    peaks,      \* m.peaks, oldest first: [start, max]
    peak,       \* the PeakVBytes of the last update, with when it was made
    nNotes, nUpdates,
    last,       \* history: the last notification of each transaction
    noted,      \* history: notifications by wall time
    depths      \* history: depths noted, with their peak buckets and the
                \* latest bucket of an update from then on

clock == <<now, shift, stepped>>
history == <<nNotes, nUpdates, last, noted, depths>>
vars == <<clock, arrivals, inflow, peaks, peak, history>>

wall == now + shift
MaxWall == Start + MaxTime + MaxStep
Never == [no |-> 0, at |-> 0]

Init ==
    /\ now = 0 /\ shift = Start /\ stepped = "no"
    /\ arrivals = <<>>
    /\ inflow = [slot |-> 0, counts |-> [b \in 0..InflowBuckets - 1 |-> 0]]
    /\ peaks = <<>> /\ peak = [vbytes |-> 0, at |-> 0]
    /\ nNotes = 0 /\ nUpdates = 0 /\ last = [t \in Txs |-> Never]
    /\ noted = [w \in 0..MaxWall |-> 0] /\ depths = {}

-----------------------------------------------------------------------------
(* The inflow counter *)

\* Mutant of rotate: only the bucket of the new slot is emptied.
rotateOne(c, slot) ==
    IF slot <= c.slot THEN c
    ELSE [slot |-> slot,
          counts |-> [c.counts EXCEPT ![slot % InflowBuckets] = 0]]

\* rotate: the buckets skipped since the last event are emptied.
rotate(c, slot) ==
    IF slot <= c.slot THEN c
    ELSE LET steps == IF slot - c.slot < InflowBuckets THEN slot - c.slot
                      ELSE InflowBuckets
             skipped == {(c.slot + i) % InflowBuckets : i \in 1..steps}
         IN  [slot |-> slot,
              counts |-> [b \in DOMAIN c.counts |->
                             IF b \in skipped THEN 0 ELSE c.counts[b]]]

\* note: one more in the bucket of the slot, even of one that is past.
note(c, slot) == [rotate(c, slot) EXCEPT !.counts[slot % InflowBuckets] = @ + 1]

\* The sum of n values of f, from f[first] on.
SumOf(f, first, n) ==
    LET sum[i \in 0..n] == IF i = 0 THEN 0 ELSE sum[i - 1] + f[first + i - 1]
    IN  sum[n]

\* ratePerMin's total: what the last minute is taken to have brought.
Counted(c, slot) == SumOf(rotate(c, slot).counts, 0, InflowBuckets)

-----------------------------------------------------------------------------
(* Arrivals *)

\* Mutant of Noted: a rebroadcast takes a second place.
NotedTwice(t) ==
    LET buf[i \in 0..Len(arrivals)] ==
            IF i = 0 THEN <<[txid |-> t, seen |-> now]>>
            ELSE IF \/ Len(buf[i - 1]) = ArrivalsCap
                    \/ now - arrivals[i].seen > ArrivalMaxAge
                 THEN buf[i - 1]
            ELSE Append(buf[i - 1], arrivals[i])
    IN  buf[Len(arrivals)]

\* NoteArrival's buffer: the newest first, then those before it, until it is
\* full or they are too old, without an older entry of its own.  (The loop
\* ends at the first that is too old: all after it are older still.)
Noted(t) ==
    LET buf[i \in 0..Len(arrivals)] ==
            IF i = 0 THEN <<[txid |-> t, seen |-> now]>>
            ELSE IF \/ Len(buf[i - 1]) = ArrivalsCap
                    \/ now - arrivals[i].seen > ArrivalMaxAge
                    \/ arrivals[i].txid = t
                 THEN buf[i - 1]
            ELSE Append(buf[i - 1], arrivals[i])
    IN  buf[Len(arrivals)]

\* NoteArrival, for a transaction that enters the mempool or is rebroadcast.
NoteArrival(t) ==
    /\ nNotes < MaxNotes
    /\ inflow' = note(inflow, wall)
    /\ arrivals' = Noted(t)
    /\ nNotes' = nNotes + 1
    /\ last' = [last EXCEPT ![t] = [no |-> nNotes', at |-> now]]
    /\ noted' = [noted EXCEPT ![wall] = @ + 1]
    /\ UNCHANGED <<clock, peaks, peak, nUpdates, depths>>

-----------------------------------------------------------------------------
(* The update *)

PeakBucket(w) == (w \div PeakWidth) * PeakWidth
Bucket == PeakBucket(wall)
Window == (PeakBuckets - 1) * PeakWidth
Cutoff == Bucket - Window
MaxOf(depth, bs) == CHOOSE m \in {depth} \cup {b.max : b \in Range(bs)} :
                        \A b \in Range(bs) : depth <= m /\ b.max <= m

\* Mutant of Recent: a bucket too many is dropped.
RecentStrict(bs) ==
    LET drop == {i \in 1..Len(bs) : \A j \in 1..i : bs[j].start <= Cutoff}
    IN  SubSeq(bs, Cardinality(drop) + 1, Len(bs))

\* The oldest buckets are dropped while they start before the window.
Recent(bs) ==
    LET drop == {i \in 1..Len(bs) : \A j \in 1..i : bs[j].start < Cutoff}
    IN  SubSeq(bs, Cardinality(drop) + 1, Len(bs))

\* notePeakLocked: the depth joins its bucket, which is the last one or new.
notePeak(depth) ==
    Recent(IF peaks # <<>> /\ Last(peaks).start = Bucket
           THEN [peaks EXCEPT ![Len(peaks)].max = IF @ < depth THEN depth ELSE @]
           ELSE Append(peaks, [start |-> Bucket, max |-> depth]))

\* ratePerMin: nothing is rotated before the first notification.
ReadInflow == inflow' = IF nNotes = 0 THEN inflow ELSE rotate(inflow, wall)

\* computeMempoolUpdate, SnapshotAndQueue's snapshot being a fresh one ...
Update(depth) ==
    /\ nUpdates < MaxUpdates
    /\ nUpdates' = nUpdates + 1
    /\ peaks' = notePeak(depth)
    /\ peak' = [vbytes |-> MaxOf(depth, peaks'), at |-> wall]
    /\ ReadInflow
    /\ depths' = {[d EXCEPT !.until = IF @ < Bucket THEN Bucket ELSE @] : d \in depths}
                  \cup {[start |-> Bucket, vbytes |-> depth, until |-> Bucket]}
    /\ UNCHANGED <<clock, arrivals, nNotes, last, noted>>

\* ... or one whose histogram, and peak, are had.
UpdateAgain ==
    /\ nUpdates > 0
    /\ ReadInflow
    /\ UNCHANGED <<clock, arrivals, peaks, peak, history>>

-----------------------------------------------------------------------------
(* Time *)

Tick ==
    /\ now < MaxTime
    /\ now' = now + 1
    /\ UNCHANGED <<shift, stepped, arrivals, inflow, peaks, peak, history>>

\* External: the wall clock is set back or forth.
StepClock ==
    /\ stepped = "no"
    /\ \E d \in 1..MaxStep :
          \/ shift' = shift - d /\ stepped' = "back"
          \/ shift' = shift + d /\ stepped' = "forth"
    /\ UNCHANGED <<now, arrivals, inflow, peaks, peak, history>>

Next == \/ \E t \in Txs : NoteArrival(t)
        \/ \E depth \in Depths : Update(depth)
        \/ UpdateAgain
        \/ Tick \/ StepClock

Spec == Init /\ [][Next]_vars

-----------------------------------------------------------------------------
(* Properties *)

\* Once the wall clock is not behind the counter, the inflow rate counts
\* exactly the notifications of the last window, through quiet spells, bursts
\* and clock steps shorter than the window.
InflowExact ==
    wall >= inflow.slot =>
        Counted(inflow, wall) = SumOf(noted, wall - InflowBuckets + 1, InflowBuckets)

\* The feed holds the transactions notified last, each once and newest first,
\* except those that were too old when the last one came.
FeedIsNewest ==
    LET newest == CHOOSE no \in {last[t].no : t \in Txs} :
                     \A t \in Txs : last[t].no <= no
        then == IF newest = 0 THEN 0
                ELSE last[CHOOSE t \in Txs : last[t].no = newest].at
        newer(t) == {u \in Txs : last[u].no > last[t].no}
        due == {t \in Txs : /\ last[t].no > 0
                            /\ then - last[t].at <= ArrivalMaxAge
                            /\ Cardinality(newer(t)) < ArrivalsCap}
    IN  /\ {arrivals[i].txid : i \in DOMAIN arrivals} = due
        /\ \A i, j \in DOMAIN arrivals :
              i < j => last[arrivals[i].txid].no > last[arrivals[j].txid].no

Overstay == IF stepped = "back" THEN MaxStep + PeakWidth - 1 ELSE 0

\* The capacity track is the deepest mempool an update saw in the last
\* buckets.  No depth is forgotten before an update comes a window after it,
\* whichever way the wall clock is set, and none outlives the window but by
\* as much as the clock was set back, in whole buckets.
PeakIsRecent ==
    depths # {} =>
        /\ \A d \in depths : d.until - Window <= d.start => d.vbytes <= peak.vbytes
        /\ \E d \in depths :
              /\ d.vbytes = peak.vbytes
              /\ d.start >= PeakBucket(peak.at) - Window - Overstay
=============================================================================
