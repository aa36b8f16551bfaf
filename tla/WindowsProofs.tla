--------------------------- MODULE WindowsProofs ---------------------------
(***************************************************************************)
(* Proofs about the two parts that keep accounts over windows of time.     *)
(* RateLimiter: its types, the bound on what a client is granted, and that *)
(* it implements TokenBuckets.  Landing, the instance Board of MCWindows:  *)
(* the peak of the mempool's depth, the feed of arrivals, the inflow rate. *)
(***************************************************************************)
EXTENDS MCWindows, SequenceTheorems, FiniteSetTheorems, WellFoundedInduction, TLAPS

\* What a request finds is between an empty and a full bucket, and is what
\* the client could spend: a bucket that is swept away was full.
LEMMA AvailableIsLevel ==
    ASSUME TypeOK, NEW c \in Clients
    PROVE  /\ Available(c) \in 0..Burst
           /\ Available(c) = Level(c)
<1> USE BurstAssumption, RateAssumption
<1>1. /\ tokens[c] \in 0..Burst
      /\ idle[c] \in 0..Burst + Rate
  BY DEF TypeOK
<1>2. Refilled(c) \in 0..Burst
  BY <1>1 DEF Refilled, Least
<1>3. CASE c \in Kept
  BY <1>2, <1>3 DEF Available, Level, Kept
<1>4. CASE c \notin Kept /\ c \notin held
  BY <1>4 DEF Available, Level
<1>5. CASE c \notin Kept /\ c \in held
  <2>1. idle[c] > Burst
    BY <1>5 DEF Kept, Swept
  <2>2. Refilled(c) = Burst
    BY <1>1, <2>1 DEF Refilled, Least
  <2> QED
    BY <1>5, <2>2 DEF Available, Level
<1> QED
  BY <1>3, <1>4, <1>5

\* Type correctness of the limiter.
THEOREM TypeCorrect == Spec => []TypeOK
<1> USE BurstAssumption, RateAssumption, CostAssumption, WindowAssumption
<1>1. Init => TypeOK
  BY DEF Init, TypeOK, NoRequest
<1>2. TypeOK /\ [Next]_vars => TypeOK'
  <2> SUFFICES ASSUME TypeOK, [Next]_vars
               PROVE  TypeOK'
    OBVIOUS
  <2>1. CASE Tick
    BY <2>1 DEF Tick, TypeOK
  <2>2. CASE \E c \in Clients : StartWindow(c)
    BY <2>2 DEF StartWindow, TypeOK
  <2>3. CASE \E c \in Clients, r \in Routes : Unlimited(c, r)
    BY <2>3 DEF Unlimited, TypeOK, window
  <2>4. ASSUME NEW c \in Clients, NEW r \in Routes, Request(c, r)
        PROVE  TypeOK'
    <3> DEFINE ok == Available(c) >= RouteCost[r]
    <3>1. /\ Available(c) \in 0..Burst
          /\ RouteCost[r] \in Nat
      BY AvailableIsLevel
    <3>2. tokens' \in [Clients -> 0..Burst]
      <4> SUFFICES ASSUME NEW k \in Clients
                   PROVE  tokens'[k] \in 0..Burst
        BY <2>4 DEF Request
      <4>1. tokens[k] \in 0..Burst
        BY DEF TypeOK
      <4>2. CASE k = c
        BY <2>4, <3>1, <4>2 DEF Request
      <4>3. CASE k # c
        BY <2>4, <4>1, <4>3 DEF Request
      <4> QED
        BY <4>2, <4>3
    <3>3. idle' \in [Clients -> 0..Burst + Rate]
      BY <2>4 DEF Request, TypeOK
    <3>4. held' \in SUBSET Clients
      BY <2>4 DEF Request, Kept, TypeOK
    <3>5. sweepIn' \in 0..SweepEvery + 1
      BY <2>4 DEF Request, TypeOK
    <3>6. verdict' \in [client : Clients \cup {"none"}, ok : BOOLEAN]
      BY <2>4 DEF Request
    <3>7. /\ observed' \in Clients
          /\ elapsed' \in 0..MaxWindow
          /\ spent' \in Nat
      BY <2>4, <3>1 DEF Request, TypeOK
    <3> QED
      BY <3>2, <3>3, <3>4, <3>5, <3>6, <3>7 DEF TypeOK
  <2>5. CASE UNCHANGED vars
    BY <2>5 DEF vars, window, TypeOK
  <2> QED
    BY <2>1, <2>2, <2>3, <2>4, <2>5 DEF Next
<1> QED
  BY <1>1, <1>2, PTL DEF Spec

\* What a tick adds to what a client could spend.
LEMMA TickLevel ==
    ASSUME TypeOK, Tick, NEW c \in Clients
    PROVE  Level(c)' = Least(Burst, Level(c) + Rate)
<1> USE BurstAssumption, RateAssumption
<1>1. /\ tokens[c] \in 0..Burst
      /\ idle[c] \in 0..Burst + Rate
      /\ held' = held /\ tokens' = tokens
      /\ idle'[c] = IF c \in held /\ idle[c] <= Burst THEN idle[c] + Rate
                    ELSE idle[c]
  BY DEF TypeOK, Tick
<1>2. CASE c \in held /\ idle[c] <= Burst
  BY <1>1, <1>2 DEF Level, Refilled, Least
<1>3. CASE c \in held /\ idle[c] > Burst
  BY <1>1, <1>3 DEF Level, Refilled, Least
<1>4. CASE c \notin held
  BY <1>1, <1>4 DEF Level, Least
<1> QED
  BY <1>1, <1>2, <1>3, <1>4

\* What a request leaves every client to spend: it pays when it is let
\* through, and the sweep it may run changes nothing.
LEMMA RequestLevel ==
    ASSUME TypeOK, NEW c \in Clients, NEW r \in Routes, Request(c, r),
           NEW k \in Clients
    PROVE  Level(k)' = IF k = c /\ Level(c) >= RouteCost[r]
                       THEN Level(c) - RouteCost[r] ELSE Level(k)
<1> USE BurstAssumption, RateAssumption, CostAssumption
<1>1. /\ Available(c) \in 0..Burst
      /\ Available(c) = Level(c)
      /\ Available(k) = Level(k)
      /\ RouteCost[r] \in Nat
  BY AvailableIsLevel
<1>2. CASE k = c
  <2>1. /\ k \in held'
        /\ idle'[k] = 0
        /\ tokens'[k] = IF Available(c) >= RouteCost[r]
                        THEN Available(c) - RouteCost[r] ELSE Available(c)
    BY <1>1, <1>2 DEF Request
  <2> QED
    BY <1>1, <1>2, <2>1 DEF Level, Refilled, Least
<1>3. CASE k # c /\ k \in Kept
  <2>1. k \in held' /\ idle'[k] = idle[k] /\ tokens'[k] = tokens[k]
    BY <1>3 DEF Request
  <2>2. k \in held
    BY <1>3 DEF Kept
  <2> QED
    BY <1>3, <2>1, <2>2 DEF Level, Refilled
<1>4. CASE k # c /\ k \notin Kept
  <2>1. k \notin held'
    BY <1>4 DEF Request
  <2>2. Available(k) = Burst
    BY <1>4 DEF Available
  <2> QED
    BY <1>1, <1>4, <2>1, <2>2 DEF Level
<1> QED
  BY <1>2, <1>3, <1>4

\* In any window a client is granted at most a full bucket and the refill.
THEOREM Granted == Spec => []GrantBound
<1> USE BurstAssumption, RateAssumption, CostAssumption, WindowAssumption
<1>1. Init => GrantBound
  BY DEF Init, GrantBound, Level
<1>2. TypeOK /\ GrantBound /\ [Next]_vars => GrantBound'
  <2> SUFFICES ASSUME TypeOK, GrantBound, [Next]_vars
               PROVE  GrantBound'
    OBVIOUS
  <2>0. /\ \A k \in Clients : Level(k) \in 0..Burst
        /\ observed \in Clients
        /\ spent \in Nat
        /\ elapsed \in Nat
    BY AvailableIsLevel DEF TypeOK
  <2>1. CASE Tick
    <3>1. Level(observed)' = Least(Burst, Level(observed) + Rate)
      <4>1. \A k \in Clients : Level(k)' = Least(Burst, Level(k) + Rate)
        BY <2>1, TickLevel
      <4> QED
        BY <2>0, <2>1, <4>1 DEF Tick, Level, Refilled
    <3>2. Level(observed)' <= Level(observed) + Rate
      BY <2>0, <3>1 DEF Least
    <3>3. spent' = spent /\ elapsed' = elapsed + 1
      BY <2>1 DEF Tick
    <3>4. Rate * elapsed' = Rate * elapsed + Rate
      BY <2>0, <3>3
    <3>5. Rate * elapsed \in Int /\ Level(observed)' \in Int
      BY <2>0, <3>1 DEF Least
    <3> HIDE DEF Level
    <3> QED
      BY <2>0, <3>2, <3>3, <3>4, <3>5 DEF GrantBound
  <2>2. ASSUME NEW c \in Clients, StartWindow(c)
        PROVE  GrantBound'
    <3>1. Level(c)' = Level(c)
      BY <2>2 DEF StartWindow, Level, Refilled
    <3>2. observed' = c /\ spent' = 0 /\ elapsed' = 0
      BY <2>2 DEF StartWindow
    <3>3. Level(observed)' = Level(c)'
      BY <3>2 DEF Level, Refilled
    <3>4. Rate * elapsed' = 0
      BY <3>2
    <3> QED
      BY <2>0, <3>1, <3>2, <3>3, <3>4 DEF GrantBound
  <2>3. ASSUME NEW c \in Clients, NEW r \in Routes, Unlimited(c, r)
        PROVE  GrantBound'
    <3>1. UNCHANGED <<held, tokens, idle, observed, spent, elapsed>>
      BY <2>3 DEF Unlimited, window
    <3>2. Level(observed)' = Level(observed)
      BY <3>1 DEF Level, Refilled
    <3> QED
      BY <3>1, <3>2 DEF GrantBound
  <2>4. ASSUME NEW c \in Clients, NEW r \in Routes, Request(c, r)
        PROVE  GrantBound'
    <3>1. observed' = observed /\ elapsed' = elapsed
      BY <2>4 DEF Request
    <3>2. Level(observed)' = IF observed = c /\ Level(c) >= RouteCost[r]
                             THEN Level(c) - RouteCost[r] ELSE Level(observed)
      <4>1. \A k \in Clients :
              Level(k)' = IF k = c /\ Level(c) >= RouteCost[r]
                          THEN Level(c) - RouteCost[r] ELSE Level(k)
        BY <2>4, RequestLevel
      <4> QED
        BY <2>0, <3>1, <4>1 DEF Level, Refilled
    <3>3. spent' = IF Level(c) >= RouteCost[r] /\ c = observed
                   THEN spent + RouteCost[r] ELSE spent
      <4>1. Available(c) = Level(c)
        BY AvailableIsLevel
      <4> QED
        BY <2>0, <2>4, <4>1 DEF Request
    <3>4. RouteCost[r] \in Nat
      BY CostAssumption
    <3>5. Rate * elapsed' = Rate * elapsed /\ Rate * elapsed \in Int
      BY <2>0, <3>1
    <3> QED
      BY <2>0, <3>1, <3>2, <3>3, <3>4, <3>5 DEF GrantBound
  <2>5. CASE UNCHANGED vars
    <3>1. UNCHANGED <<held, tokens, idle, observed, spent, elapsed>>
      BY <2>5 DEF vars, window
    <3>2. Level(observed)' = Level(observed)
      BY <3>1 DEF Level, Refilled
    <3> QED
      BY <3>1, <3>2 DEF GrantBound
  <2> QED
    BY <2>1, <2>2, <2>3, <2>4, <2>5 DEF Next
<1> QED
  BY <1>1, <1>2, TypeCorrect, PTL DEF Spec

\* The limiter implements the promise: a bucket per client for good.
THEOREM Refines == Spec => ImplementsTokenBuckets
<1> DEFINE level == [c \in Clients |-> Level(c)]
<1>1. Init => Buckets!Init
  BY DEF Init, Buckets!Init, Level, NoRequest, Buckets!NoRequest
<1>2. TypeOK /\ [Next]_vars => [Buckets!Next]_<<level, verdict>>
  <2> SUFFICES ASSUME TypeOK, [Next]_vars
               PROVE  Buckets!Next \/ UNCHANGED <<level, verdict>>
    OBVIOUS
  <2>1. CASE Tick
    <3>1. \A c \in Clients : Level(c)' = Least(Burst, Level(c) + Rate)
      BY <2>1, TickLevel
    <3>2. level' = [c \in Clients |-> Buckets!Least(Burst, level[c] + Rate)]
      BY <3>1 DEF Least, Buckets!Least
    <3> QED
      BY <2>1, <3>2 DEF Tick, Buckets!Next, Buckets!Tick
  <2>2. ASSUME NEW c \in Clients, NEW r \in Routes, Request(c, r)
        PROVE  Buckets!Request(c, r)
    <3>1. \A k \in Clients :
            Level(k)' = IF k = c /\ Level(c) >= RouteCost[r]
                        THEN Level(c) - RouteCost[r] ELSE Level(k)
      BY <2>2, RequestLevel
    <3>2. level' = IF level[c] >= RouteCost[r]
                   THEN [level EXCEPT ![c] = @ - RouteCost[r]] ELSE level
      BY <3>1
    <3>3. Available(c) = level[c]
      BY AvailableIsLevel
    <3>4. verdict' = [client |-> c, ok |-> level[c] >= RouteCost[r]]
      BY <2>2, <3>3 DEF Request
    <3> QED
      BY <3>2, <3>4 DEF Buckets!Request
  <2>3. ASSUME NEW c \in Clients, NEW r \in Routes, Unlimited(c, r)
        PROVE  Buckets!Request(c, r)
    <3>1. /\ UNCHANGED <<held, tokens, idle>>
          /\ RouteCost[r] = 0
          /\ verdict' = [client |-> c, ok |-> TRUE]
      BY <2>3 DEF Unlimited
    <3>2. level' = level
      BY <3>1 DEF Level, Refilled
    <3>3. level \in [Clients -> 0..Burst]
      BY AvailableIsLevel
    <3>4. level[c] >= RouteCost[r]
      BY <3>1, <3>3, BurstAssumption
    <3>5. [level EXCEPT ![c] = level[c] - RouteCost[r]] = level
      BY <3>1, <3>3, BurstAssumption
    <3> QED
      BY <3>1, <3>2, <3>4, <3>5 DEF Buckets!Request
  <2>4. CASE (\E c \in Clients : StartWindow(c)) \/ UNCHANGED vars
    BY <2>4 DEF StartWindow, vars, window, Level, Refilled
  <2> QED
    BY <2>1, <2>2, <2>3, <2>4 DEF Next, Buckets!Next
<1> QED
  BY <1>1, <1>2, TypeCorrect, PTL
     DEF Spec, ImplementsTokenBuckets, Buckets!Spec

-----------------------------------------------------------------------------
(* The landing page: the peak of the mempool's depth *)

\* The order of the naturals as a relation, which is well founded.
LEMMA LessThan == \E R : /\ IsWellFoundedOn(R, Nat)
                         /\ \A a, b \in Nat : a < b => <<a, b>> \in R
<1>1. IsWellFoundedOn(OpToRel(<, Nat), Nat)
  BY NatLessThanWellFounded
<1>2. \A a, b \in Nat : a < b => <<a, b>> \in OpToRel(<, Nat)
  BY DEF OpToRel
<1> QED
  BY <1>1, <1>2, Zenon

\* A nonempty set of naturals has a minimal element.
LEMMA Minimal ==
    ASSUME NEW R, IsWellFoundedOn(R, Nat), NEW T, T \subseteq Nat, T # {}
    PROVE  \E x \in T : \A y \in T : ~(<<y, x>> \in R)
<1> PICK S : S = Nat
  OBVIOUS
<1>1. IsWellFoundedOn(R, S) /\ T \subseteq S
  OBVIOUS
<1> QED
  BY <1>1, WFMin, ZenonT(20)

\* Every nonempty set of naturals has a least element: the induction that
\* the proofs below use.
LEMMA LeastNumber ==
    ASSUME NEW T \in SUBSET Nat, T # {}
    PROVE  \E x \in T : \A y \in T : x <= y
<1> PICK R : /\ IsWellFoundedOn(R, Nat)
             /\ \A a, b \in Nat : a < b => <<a, b>> \in R
  BY LessThan
<1>2. T \subseteq Nat /\ \A x, y \in Nat : <<y, x>> \notin R => ~(y < x)
  OBVIOUS
<1>3. \E x \in T : \A y \in T : ~(<<y, x>> \in R)
  BY Minimal
<1>4. \E x \in T : \A y \in T : ~(y < x)
  BY <1>2, <1>3, Zenon
<1> QED
  BY <1>4

\* A nonempty list of naturals has a greatest member.
LEMMA GreatestMember ==
    ASSUME NEW n \in Nat \ {0}, NEW f \in [1..n -> Nat]
    PROVE  \E m \in 1..n : \A i \in 1..n : f[i] <= f[m]
<1> DEFINE has(k) == \E m \in 1..k : \A i \in 1..k : f[i] <= f[m]
           T == {k \in 1..n : ~has(k)}
<1>1. CASE T # {}
  <2> T \in SUBSET Nat
    OBVIOUS
  <2> HIDE DEF T
  <2>1. PICK k \in T : \A j \in T : k <= j
    BY <1>1, LeastNumber
  <2> USE DEF T
  <2>2. k \in 1..n /\ ~has(k)
    BY <2>1
  <2>3. CASE k = 1
    BY <2>2, <2>3
  <2>4. CASE k # 1
    <3>0. k - 1 \in 1..n /\ ~(k <= k - 1)
      BY <2>2, <2>4
    <3>1. k - 1 \in 1..n /\ has(k - 1)
      <4> HIDE DEF has
      <4> QED
        BY <2>1, <3>0
    <3>2. PICK m \in 1..k - 1 : \A i \in 1..k - 1 : f[i] <= f[m]
      BY <3>1
    <3>3. f[k] \in Nat /\ f[m] \in Nat /\ \A i \in 1..k : i = k \/ i \in 1..k - 1
      BY <2>2, <3>1
    <3>4. CASE f[k] <= f[m]
      <4>1. \A i \in 1..k : f[i] <= f[m]
        BY <3>2, <3>3, <3>4
      <4>2. m \in 1..k
        BY <2>2, <3>0
      <4> QED
        BY <4>1, <4>2, <2>2
    <3>5. CASE f[m] < f[k]
      <4>1. \A i \in 1..k : f[i] <= f[k]
        <5> SUFFICES ASSUME NEW i \in 1..k
                     PROVE  f[i] <= f[k]
          OBVIOUS
        <5>1. CASE i = k
          BY <5>1, <3>3
        <5>2. CASE i \in 1..k - 1
          <6>1. f[i] \in Nat /\ f[i] <= f[m]
            BY <5>2, <3>2, <2>2
          <6> QED
            BY <6>1, <3>5, <3>3
        <5> QED
          BY <5>1, <5>2, <3>3
      <4>2. k \in 1..k
        BY <2>2
      <4> QED
        BY <4>1, <4>2, <2>2
    <3> QED
      BY <3>3, <3>4, <3>5
  <2> QED
    BY <2>3, <2>4
<1>2. CASE T = {}
  <2> HIDE DEF has
  <2>1. n \in 1..n /\ n \notin T
    BY <1>2
  <2>2. has(n)
    <3> HIDE DEF has
    <3> QED
      BY <2>1
  <2> QED
    BY <2>2 DEF has
<1> QED
  BY <1>1, <1>2

\* A peak bucket begins at or before the moment, less than its width before,
\* and a later moment's bucket is no earlier.
LEMMA BucketOf ==
    ASSUME NEW w \in Int
    PROVE  /\ Board!PeakBucket(w) \in Int
           /\ Board!PeakBucket(w) <= w /\ w <= Board!PeakBucket(w) + PeakWidth - 1
<1>1. PeakWidth \in Nat \ {0}
  BY BoardAssumption DEF Board!LandingAssumption
<1> DEFINE q == w \div PeakWidth
<1>2. q \in Int /\ q * PeakWidth <= w /\ w < q * PeakWidth + PeakWidth
  BY <1>1
<1>3. q * PeakWidth \in Int
  BY <1>1, <1>2
<1> HIDE DEF q
<1>4. Board!PeakBucket(w) = q * PeakWidth
  BY DEF Board!PeakBucket, q
<1> QED
  BY <1>1, <1>2, <1>3, <1>4

\* Later times have no earlier buckets.
LEMMA BucketGrows ==
    ASSUME NEW v \in Int, NEW w \in Int, v <= w
    PROVE  Board!PeakBucket(v) <= Board!PeakBucket(w)
<1>1. PeakWidth \in Nat \ {0}
  BY BoardAssumption DEF Board!LandingAssumption
<1> DEFINE p == v \div PeakWidth
           q == w \div PeakWidth
<1>2. p \in Int /\ q \in Int /\ p <= q
  BY <1>1
<1> HIDE DEF p, q
<1>3. p * PeakWidth <= q * PeakWidth
  BY <1>1, <1>2
<1> QED
  BY <1>3 DEF Board!PeakBucket, p, q

PeakEntries == [start : Int, max : Nat]
DepthEntries == [start : Int, vbytes : Nat, until : Int]

BoardTypes ==
    /\ now \in Int /\ shift \in Int /\ stepped \in {"no", "back", "forth"}
    /\ peaks \in Seq(PeakEntries) /\ peak \in [vbytes : Nat, at : Int]
    /\ depths \in SUBSET DepthEntries

\* Every bucket kept holds a depth that was noted.
PeaksNoted ==
    \A i \in 1..Len(peaks) :
        \E d \in depths : d.start = peaks[i].start /\ d.vbytes = peaks[i].max

\* Every depth that no update has come a window after is in its bucket.
DepthsKept ==
    \A d \in depths :
        d.until - Board!Window <= d.start =>
            \E i \in 1..Len(peaks) : peaks[i].start = d.start /\ d.vbytes <= peaks[i].max

\* The buckets are in order, but for the step back ...
PeaksInOrder ==
    \A i, j \in 1..Len(peaks) :
        i <= j => peaks[j].start >= peaks[i].start - Board!Overstay

\* ... which is also how far they may be ahead of the clock.
PeaksPast ==
    \A i \in 1..Len(peaks) :
        \E w \in Int : /\ peaks[i].start = Board!PeakBucket(w)
                       /\ w <= now + shift + (IF stepped = "back" THEN MaxStep ELSE 0)

\* The capacity track is the greatest of the buckets, the first of which is
\* in the window.
PeakOfPeaks ==
    depths # {} =>
        /\ peaks # <<>>
        /\ peaks[1].start >= Board!PeakBucket(peak.at) - Board!Window
        /\ \A i \in 1..Len(peaks) : peaks[i].max <= peak.vbytes
        /\ \E i \in 1..Len(peaks) : peaks[i].max = peak.vbytes

PeakInv ==
    /\ BoardTypes
    /\ PeaksNoted
    /\ DepthsKept
    /\ PeaksInOrder
    /\ PeaksPast
    /\ PeakOfPeaks

\* The window and the stay beyond it are spans of time.
LEMMA WindowType == Board!Window \in Nat
<1>1. PeakWidth \in Nat /\ PeakBuckets - 1 \in Nat
  BY BoardAssumption DEF Board!LandingAssumption
<1> QED
  BY <1>1 DEF Board!Window

\* How long a bucket may stay beyond the window.
LEMMA OverstayType == Board!Overstay \in Nat
<1>1. PeakWidth \in Nat \ {0} /\ MaxStep \in Nat
  BY BoardAssumption DEF Board!LandingAssumption
<1> QED
  BY <1>1 DEF Board!Overstay

\* What the invariant is for: the promise of the capacity track.
LEMMA PeakInvImplies == PeakInv => PeakIsRecent
<1> SUFFICES ASSUME PeakInv, depths # {}
             PROVE  /\ \A d \in depths :
                          d.until - Board!Window <= d.start => d.vbytes <= peak.vbytes
                    /\ \E d \in depths :
                          /\ d.vbytes = peak.vbytes
                          /\ d.start >= Board!PeakBucket(peak.at) - Board!Window - Board!Overstay
  BY DEF PeakIsRecent, Board!PeakIsRecent
<1> USE WindowType, OverstayType
<1>1. ASSUME NEW d \in depths, d.until - Board!Window <= d.start
      PROVE  d.vbytes <= peak.vbytes
  <2>1. PICK i \in 1..Len(peaks) : d.vbytes <= peaks[i].max
    BY <1>1 DEF PeakInv, DepthsKept
  <2>2. peaks[i].max <= peak.vbytes
    BY DEF PeakInv, PeakOfPeaks
  <2>3. peaks[i] \in PeakEntries /\ d \in DepthEntries
    BY <1>1, ElementOfSeq DEF PeakInv, BoardTypes
  <2>4. d.vbytes \in Nat /\ peaks[i].max \in Nat /\ peak.vbytes \in Nat
    BY <2>3 DEF PeakInv, BoardTypes, DepthEntries, PeakEntries
  <2> QED
    BY <2>1, <2>2, <2>4
<1>2. PICK i \in 1..Len(peaks) : peaks[i].max = peak.vbytes
  BY DEF PeakInv, PeakOfPeaks
<1>3. PICK d \in depths : d.start = peaks[i].start /\ d.vbytes = peaks[i].max
  BY DEF PeakInv, PeaksNoted
<1>4. 1 \in 1..Len(peaks) /\ 1 <= i
  BY DEF PeakInv, BoardTypes
<1>5. peaks[i].start >= peaks[1].start - Board!Overstay
  BY <1>4 DEF PeakInv, PeaksInOrder
<1>6. peaks[1].start >= Board!PeakBucket(peak.at) - Board!Window
  BY DEF PeakInv, PeakOfPeaks
<1>7. Board!PeakBucket(peak.at) \in Int
  BY BucketOf DEF PeakInv, BoardTypes
<1>8. peaks[i].start \in Int /\ peaks[1].start \in Int
  <2>1. peaks[i] \in PeakEntries /\ peaks[1] \in PeakEntries
    BY <1>4, ElementOfSeq DEF PeakInv, BoardTypes
  <2> QED
    BY <2>1 DEF PeakEntries
<1>9. d.start >= Board!PeakBucket(peak.at) - Board!Window - Board!Overstay
  BY <1>3, <1>5, <1>6, <1>7, <1>8
<1> QED
  BY <1>1, <1>2, <1>3, <1>9

\* The capacity track is the greatest of a list of buckets that begins with
\* the depth's own or holds it.
LEMMA MaxOfIs ==
    ASSUME NEW depth \in Nat, NEW bs \in Seq(PeakEntries), bs # <<>>,
           \E i \in 1..Len(bs) : depth <= bs[i].max
    PROVE  /\ Board!MaxOf(depth, bs) \in Nat
           /\ \A i \in 1..Len(bs) : bs[i].max <= Board!MaxOf(depth, bs)
           /\ \E i \in 1..Len(bs) : bs[i].max = Board!MaxOf(depth, bs)
<1> DEFINE n == Len(bs)
           f == [i \in 1..n |-> bs[i].max]
           M == {depth} \cup {b.max : b \in Board!Range(bs)}
           best(m) == \A b \in Board!Range(bs) : depth <= m /\ b.max <= m
<1>1. n \in Nat \ {0} /\ f \in [1..n -> Nat] /\ bs \in [1..n -> PeakEntries]
  <2>1. n \in Nat \ {0} /\ bs \in [1..n -> PeakEntries]
    BY EmptySeq, LenProperties
  <2>2. \A i \in 1..n : bs[i].max \in Nat
    BY <2>1 DEF PeakEntries
  <2> QED
    BY <2>1, <2>2
<1>2. PICK k \in 1..n : \A i \in 1..n : f[i] <= f[k]
  BY <1>1, GreatestMember
<1>3. Board!Range(bs) = {bs[i] : i \in 1..n}
  BY <1>1 DEF Board!Range
<1>4. \A i \in 1..n : bs[i].max \in Nat /\ bs[i].max <= bs[k].max
  BY <1>1, <1>2 DEF PeakEntries
<1>5. depth <= bs[k].max
  BY <1>4
<1>6. bs[k].max \in M /\ best(bs[k].max)
  BY <1>3, <1>4, <1>5
<1>7. Board!MaxOf(depth, bs) = CHOOSE m \in M : best(m)
  BY DEF Board!MaxOf
<1>8. Board!MaxOf(depth, bs) \in M /\ best(Board!MaxOf(depth, bs))
  <2> HIDE DEF M, best
  <2> QED
    BY <1>6, <1>7
<1>9. \A i \in 1..n : bs[i].max <= Board!MaxOf(depth, bs)
  BY <1>3, <1>8
<1>10. \E i \in 1..n : bs[i].max = Board!MaxOf(depth, bs)
  <2>1. CASE \E b \in Board!Range(bs) : b.max = Board!MaxOf(depth, bs)
    BY <2>1, <1>3
  <2>2. CASE Board!MaxOf(depth, bs) = depth
    BY <2>2, <1>4, <1>5, <1>9
  <2> QED
    BY <2>1, <2>2, <1>8
<1> QED
  BY <1>4, <1>9, <1>10

\* The instance counts as this module does.
LEMMA SameCardinality == \A S : Board!Cardinality(S) = Cardinality(S)
  BY DEF Board!Cardinality, Cardinality

\* What Recent drops of a list whose last bucket is the clock's: the entries
\* before k, all of them before the window; the one at k is within it.
RecentFrom(bs, k) ==
    /\ Board!Recent(bs) = SubSeq(bs, k, Len(bs))
    /\ \A j \in 1..k - 1 : bs[j].start < Board!Cutoff
    /\ bs[k].start >= Board!Cutoff

\* Recent drops a prefix and keeps the bucket of now.
LEMMA RecentIs ==
    ASSUME NEW bs \in Seq(PeakEntries), bs # <<>>, now + shift \in Int,
           bs[Len(bs)].start = Board!Bucket
    PROVE  \E k \in 1..Len(bs) : RecentFrom(bs, k)
<1> DEFINE n == Len(bs)
           kept == {i \in 1..n : bs[i].start >= Board!Cutoff}
           drop == {i \in 1..n : \A j \in 1..i : bs[j].start < Board!Cutoff}
<1>1. n \in Nat \ {0} /\ \A i \in 1..n : bs[i].start \in Int
  <2>1. n \in Nat \ {0} /\ \A i \in 1..n : bs[i] \in PeakEntries
    BY EmptySeq, ElementOfSeq
  <2> QED
    BY <2>1 DEF PeakEntries
<1>2. Board!Bucket \in Int /\ Board!Cutoff \in Int /\ Board!Cutoff <= Board!Bucket
  BY BucketOf, WindowType DEF Board!Bucket, Board!Cutoff, Board!wall
<1>3. n \in kept
  BY <1>1, <1>2
<1>4. PICK k \in kept : \A i \in kept : k <= i
  <2>1. kept \in SUBSET Nat
    OBVIOUS
  <2> HIDE DEF kept
  <2> QED
    BY <1>3, <2>1, LeastNumber
<1>5. k \in 1..n /\ bs[k].start >= Board!Cutoff
  BY <1>4
<1>6. \A j \in 1..k - 1 : bs[j].start < Board!Cutoff
  <2> SUFFICES ASSUME NEW j \in 1..k - 1
               PROVE  bs[j].start < Board!Cutoff
    OBVIOUS
  <2>1. j \in 1..n /\ ~(k <= j)
    BY <1>5
  <2>2. j \notin kept
    <3> HIDE DEF kept
    <3> QED
      BY <1>4, <2>1
  <2> QED
    BY <1>1, <1>2, <2>1, <2>2
<1>7. drop = 1..k - 1
  <2>1. ASSUME NEW i \in 1..k - 1
        PROVE  i \in drop
    BY <1>5, <1>6
  <2>2. ASSUME NEW i \in drop
        PROVE  i \in 1..k - 1
    BY <1>1, <1>2, <1>5
  <2> QED
    BY <2>1, <2>2
<1>8. Cardinality(drop) = k - 1
  <2>1. k \in Int /\ k - 1 \in Int /\ 1 \in Int /\ k - 1 >= 0
    BY <1>5
  <2>2. Cardinality(1..k - 1) = IF 1 > k - 1 THEN 0 ELSE (k - 1) - 1 + 1
    BY <2>1, FS_Interval
  <2>3. (IF 1 > k - 1 THEN 0 ELSE (k - 1) - 1 + 1) = k - 1
    BY <2>1
  <2> HIDE DEF drop
  <2> QED
    BY <1>7, <2>2, <2>3
<1>9. Board!Recent(bs) = SubSeq(bs, Cardinality(drop) + 1, Len(bs))
  BY SameCardinality DEF Board!Recent
<1>10. Cardinality(drop) + 1 = k
  BY <1>5, <1>8
<1>11. RecentFrom(bs, k)
  BY <1>5, <1>6, <1>9, <1>10 DEF RecentFrom
<1> QED
  BY <1>5, <1>11

\* The list before old buckets are dropped: the buckets there were, the last
\* of them now the clock's and at least as deep as the mempool.
Raised(bs, depth) ==
    /\ bs \in Seq(PeakEntries) /\ bs # <<>>
    /\ bs[Len(bs)].start = Board!Bucket /\ depth <= bs[Len(bs)].max
    /\ Len(bs) >= Len(peaks)
    /\ \A i \in 1..Len(peaks) : /\ bs[i].start = peaks[i].start
                                /\ peaks[i].max <= bs[i].max
    /\ \A i \in 1..Len(bs) : \/ i \in 1..Len(peaks) /\ bs[i] = peaks[i]
                             \/ i = Len(bs) /\ bs[i].max = depth

\* A depth noted raises its bucket, the last one, or opens it.
LEMMA NotePeakIs ==
    ASSUME BoardTypes, NEW depth \in Nat
    PROVE  \E bs : Raised(bs, depth) /\ Board!notePeak(depth) = Board!Recent(bs)
<1> DEFINE n == Len(peaks)
           same == peaks # <<>> /\ Board!Last(peaks).start = Board!Bucket
           deeper == IF peaks[n].max < depth THEN depth ELSE peaks[n].max
           merged == [peaks EXCEPT ![n].max = IF @ < depth THEN depth ELSE @]
           added == Append(peaks, [start |-> Board!Bucket, max |-> depth])
<1>1. n \in Nat /\ peaks \in Seq(PeakEntries) /\ peaks \in [1..n -> PeakEntries]
  BY DEF BoardTypes
<1>2. \A i \in 1..n : peaks[i].start \in Int /\ peaks[i].max \in Nat
  BY <1>1 DEF PeakEntries
<1>3. Board!Bucket \in Int
  BY BucketOf DEF BoardTypes, Board!Bucket, Board!wall
<1>4. CASE same
  <2>1. n \in 1..n /\ peaks[n].start = Board!Bucket
    BY <1>1, <1>4, EmptySeq DEF Board!Last
  <2>2. merged = [peaks EXCEPT ![n] = [peaks[n] EXCEPT !.max = deeper]]
    OBVIOUS
  <2>3. [peaks[n] EXCEPT !.max = deeper] \in PeakEntries
    BY <1>1, <2>1 DEF PeakEntries
  <2>4. /\ merged \in Seq(PeakEntries) /\ Len(merged) = n
        /\ \A i \in 1..n : merged[i] = IF i = n THEN [peaks[n] EXCEPT !.max = deeper]
                                       ELSE peaks[i]
    BY <1>1, <2>1, <2>2, <2>3, ExceptSeq
  <2>5. /\ merged[n].start = peaks[n].start /\ merged[n].max = deeper
        /\ deeper = peaks[n].max => merged[n] = peaks[n]
    BY <1>1, <2>1, <2>4 DEF PeakEntries
  <2>6. merged # <<>>
    BY <1>1, <2>1, <2>4
  <2>7. depth <= deeper /\ peaks[n].max <= deeper /\ deeper \in {depth, peaks[n].max}
    BY <1>2, <2>1
  <2>8. \A i \in 1..n : /\ merged[i].start = peaks[i].start
                        /\ peaks[i].max <= merged[i].max
    <3> HIDE DEF merged, deeper
    <3> QED
      BY <1>2, <2>4, <2>5, <2>7
  <2>9. \A i \in 1..n : \/ i \in 1..n /\ merged[i] = peaks[i]
                        \/ i = n /\ merged[i].max = depth
    <3> HIDE DEF merged, deeper
    <3> QED
      BY <2>4, <2>5, <2>7
  <2>10. Raised(merged, depth)
    <3> HIDE DEF merged, deeper
    <3> QED
      BY <1>1, <2>1, <2>4, <2>5, <2>6, <2>7, <2>8, <2>9 DEF Raised
  <2>11. Board!notePeak(depth) = Board!Recent(merged)
    BY <1>4 DEF Board!notePeak
  <2> QED
    BY <2>10, <2>11
<1>5. CASE ~same
  <2>1. /\ added \in Seq(PeakEntries) /\ Len(added) = n + 1 /\ added # <<>>
        /\ added[n + 1] = [start |-> Board!Bucket, max |-> depth]
        /\ \A i \in 1..n : added[i] = peaks[i]
    <3>1. [start |-> Board!Bucket, max |-> depth] \in PeakEntries
      BY <1>3 DEF PeakEntries
    <3> QED
      BY <1>1, <3>1, AppendProperties
  <2>2. \A i \in 1..n + 1 : i \in 1..n \/ i = n + 1
    BY <1>1
  <2>3. Raised(added, depth)
    <3> HIDE DEF added
    <3> QED
      BY <1>1, <1>2, <2>1, <2>2 DEF Raised
  <2>4. Board!notePeak(depth) = Board!Recent(added)
    BY <1>5 DEF Board!notePeak
  <2> QED
    BY <2>3, <2>4
<1> QED
  BY <1>4, <1>5

\* What is left of the list once old buckets are dropped, entry by entry.
LEMMA RecentEntries ==
    ASSUME NEW bs \in Seq(PeakEntries), NEW k \in 1..Len(bs), RecentFrom(bs, k)
    PROVE  /\ Board!Recent(bs) \in Seq(PeakEntries)
           /\ Len(Board!Recent(bs)) = Len(bs) - k + 1
           /\ \A i \in 1..Len(bs) - k + 1 : Board!Recent(bs)[i] = bs[i + k - 1]
<1>1. \A i \in k..Len(bs) : bs[i] \in PeakEntries
  BY ElementOfSeq
<1>2. k \in Int /\ Len(bs) \in Int /\ k <= Len(bs)
  OBVIOUS
<1>3. Board!Recent(bs) = SubSeq(bs, k, Len(bs))
  BY DEF RecentFrom
<1>4. /\ SubSeq(bs, k, Len(bs)) \in Seq(PeakEntries)
      /\ Len(SubSeq(bs, k, Len(bs))) = IF k <= Len(bs) THEN Len(bs) - k + 1 ELSE 0
      /\ \A i \in 1..Len(bs) - k + 1 : SubSeq(bs, k, Len(bs))[i] = bs[k + i - 1]
  BY <1>1, <1>2, SubSeqProperties
<1>5. \A i \in 1..Len(bs) - k + 1 : k + i - 1 = i + k - 1
  BY <1>2
<1> QED
  BY <1>2, <1>3, <1>4, <1>5

\* An update keeps the invariant.
LEMMA UpdateKeepsPeak ==
    ASSUME PeakInv, NEW depth \in Depths, Board!Update(depth)
    PROVE  PeakInv'
<1> DEFINE B == Board!Bucket
           marked(d) == [d EXCEPT !.until = IF @ < B THEN B ELSE @]
           new == [start |-> B, vbytes |-> depth, until |-> B]
<1>1. /\ depth \in Nat
      /\ peaks' = Board!notePeak(depth)
      /\ peak' = [vbytes |-> Board!MaxOf(depth, peaks'), at |-> now + shift]
      /\ depths' = {marked(d) : d \in depths} \cup {new}
      /\ UNCHANGED <<now, shift, stepped>>
  BY BoardAssumption DEF Board!Update, Board!clock, Board!wall, Board!LandingAssumption
<1>2. /\ B \in Int /\ B = Board!PeakBucket(now + shift)
      /\ B <= now + shift /\ now + shift <= B + PeakWidth - 1
      /\ Board!Cutoff = B - Board!Window /\ Board!Window \in Nat /\ Board!Overstay \in Nat
  <2>1. now + shift \in Int
    BY DEF PeakInv, BoardTypes
  <2>2. B = Board!PeakBucket(now + shift)
    BY DEF Board!Bucket, Board!wall
  <2> HIDE DEF B
  <2> QED
    BY <2>1, <2>2, BucketOf, WindowType, OverstayType DEF Board!Cutoff, B
<1>3. Board!Overstay' = Board!Overstay
  BY <1>1 DEF Board!Overstay
<1>4. PICK bs : Raised(bs, depth) /\ peaks' = Board!Recent(bs)
  BY <1>1, NotePeakIs DEF PeakInv
<1>5. bs \in Seq(PeakEntries) /\ bs # <<>> /\ Len(bs) \in Nat \ {0}
  BY <1>4, EmptySeq DEF Raised
<1>6. PICK k \in 1..Len(bs) : RecentFrom(bs, k)
  BY <1>2, <1>4, <1>5, RecentIs DEF Raised, PeakInv, BoardTypes
<1>7. /\ peaks' \in Seq(PeakEntries)
      /\ Len(peaks') = Len(bs) - k + 1
      /\ \A i \in 1..Len(bs) - k + 1 : peaks'[i] = bs[i + k - 1]
  BY <1>4, <1>5, <1>6, RecentEntries
<1>8. \A i \in 1..Len(bs) : bs[i].start \in Int /\ bs[i].max \in Nat
  <2>1. \A i \in 1..Len(bs) : bs[i] \in PeakEntries
    BY <1>5, ElementOfSeq
  <2> QED
    BY <2>1 DEF PeakEntries
<1> HIDE DEF B, marked, new
<1> DEFINE m == Len(peaks')
<1>9. m \in Nat \ {0} /\ m = Len(bs) - k + 1 /\ peaks'[m] = bs[Len(bs)] /\ peaks' # <<>>
  BY <1>5, <1>7
<1>10. \A i \in 1..m : i + k - 1 \in 1..Len(bs) /\ peaks'[i] = bs[i + k - 1]
  BY <1>5, <1>7, <1>9
<1>11. \A d \in depths : /\ d.start \in Int /\ d.vbytes \in Nat /\ d.until \in Int
                         /\ marked(d) \in DepthEntries
                         /\ marked(d).start = d.start /\ marked(d).vbytes = d.vbytes
                         /\ marked(d).until \in Int
                         /\ marked(d).until >= d.until /\ marked(d).until >= B
  <2> SUFFICES ASSUME NEW d \in depths
               PROVE  /\ d.start \in Int /\ d.vbytes \in Nat /\ d.until \in Int
                      /\ marked(d) \in DepthEntries
                      /\ marked(d).start = d.start /\ marked(d).vbytes = d.vbytes
                      /\ marked(d).until \in Int
                      /\ marked(d).until >= d.until /\ marked(d).until >= B
    OBVIOUS
  <2>1. d \in DepthEntries
    BY DEF PeakInv, BoardTypes
  <2>2. /\ marked(d) = [start |-> d.start, vbytes |-> d.vbytes,
                       until |-> IF d.until < B THEN B ELSE d.until]
    BY <2>1 DEF marked, DepthEntries
  <2> QED
    BY <1>2, <2>1, <2>2 DEF DepthEntries
<1>12. new \in DepthEntries /\ new.start = B /\ new.vbytes = depth /\ new.until = B
  BY <1>1, <1>2 DEF new, DepthEntries
<1>13. \E i \in 1..m : depth <= peaks'[i].max
  BY <1>4, <1>9 DEF Raised
<1>14. /\ peak' = [vbytes |-> Board!MaxOf(depth, peaks'), at |-> now + shift]
       /\ peak'.vbytes \in Nat
       /\ \A i \in 1..m : peaks'[i].max <= peak'.vbytes
       /\ \E i \in 1..m : peaks'[i].max = peak'.vbytes
  <2> DEFINE ps == peaks'
  <2>1. ps \in Seq(PeakEntries) /\ ps # <<>> /\ \E i \in 1..Len(ps) : depth <= ps[i].max
    BY <1>7, <1>9, <1>13
  <2> HIDE DEF ps
  <2>2. /\ Board!MaxOf(depth, ps) \in Nat
        /\ \A i \in 1..Len(ps) : ps[i].max <= Board!MaxOf(depth, ps)
        /\ \E i \in 1..Len(ps) : ps[i].max = Board!MaxOf(depth, ps)
    BY <1>1, <2>1, MaxOfIs
  <2> QED
    BY <1>1, <2>2 DEF ps
<1>15. BoardTypes'
  <2>1. depths' \in SUBSET DepthEntries
    BY <1>1, <1>11, <1>12
  <2>2. peak' \in [vbytes : Nat, at : Int]
    BY <1>1, <1>14 DEF PeakInv, BoardTypes
  <2> QED
    BY <1>1, <1>7, <2>1, <2>2 DEF PeakInv, BoardTypes
<1>16. PeaksNoted'
  <2> SUFFICES ASSUME NEW i \in 1..m
               PROVE  \E d \in depths' : d.start = peaks'[i].start /\ d.vbytes = peaks'[i].max
    BY DEF PeaksNoted
  <2>1. PICK j \in 1..Len(bs) : j = i + k - 1 /\ peaks'[i] = bs[j]
    BY <1>10
  <2>2. CASE j \in 1..Len(peaks) /\ bs[j] = peaks[j]
    <3>1. PICK d \in depths : d.start = peaks[j].start /\ d.vbytes = peaks[j].max
      BY <2>2 DEF PeakInv, PeaksNoted
    <3>2. marked(d) \in depths'
      BY <1>1
    <3> QED
      BY <1>11, <2>1, <2>2, <3>1, <3>2
  <2>3. CASE j = Len(bs) /\ bs[j].max = depth
    <3>1. new \in depths'
      BY <1>1
    <3> QED
      BY <1>4, <1>12, <2>1, <2>3, <3>1 DEF Raised, B
  <2> QED
    BY <1>4, <2>2, <2>3 DEF Raised
<1>17. DepthsKept'
  <2> SUFFICES ASSUME NEW e \in depths', e.until - Board!Window <= e.start
               PROVE  \E i \in 1..m : peaks'[i].start = e.start /\ e.vbytes <= peaks'[i].max
    BY DEF DepthsKept, Board!Window
  <2>1. CASE e = new
    BY <1>4, <1>9, <1>12, <2>1 DEF Raised, B
  <2>2. ASSUME NEW d \in depths, e = marked(d)
        PROVE  \E i \in 1..m : peaks'[i].start = e.start /\ e.vbytes <= peaks'[i].max
    <3>1. d.until - Board!Window <= d.start /\ B - Board!Window <= d.start
      BY <1>2, <1>11, <2>2
    <3>2. PICK j \in 1..Len(peaks) : peaks[j].start = d.start /\ d.vbytes <= peaks[j].max
      BY <3>1 DEF PeakInv, DepthsKept
    <3>3. j \in 1..Len(bs) /\ bs[j].start = peaks[j].start /\ peaks[j].max <= bs[j].max
      BY <1>4, <1>5 DEF Raised, PeakInv, BoardTypes
    <3>4. ~(j \in 1..k - 1)
      BY <1>2, <1>6, <1>8, <3>1, <3>2, <3>3 DEF RecentFrom
    <3>5. PICK i \in 1..m : i + k - 1 = j
      <4>1. j - k + 1 \in 1..m /\ (j - k + 1) + k - 1 = j
        BY <1>9, <3>3, <3>4
      <4> QED
        BY <4>1
    <3>6. peaks'[i] = bs[j]
      BY <1>10, <3>5
    <3>7. peaks[j].max \in Nat
      <4>1. peaks[j] \in PeakEntries
        BY ElementOfSeq DEF PeakInv, BoardTypes
      <4> QED
        BY <4>1 DEF PeakEntries
    <3>8. d.vbytes <= bs[j].max
      BY <1>8, <1>11, <3>2, <3>3, <3>7
    <3> QED
      BY <1>11, <2>2, <3>2, <3>3, <3>6, <3>8
  <2> QED
    BY <1>1, <2>1, <2>2
<1>18. \A i \in 1..Len(peaks) : peaks[i].start \in Int /\ peaks[i].start <= B + Board!Overstay
  <2> SUFFICES ASSUME NEW i \in 1..Len(peaks)
               PROVE  peaks[i].start \in Int /\ peaks[i].start <= B + Board!Overstay
    OBVIOUS
  <2>1. PICK w \in Int : /\ peaks[i].start = Board!PeakBucket(w)
                         /\ w <= now + shift + (IF stepped = "back" THEN MaxStep ELSE 0)
    BY DEF PeakInv, PeaksPast
  <2>2. peaks[i].start \in Int /\ peaks[i].start <= w
    BY <2>1, BucketOf
  <2>3. MaxStep \in Nat /\ PeakWidth \in Nat \ {0} /\ now + shift \in Int
    BY BoardAssumption DEF Board!LandingAssumption, PeakInv, BoardTypes
  <2>4. CASE stepped = "back"
    <3>1. Board!Overstay = MaxStep + PeakWidth - 1
      BY <2>4 DEF Board!Overstay
    <3>2. w <= now + shift + MaxStep
      BY <2>1, <2>4
    <3> DEFINE v == now + shift
           s == peaks[i].start
    <3>3. /\ v \in Int /\ v <= B + PeakWidth - 1 /\ w <= v + MaxStep
          /\ s \in Int /\ s <= w /\ B \in Int /\ MaxStep \in Int /\ PeakWidth \in Int
      BY <1>2, <2>2, <2>3, <3>2
    <3> HIDE DEF v, s
    <3>4. s <= B + (MaxStep + PeakWidth - 1)
      BY <3>3
    <3> QED
      BY <2>2, <3>1, <3>4 DEF s
  <2>5. CASE stepped # "back"
    <3>1. w <= now + shift
      BY <2>1, <2>3, <2>5
    <3>2. peaks[i].start <= B
      BY <1>2, <2>1, <2>3, <3>1, BucketGrows
    <3> QED
      BY <1>2, <2>2, <2>5, <3>2 DEF Board!Overstay
  <2> QED
    BY <2>4, <2>5
<1>19. PeaksInOrder'
  <2> SUFFICES ASSUME NEW a \in 1..m, NEW c \in 1..m, a <= c
               PROVE  peaks'[c].start >= peaks'[a].start - Board!Overstay
    BY <1>3 DEF PeaksInOrder
  <2>1. PICK i \in 1..Len(bs) : i = a + k - 1 /\ peaks'[a] = bs[i]
    BY <1>10
  <2>2. PICK j \in 1..Len(bs) : j = c + k - 1 /\ peaks'[c] = bs[j]
    BY <1>10
  <2>3. i <= j
    BY <2>1, <2>2
  <2>4. CASE j \in 1..Len(peaks)
    <3>1. i \in 1..Len(peaks)
      BY <2>3, <2>4
    <3>2. peaks[j].start >= peaks[i].start - Board!Overstay
      BY <2>3, <2>4, <3>1 DEF PeakInv, PeaksInOrder
    <3> QED
      BY <1>4, <2>1, <2>2, <2>4, <3>1, <3>2 DEF Raised
  <2>5. CASE j = Len(bs)
    <3>1. bs[j].start = B
      BY <1>4, <2>5 DEF Raised, B
    <3>2. bs[i].start <= B + Board!Overstay
      <4>1. CASE i \in 1..Len(peaks)
        BY <1>4, <1>18, <4>1 DEF Raised
      <4>2. CASE i = Len(bs)
        BY <1>2, <2>5, <3>1, <4>2
      <4> QED
        BY <1>4, <4>1, <4>2 DEF Raised
    <3>3. bs[i].start \in Int
      BY <1>8
    <3>4. bs[j].start >= bs[i].start - Board!Overstay
      BY <1>2, <3>1, <3>2, <3>3
    <3> QED
      BY <2>1, <2>2, <3>4
  <2> QED
    BY <1>4, <2>4, <2>5 DEF Raised
<1>20. PeaksPast'
  <2> SUFFICES ASSUME NEW a \in 1..m
               PROVE  \E w \in Int : /\ peaks'[a].start = Board!PeakBucket(w)
                                     /\ w <= now + shift + (IF stepped = "back" THEN MaxStep ELSE 0)
    BY <1>1 DEF PeaksPast, Board!PeakBucket
  <2>1. PICK i \in 1..Len(bs) : i = a + k - 1 /\ peaks'[a] = bs[i]
    BY <1>10
  <2>2. CASE i \in 1..Len(peaks)
    BY <1>4, <2>1, <2>2 DEF Raised, PeakInv, PeaksPast
  <2>3. CASE i = Len(bs)
    <3>1. bs[i].start = Board!PeakBucket(now + shift)
      BY <1>2, <1>4, <2>3 DEF Raised, B
    <3>2. now + shift \in Int /\ MaxStep \in Nat
      BY BoardAssumption DEF Board!LandingAssumption, PeakInv, BoardTypes
    <3>3. now + shift <= now + shift + (IF stepped = "back" THEN MaxStep ELSE 0)
      BY <3>2
    <3> QED
      BY <2>1, <3>1, <3>2, <3>3
  <2> QED
    BY <1>4, <2>2, <2>3 DEF Raised
<1>21. PeakOfPeaks'
  <2>1. 1 \in 1..m /\ peaks'[1] = bs[k] /\ peak'.at = now + shift
    <3>1. 1 \in 1..m /\ 1 + k - 1 = k
      BY <1>9
    <3> QED
      BY <1>10, <1>14, <3>1
  <2>2. peaks'[1].start >= Board!PeakBucket(now + shift) - Board!Window
    BY <1>2, <1>6, <2>1 DEF RecentFrom
  <2>3. peaks'[1].start >= (Board!PeakBucket(peak.at) - Board!Window)'
    BY <1>14, <2>1, <2>2 DEF Board!PeakBucket, Board!Window
  <2> QED
    BY <1>9, <1>14, <2>3 DEF PeakOfPeaks
<1> QED
  BY <1>15, <1>16, <1>17, <1>19, <1>20, <1>21 DEF PeakInv

\* The clock's steps and everything that leaves the peaks alone keep it too.
LEMMA ClockKeepsPeak ==
    ASSUME PeakInv, UNCHANGED <<peaks, peak, depths>>,
           \/ UNCHANGED <<now, shift, stepped>>
           \/ Board!Tick
           \/ Board!StepClock
    PROVE  PeakInv'
<1> DEFINE back == IF stepped = "back" THEN MaxStep ELSE 0
<1>1. MaxStep \in Nat /\ PeakWidth \in Nat \ {0} /\ now \in Int /\ shift \in Int
  BY BoardAssumption DEF Board!LandingAssumption, PeakInv, BoardTypes
<1>2. /\ now' \in Int /\ shift' \in Int /\ stepped' \in {"no", "back", "forth"}
      /\ now + shift + back <= (now + shift + back)'
      /\ stepped = "back" => stepped' = "back"
  <2>1. CASE UNCHANGED <<now, shift, stepped>>
    BY <1>1, <2>1 DEF PeakInv, BoardTypes
  <2>2. CASE Board!Tick
    BY <1>1, <2>2 DEF Board!Tick, PeakInv, BoardTypes
  <2>3. CASE Board!StepClock
    <3>1. PICK d \in 1..MaxStep : \/ shift' = shift - d /\ stepped' = "back"
                                  \/ shift' = shift + d /\ stepped' = "forth"
      BY <2>3 DEF Board!StepClock
    <3> QED
      BY <1>1, <2>3, <3>1 DEF Board!StepClock
  <2> QED
    BY <2>1, <2>2, <2>3
<1>3. /\ Board!Overstay \in Nat /\ Board!Overstay' \in Nat
      /\ Board!Overstay <= Board!Overstay'
  BY <1>1, <1>2 DEF Board!Overstay
<1>4. BoardTypes'
  BY <1>2 DEF PeakInv, BoardTypes
<1>5. PeaksNoted' /\ DepthsKept' /\ PeakOfPeaks'
  BY DEF PeakInv, PeaksNoted, DepthsKept, PeakOfPeaks, Board!PeakBucket, Board!Window
<1>6. PeaksInOrder'
  <2> SUFFICES ASSUME NEW i \in 1..Len(peaks), NEW j \in 1..Len(peaks), i <= j
               PROVE  peaks[j].start >= peaks[i].start - Board!Overstay'
    BY DEF PeaksInOrder
  <2>1. peaks[j].start >= peaks[i].start - Board!Overstay
    BY DEF PeakInv, PeaksInOrder
  <2>2. peaks[i] \in PeakEntries /\ peaks[j] \in PeakEntries
    BY ElementOfSeq DEF PeakInv, BoardTypes
  <2>3. peaks[i].start \in Int /\ peaks[j].start \in Int
    BY <2>2 DEF PeakEntries
  <2> QED
    BY <1>3, <2>1, <2>3
<1>7. PeaksPast'
  <2> SUFFICES ASSUME NEW i \in 1..Len(peaks)
               PROVE  \E w \in Int : /\ peaks[i].start = Board!PeakBucket(w)
                                     /\ w <= (now + shift + back)'
    BY DEF PeaksPast, Board!PeakBucket
  <2>1. PICK w \in Int : /\ peaks[i].start = Board!PeakBucket(w)
                         /\ w <= now + shift + back
    BY DEF PeakInv, PeaksPast
  <2>2. w <= (now + shift + back)'
    <3>1. now + shift + back \in Int /\ (now + shift + back)' \in Int
      BY <1>1, <1>2
    <3> HIDE DEF back
    <3> QED
      BY <1>2, <2>1, <3>1
  <2> QED
    BY <2>1, <2>2
<1> QED
  BY <1>4, <1>5, <1>6, <1>7 DEF PeakInv

\* The invariant of the landing page's peak.
THEOREM PeakInvariant == Board!Spec => []PeakInv
<1>1. Board!Init => PeakInv
  <2> SUFFICES ASSUME Board!Init
               PROVE  PeakInv
    OBVIOUS
  <2>1. BoardTypes
    BY BoardAssumption, EmptySeq DEF Board!Init, Board!LandingAssumption, BoardTypes
  <2>2. PeaksNoted /\ DepthsKept /\ PeaksInOrder /\ PeaksPast /\ PeakOfPeaks
    BY DEF Board!Init, PeaksNoted, DepthsKept, PeaksInOrder, PeaksPast, PeakOfPeaks
  <2> QED
    BY <2>1, <2>2 DEF PeakInv
<1>2. PeakInv /\ [Board!Next]_Board!vars => PeakInv'
  <2> SUFFICES ASSUME PeakInv, [Board!Next]_Board!vars
               PROVE  PeakInv'
    OBVIOUS
  <2>1. ASSUME NEW t \in Txs, Board!NoteArrival(t)
        PROVE  PeakInv'
    BY <2>1, ClockKeepsPeak DEF Board!NoteArrival, Board!clock
  <2>2. ASSUME NEW depth \in Depths, Board!Update(depth)
        PROVE  PeakInv'
    BY <2>2, UpdateKeepsPeak
  <2>3. CASE Board!UpdateAgain
    BY <2>3, ClockKeepsPeak DEF Board!UpdateAgain, Board!clock, Board!history
  <2>4. CASE Board!Tick
    BY <2>4, ClockKeepsPeak DEF Board!Tick, Board!history
  <2>5. CASE Board!StepClock
    BY <2>5, ClockKeepsPeak DEF Board!StepClock, Board!history
  <2>6. CASE UNCHANGED Board!vars
    BY <2>6, ClockKeepsPeak DEF Board!vars, Board!clock, Board!history
  <2> QED
    BY <2>1, <2>2, <2>3, <2>4, <2>5, <2>6 DEF Board!Next
<1> QED
  BY <1>1, <1>2, PTL DEF Board!Spec

\* The capacity track is the deepest mempool an update saw in the window: no
\* depth is lost before an update a window later, however the wall clock is
\* set, and none outlives the window by more than a step back.
THEOREM PeakSafe == Board!Spec => []PeakIsRecent
  BY PeakInvariant, PeakInvImplies, PTL

-----------------------------------------------------------------------------
(* The landing page: the feed of arrivals *)

\* Induction up to n, for a property given as the set of its instances.
LEMMA UpTo ==
    ASSUME NEW n \in Nat, NEW T, 0 \in T,
           \A i \in 0..n - 1 : i \in T => i + 1 \in T
    PROVE  \A i \in 0..n : i \in T
<1> DEFINE bad == {i \in 0..n : i \notin T}
<1>1. CASE bad # {}
  <2>1. bad \in SUBSET Nat
    OBVIOUS
  <2>2. PICK k \in bad : \A j \in bad : k <= j
    <3> HIDE DEF bad
    <3> QED
      BY <1>1, <2>1, LeastNumber
  <2>3. k \in 0..n /\ k # 0 /\ k \notin T
    BY <2>2
  <2>4. k - 1 \in 0..n - 1 /\ k - 1 \in 0..n /\ ~(k <= k - 1) /\ (k - 1) + 1 = k
    BY <2>3
  <2>5. k - 1 \in T
    BY <2>2, <2>4
  <2> QED
    BY <2>3, <2>4, <2>5
<1> QED
  BY <1>1

\* A function that is computed from its value before it exists.
LEMMA LoopExists ==
    ASSUME NEW A, NEW a0 \in A, NEW n \in Nat, NEW G \in [1..n -> [A -> A]]
    PROVE  \E f \in [0..n -> A] : f[0] = a0 /\ \A i \in 1..n : f[i] = G[i][f[i - 1]]
<1> DEFINE Goes(f, k) == /\ f \in [0..k -> A]
                         /\ f[0] = a0 /\ \A i \in 1..k : f[i] = G[i][f[i - 1]]
           T == {k \in 0..n : \E f : Goes(f, k)}
<1>1. 0 \in T
  <2>1. Goes([i \in 0..0 |-> a0], 0)
    OBVIOUS
  <2> HIDE DEF Goes
  <2> QED
    BY <2>1
<1>2. ASSUME NEW k \in 0..n - 1, k \in T
      PROVE  k + 1 \in T
  <2>1. PICK f : Goes(f, k)
    BY <1>2
  <2> DEFINE g == [i \in 0..k + 1 |-> IF i = k + 1 THEN G[k + 1][f[k]] ELSE f[i]]
  <2>2. k + 1 \in 1..n /\ k \in 0..k /\ f[k] \in A
    BY <2>1
  <2>3. G[k + 1][f[k]] \in A
    BY <2>2
  <2>4. g \in [0..k + 1 -> A]
    BY <2>1, <2>3
  <2>5. g[0] = a0
    BY <2>1
  <2>6. ASSUME NEW i \in 1..k + 1
        PROVE  g[i] = G[i][g[i - 1]]
    <3>1. i - 1 \in 0..k /\ g[i - 1] = f[i - 1]
      OBVIOUS
    <3>2. CASE i = k + 1
      BY <3>1, <3>2
    <3>3. CASE i # k + 1
      BY <2>1, <3>1, <3>3
    <3> QED
      BY <3>2, <3>3
  <2>7. Goes(g, k + 1)
    <3> HIDE DEF g
    <3> QED
      BY <2>4, <2>5, <2>6
  <2> HIDE DEF Goes, g
  <2> QED
    BY <2>2, <2>7
<1>3. n \in T
  <2> HIDE DEF T
  <2>1. \A i \in 0..n : i \in T
    BY <1>1, <1>2, UpTo
  <2> QED
    BY <2>1
<1> QED
  BY <1>3

FeedEntries == [txid : Txs, seen : Int]
no(t) == last[t].no
told == {t \in Txs : no(t) > 0}

FeedTypes ==
    /\ now \in Int /\ nNotes \in Nat
    /\ arrivals \in Seq(FeedEntries)
    /\ last \in [Txs -> [no : Nat, at : Int]]
    /\ IsFiniteSet(told)

\* Notifications are numbered in the order of their times.
NotesOrdered ==
    /\ \A t \in Txs : no(t) <= nNotes
    /\ \A t \in told : last[t].at <= now
    /\ \A t, u \in told : no(t) <= no(u) => last[t].at <= last[u].at
    /\ \A t, u \in told : no(t) = no(u) => t = u

\* The list's entries are last notifications, newest first and none too old.
ListOrdered ==
    /\ Len(arrivals) <= ArrivalsCap
    /\ \A i \in 1..Len(arrivals) :
          /\ arrivals[i].txid \in told
          /\ arrivals[i].seen = last[arrivals[i].txid].at
          /\ arrivals[1].seen - arrivals[i].seen <= ArrivalMaxAge
    /\ \A i, j \in 1..Len(arrivals) :
          i < j => no(arrivals[i].txid) > no(arrivals[j].txid)

\* What is not listed is too old, or older than a full list.
OthersOld ==
    \A t \in told :
        \/ \E i \in 1..Len(arrivals) : arrivals[i].txid = t
        \/ arrivals[1].seen - last[t].at > ArrivalMaxAge
        \/ /\ Len(arrivals) = ArrivalsCap
           /\ \A i \in 1..Len(arrivals) : no(arrivals[i].txid) > no(t)

NewestFirst ==
    \A t \in told : arrivals # <<>> /\ no(t) <= no(arrivals[1].txid)

FeedInv ==
    /\ FeedTypes
    /\ NotesOrdered
    /\ ListOrdered
    /\ OthersOld
    /\ NewestFirst

\* What NoteArrival's loop has put in the buffer after i entries.
Buffer(b, t, i) ==
    /\ b \in Seq(FeedEntries) /\ Len(b) \in 1..ArrivalsCap
    /\ b[1] = [txid |-> t, seen |-> now]
    /\ \A j \in 2..Len(b) : \E k \in 1..i : /\ b[j] = arrivals[k]
                                            /\ arrivals[k].txid # t
                                            /\ now - arrivals[k].seen <= ArrivalMaxAge
    /\ \A j, l \in 2..Len(b) : j < l => no(b[j].txid) > no(b[l].txid)
    /\ \A k \in 1..i :
          \/ arrivals[k].txid = t
          \/ now - arrivals[k].seen > ArrivalMaxAge
          \/ \E j \in 2..Len(b) : b[j] = arrivals[k]
          \/ /\ Len(b) = ArrivalsCap
             /\ \A j \in 2..Len(b) : no(b[j].txid) > no(arrivals[k].txid)
    /\ (\A k \in 1..i : now - arrivals[k].seen <= ArrivalMaxAge) =>
          \/ Len(b) = ArrivalsCap
          \/ Len(b) >= i + 1
          \/ Len(b) >= i /\ \E k \in 1..i : arrivals[k].txid = t

\* The loop starts with the notification alone ...
LEMMA BufferStarts ==
    ASSUME FeedInv, NEW t \in Txs
    PROVE  Buffer(<<[txid |-> t, seen |-> now]>>, t, 0)
<1> DEFINE e == [txid |-> t, seen |-> now]
           b == <<e>>
<1>1. e \in FeedEntries
  BY DEF FeedInv, FeedTypes, FeedEntries
<1>2. b \in Seq(FeedEntries) /\ Len(b) = 1 /\ b[1] = e
  BY <1>1
<1>3. 1 \in 1..ArrivalsCap
  BY BoardAssumption DEF Board!LandingAssumption
<1> HIDE DEF b
<1>4. 2..Len(b) = {}
  BY <1>2
<1> QED
  BY <1>2, <1>3, <1>4 DEF Buffer, b

\* ... leaves the buffer as it is ...
LEMMA BufferSkips ==
    ASSUME FeedInv, NEW t \in Txs, NEW b, NEW i \in 0..Len(arrivals) - 1,
           Buffer(b, t, i),
           \/ Len(b) = ArrivalsCap
           \/ now - arrivals[i + 1].seen > ArrivalMaxAge
           \/ arrivals[i + 1].txid = t
    PROVE  Buffer(b, t, i + 1)
<1> DEFINE e == arrivals[i + 1]
<1>1. Len(arrivals) \in Nat /\ i \in Nat /\ i + 1 \in 1..Len(arrivals) /\ 1..i \subseteq 1..i + 1
  BY DEF FeedInv, FeedTypes
<1>2. \A k \in 1..i + 1 : k \in 1..i \/ k = i + 1
  BY <1>1
<1>3. e \in FeedEntries /\ e.seen \in Int /\ e.txid \in Txs
  <2>1. e \in FeedEntries
    BY <1>1, ElementOfSeq DEF FeedInv, FeedTypes
  <2> QED
    BY <2>1 DEF FeedEntries
<1>4. now \in Int /\ ArrivalMaxAge \in Nat /\ ArrivalsCap \in Nat /\ Len(b) \in Nat
  BY BoardAssumption DEF Board!LandingAssumption, FeedInv, FeedTypes, Buffer
<1>5. \A j \in 2..Len(b) : \E k \in 1..i + 1 : /\ b[j] = arrivals[k]
                                               /\ arrivals[k].txid # t
                                               /\ now - arrivals[k].seen <= ArrivalMaxAge
  BY <1>1 DEF Buffer
<1>6. \/ e.txid = t
      \/ now - e.seen > ArrivalMaxAge
      \/ \E j \in 2..Len(b) : b[j] = e
      \/ /\ Len(b) = ArrivalsCap
         /\ \A j \in 2..Len(b) : no(b[j].txid) > no(e.txid)
  <2> SUFFICES ASSUME Len(b) = ArrivalsCap, NEW j \in 2..Len(b)
               PROVE  no(b[j].txid) > no(e.txid)
    OBVIOUS
  <2>1. PICK k \in 1..i : b[j] = arrivals[k]
    BY DEF Buffer
  <2> QED
    BY <1>1, <2>1 DEF FeedInv, ListOrdered
<1>7. \A k \in 1..i + 1 :
          \/ arrivals[k].txid = t
          \/ now - arrivals[k].seen > ArrivalMaxAge
          \/ \E j \in 2..Len(b) : b[j] = arrivals[k]
          \/ /\ Len(b) = ArrivalsCap
             /\ \A j \in 2..Len(b) : no(b[j].txid) > no(arrivals[k].txid)
  BY <1>2, <1>6 DEF Buffer
<1>8. ASSUME \A k \in 1..i + 1 : now - arrivals[k].seen <= ArrivalMaxAge
      PROVE  \/ Len(b) = ArrivalsCap
             \/ Len(b) >= i + 2
             \/ Len(b) >= i + 1 /\ \E k \in 1..i + 1 : arrivals[k].txid = t
  <2>1. now - e.seen <= ArrivalMaxAge
    BY <1>1, <1>8
  <2>2. CASE Len(b) = ArrivalsCap
    BY <2>2
  <2>3. CASE e.txid = t
    <3>1. ASSUME NEW k \in 1..i
          PROVE  arrivals[k].txid # t
      <4>1. no(arrivals[k].txid) > no(e.txid)
        BY <1>1 DEF FeedInv, ListOrdered
      <4>2. no(t) \in Nat
        BY DEF no, FeedInv, FeedTypes
      <4> QED
        BY <2>3, <4>1, <4>2
    <3>2. \/ Len(b) = ArrivalsCap
          \/ Len(b) >= i + 1
      BY <1>1, <1>8, <3>1 DEF Buffer
    <3> QED
      BY <1>1, <2>3, <3>2
  <2> QED
    BY <1>3, <1>4, <2>1, <2>2, <2>3
<1>9. i + 1 + 1 = i + 2
  BY <1>1
<1> QED
  BY <1>5, <1>7, <1>8, <1>9 DEF Buffer

\* ... or adds an entry to it.
LEMMA BufferAppends ==
    ASSUME FeedInv, NEW t \in Txs, NEW b, NEW i \in 0..Len(arrivals) - 1,
           Buffer(b, t, i), Len(b) # ArrivalsCap,
           now - arrivals[i + 1].seen <= ArrivalMaxAge,
           arrivals[i + 1].txid # t
    PROVE  Buffer(Append(b, arrivals[i + 1]), t, i + 1)
<1> DEFINE e == arrivals[i + 1]
           c == Append(b, e)
           n == Len(b)
<1>1. Len(arrivals) \in Nat /\ i \in Nat /\ i + 1 \in 1..Len(arrivals) /\ 1..i \subseteq 1..i + 1
  BY DEF FeedInv, FeedTypes
<1>2. \A k \in 1..i + 1 : k \in 1..i \/ k = i + 1
  BY <1>1
<1>3. e \in FeedEntries
  BY <1>1, ElementOfSeq DEF FeedInv, FeedTypes
<1>4. b \in Seq(FeedEntries) /\ n \in 1..ArrivalsCap /\ ArrivalsCap \in Nat /\ n \in Nat
  BY BoardAssumption DEF Board!LandingAssumption, Buffer
<1>5. c \in Seq(FeedEntries) /\ Len(c) = n + 1 /\ c[n + 1] = e /\ \A j \in 1..n : c[j] = b[j]
  BY <1>3, <1>4, AppendProperties
<1> HIDE DEF c
<1>6. n + 1 \in 1..ArrivalsCap /\ c[1] = b[1]
  BY <1>4, <1>5
<1>7. /\ 2..n \subseteq 2..n + 1 /\ n + 1 \in 2..n + 1
      /\ \A j \in 2..n + 1 : j = n + 1 \/ (j \in 2..n /\ c[j] = b[j])
      /\ \A j \in 2..n : c[j] = b[j]
  BY <1>4, <1>5
<1>8. \A j \in 2..n + 1 : \E k \in 1..i + 1 : /\ c[j] = arrivals[k]
                                              /\ arrivals[k].txid # t
                                              /\ now - arrivals[k].seen <= ArrivalMaxAge
  <2> SUFFICES ASSUME NEW j \in 2..n + 1
               PROVE  \E k \in 1..i + 1 : /\ c[j] = arrivals[k]
                                          /\ arrivals[k].txid # t
                                          /\ now - arrivals[k].seen <= ArrivalMaxAge
    OBVIOUS
  <2>1. CASE j = n + 1
    <3>1. c[j] = arrivals[i + 1] /\ i + 1 \in 1..i + 1
      BY <1>1, <1>5, <2>1
    <3> QED
      BY <3>1
  <2>2. CASE j \in 2..n /\ c[j] = b[j]
    BY <1>1, <2>2 DEF Buffer
  <2> QED
    BY <1>7, <2>1, <2>2
<1>9. ASSUME NEW j \in 2..n
      PROVE  no(b[j].txid) > no(e.txid)
  <2>1. PICK k \in 1..i : b[j] = arrivals[k]
    BY DEF Buffer
  <2> QED
    BY <1>1, <2>1 DEF FeedInv, ListOrdered
<1>10. \A j, l \in 2..n + 1 : j < l => no(c[j].txid) > no(c[l].txid)
  <2> SUFFICES ASSUME NEW j \in 2..n + 1, NEW l \in 2..n + 1, j < l
               PROVE  no(c[j].txid) > no(c[l].txid)
    OBVIOUS
  <2>1. j \in 2..n /\ c[j] = b[j]
    BY <1>4, <1>7
  <2>2. CASE l = n + 1
    BY <1>5, <1>9, <2>1, <2>2
  <2>3. CASE l \in 2..n /\ c[l] = b[l]
    BY <2>1, <2>3 DEF Buffer
  <2> QED
    BY <1>7, <2>2, <2>3
<1>11. ASSUME NEW k \in 1..i + 1
       PROVE  \/ arrivals[k].txid = t
              \/ now - arrivals[k].seen > ArrivalMaxAge
              \/ \E j \in 2..n + 1 : c[j] = arrivals[k]
  <2>1. CASE k = i + 1
    BY <1>5, <1>7, <2>1
  <2>2. CASE k \in 1..i
    <3>1. \/ arrivals[k].txid = t
          \/ now - arrivals[k].seen > ArrivalMaxAge
          \/ \E j \in 2..n : b[j] = arrivals[k]
      BY <2>2 DEF Buffer
    <3> QED
      BY <1>7, <3>1
  <2> QED
    BY <1>2, <2>1, <2>2
<1>12. ASSUME \A k \in 1..i + 1 : now - arrivals[k].seen <= ArrivalMaxAge
       PROVE  \/ n + 1 >= (i + 1) + 1
              \/ n + 1 >= i + 1 /\ \E k \in 1..i + 1 : arrivals[k].txid = t
  <2>1. \/ n >= i + 1
        \/ n >= i /\ \E k \in 1..i : arrivals[k].txid = t
    BY <1>1, <1>12 DEF Buffer
  <2> QED
    BY <1>1, <1>4, <2>1
<1>13. c[1] = [txid |-> t, seen |-> now]
  BY <1>6 DEF Buffer
<1>14. Buffer(c, t, i + 1)
  BY <1>5, <1>6, <1>8, <1>10, <1>11, <1>12, <1>13 DEF Buffer
<1> QED
  BY <1>14 DEF c

\* The loop is defined, ...
LEMMA NotedLoop ==
    ASSUME FeedInv, NEW t \in Txs
    PROVE  \E g : /\ Board!Noted(t) = g[Len(arrivals)]
                  /\ g[0] = <<[txid |-> t, seen |-> now]>>
                  /\ \A i \in 1..Len(arrivals) :
                        g[i] = IF \/ Len(g[i - 1]) = ArrivalsCap
                                  \/ now - arrivals[i].seen > ArrivalMaxAge
                                  \/ arrivals[i].txid = t
                               THEN g[i - 1]
                               ELSE Append(g[i - 1], arrivals[i])
<1> DEFINE n == Len(arrivals)
           A == Seq(FeedEntries)
           a0 == <<[txid |-> t, seen |-> now]>>
           skip(i, b) == \/ Len(b) = ArrivalsCap
                         \/ now - arrivals[i].seen > ArrivalMaxAge
                         \/ arrivals[i].txid = t
           G == [i \in 1..n |-> [b \in A |-> IF skip(i, b) THEN b ELSE Append(b, arrivals[i])]]
           Loop(g) == g = [i \in 0..n |-> IF i = 0 THEN a0
                                          ELSE IF skip(i, g[i - 1]) THEN g[i - 1]
                                          ELSE Append(g[i - 1], arrivals[i])]
<1>1. n \in Nat /\ \A i \in 1..n : arrivals[i] \in FeedEntries
  BY ElementOfSeq DEF FeedInv, FeedTypes
<1>2. a0 \in A
  <2>1. [txid |-> t, seen |-> now] \in FeedEntries
    BY DEF FeedInv, FeedTypes, FeedEntries
  <2> QED
    BY <2>1
<1>3. G \in [1..n -> [A -> A]]
  <2> SUFFICES ASSUME NEW i \in 1..n, NEW b \in A
               PROVE  (IF skip(i, b) THEN b ELSE Append(b, arrivals[i])) \in A
    OBVIOUS
  <2>1. Append(b, arrivals[i]) \in A
    BY <1>1, AppendProperties
  <2> QED
    BY <2>1
<1>4. PICK f \in [0..n -> A] : f[0] = a0 /\ \A i \in 1..n : f[i] = G[i][f[i - 1]]
  <2> HIDE DEF A, a0, G, n
  <2> QED
    BY <1>1, <1>2, <1>3, LoopExists
<1>5. \A i \in 1..n : f[i] = IF skip(i, f[i - 1]) THEN f[i - 1]
                             ELSE Append(f[i - 1], arrivals[i])
  <2> SUFFICES ASSUME NEW i \in 1..n
               PROVE  f[i] = IF skip(i, f[i - 1]) THEN f[i - 1]
                             ELSE Append(f[i - 1], arrivals[i])
    OBVIOUS
  <2>1. i - 1 \in 0..n
    BY <1>1
  <2>2. f[i - 1] \in A
    BY <2>1
  <2> HIDE DEF A, skip
  <2> QED
    BY <1>4, <2>2
<1>6. Loop(f)
  <2> HIDE DEF A, a0, skip
  <2>1. \A i \in 0..n : i = 0 \/ i \in 1..n
    BY <1>1
  <2>2. \A i \in 0..n : f[i] = IF i = 0 THEN a0
                               ELSE IF skip(i, f[i - 1]) THEN f[i - 1]
                               ELSE Append(f[i - 1], arrivals[i])
    BY <1>4, <1>5, <2>1
  <2> QED
    BY <2>2
<1> DEFINE buf == CHOOSE g : Loop(g)
<1>7. Loop(buf)
  <2> HIDE DEF Loop
  <2> QED
    BY <1>6
<1>8. Board!Noted(t) = buf[n]
  BY DEF Board!Noted
<1> HIDE DEF buf
<1>9. buf[0] = a0
  BY <1>1, <1>7
<1>10. \A i \in 1..n : buf[i] = IF skip(i, buf[i - 1]) THEN buf[i - 1]
                                ELSE Append(buf[i - 1], arrivals[i])
  <2> HIDE DEF a0, skip, n
  <2>1. \A i \in 0..n : buf[i] = IF i = 0 THEN a0
                                 ELSE IF skip(i, buf[i - 1]) THEN buf[i - 1]
                                 ELSE Append(buf[i - 1], arrivals[i])
    BY <1>7
  <2>2. \A i \in 1..n : i \in 0..n /\ i # 0
    BY <1>1
  <2> QED
    BY <2>1, <2>2
<1> QED
  BY <1>8, <1>9, <1>10

\* ... and what it leaves is the buffer of all entries.
LEMMA NotedIs ==
    ASSUME FeedInv, NEW t \in Txs
    PROVE  Buffer(Board!Noted(t), t, Len(arrivals))
<1> DEFINE n == Len(arrivals)
<1>1. PICK g : /\ Board!Noted(t) = g[n]
               /\ g[0] = <<[txid |-> t, seen |-> now]>>
               /\ \A i \in 1..n :
                     g[i] = IF \/ Len(g[i - 1]) = ArrivalsCap
                               \/ now - arrivals[i].seen > ArrivalMaxAge
                               \/ arrivals[i].txid = t
                            THEN g[i - 1]
                            ELSE Append(g[i - 1], arrivals[i])
  BY NotedLoop
<1>2. n \in Nat
  BY DEF FeedInv, FeedTypes
<1> DEFINE T == {i \in 0..n : Buffer(g[i], t, i)}
<1>3. 0 \in T
  <2>1. Buffer(g[0], t, 0)
    BY <1>1, BufferStarts
  <2> HIDE DEF n
  <2> QED
    BY <1>2, <2>1
<1>4. ASSUME NEW i \in 0..n - 1, i \in T
      PROVE  i + 1 \in T
  <2>1. i + 1 \in 1..n /\ (i + 1) - 1 = i /\ i + 1 \in 0..n
    BY <1>2
  <2>2. Buffer(g[i], t, i)
    BY <1>4
  <2>3. g[i + 1] = IF \/ Len(g[i]) = ArrivalsCap
                      \/ now - arrivals[i + 1].seen > ArrivalMaxAge
                      \/ arrivals[i + 1].txid = t
                   THEN g[i]
                   ELSE Append(g[i], arrivals[i + 1])
    BY <1>1, <2>1
  <2>4. CASE \/ Len(g[i]) = ArrivalsCap
             \/ now - arrivals[i + 1].seen > ArrivalMaxAge
             \/ arrivals[i + 1].txid = t
    <3>1. Buffer(g[i], t, i + 1)
      BY <2>2, <2>4, BufferSkips
    <3> QED
      BY <2>1, <2>3, <2>4, <3>1
  <2>5. CASE ~(\/ Len(g[i]) = ArrivalsCap
               \/ now - arrivals[i + 1].seen > ArrivalMaxAge
               \/ arrivals[i + 1].txid = t)
    <3>1. now \in Int /\ ArrivalMaxAge \in Nat /\ arrivals[i + 1] \in FeedEntries
      BY <2>1, BoardAssumption, ElementOfSeq
         DEF Board!LandingAssumption, FeedInv, FeedTypes
    <3>2. now - arrivals[i + 1].seen <= ArrivalMaxAge
      BY <2>5, <3>1 DEF FeedEntries
    <3>3. Buffer(Append(g[i], arrivals[i + 1]), t, i + 1)
      BY <2>2, <2>5, <3>2, BufferAppends
    <3> QED
      BY <2>1, <2>3, <2>5, <3>3
  <2> QED
    BY <2>4, <2>5
<1>5. n \in T
  <2> HIDE DEF T
  <2>1. \A i \in 0..n : i \in T
    BY <1>2, <1>3, <1>4, UpTo
  <2> QED
    BY <1>2, <2>1
<1> QED
  BY <1>1, <1>5

\* A notification keeps the invariant of the feed.
LEMMA NotificationKeepsFeed ==
    ASSUME FeedInv, NEW t \in Txs, Board!NoteArrival(t)
    PROVE  FeedInv'
<1> DEFINE b == arrivals'
           m == Len(b)
           n == Len(arrivals)
<1>1. /\ arrivals' = Board!Noted(t)
      /\ nNotes' = nNotes + 1
      /\ last' = [last EXCEPT ![t] = [no |-> nNotes + 1, at |-> now]]
      /\ now' = now
  BY DEF Board!NoteArrival, Board!clock
<1>2. Buffer(b, t, n)
  BY <1>1, NotedIs
<1>3. /\ now \in Int /\ nNotes \in Nat /\ n \in Nat
      /\ last \in [Txs -> [no : Nat, at : Int]]
      /\ ArrivalsCap \in Nat /\ ArrivalMaxAge \in Nat
      /\ b \in Seq(FeedEntries) /\ m \in 1..ArrivalsCap /\ m \in Nat
      /\ b[1] = [txid |-> t, seen |-> now]
  BY <1>2, BoardAssumption DEF Board!LandingAssumption, FeedInv, FeedTypes, Buffer
<1>4. \A u \in Txs : no(u) \in Nat /\ last[u].at \in Int
  BY <1>3 DEF no
<1>5. /\ last'[t].no = nNotes + 1 /\ last'[t].at = now
      /\ \A u \in Txs : u # t => last'[u] = last[u]
  BY <1>1, <1>3
<1>6. /\ no(t)' = nNotes + 1
      /\ \A u \in Txs : u # t => no(u)' = no(u)
  BY <1>5 DEF no
<1>7. told' = told \cup {t}
  BY <1>3, <1>4, <1>6 DEF told
<1>8. \A u \in told : no(u) <= nNotes /\ last[u].at <= now /\ u \in Txs
  BY <1>4 DEF FeedInv, NotesOrdered, told
<1>9. /\ \A i \in 1..n : /\ arrivals[i].txid \in told
                         /\ arrivals[i].seen = last[arrivals[i].txid].at
                         /\ arrivals[i].seen \in Int /\ arrivals[i].seen <= now
  BY <1>4, <1>8 DEF FeedInv, ListOrdered
<1>10. \A j \in 1..m : j = 1 \/ j \in 2..m
  BY <1>3
<1> HIDE DEF b
<1>11. ASSUME NEW j \in 2..m
       PROVE  \E k \in 1..n : b[j] = arrivals[k] /\ b[j].txid \in told /\ b[j].txid # t
  BY <1>2, <1>9 DEF Buffer
<1>12. FeedTypes'
  <2>1. last' \in [Txs -> [no : Nat, at : Int]]
    BY <1>1, <1>3
  <2>2. IsFiniteSet(told')
    BY <1>7, FS_AddElement DEF FeedInv, FeedTypes
  <2> QED
    BY <1>1, <1>3, <2>1, <2>2 DEF FeedTypes, b
<1>13. NotesOrdered'
  <2>1. \A u \in Txs : no(u)' <= nNotes'
    <3> SUFFICES ASSUME NEW u \in Txs
                 PROVE  no(u)' <= nNotes'
      OBVIOUS
    <3>1. no(u) \in Nat /\ no(u) <= nNotes
      BY <1>4 DEF FeedInv, NotesOrdered
    <3>2. CASE u = t
      BY <1>1, <1>3, <1>6, <3>2
    <3>3. CASE u # t
      <4>1. no(u)' = no(u)
        BY <1>6, <3>3
      <4> QED
        BY <1>1, <1>3, <3>1, <4>1
    <3> QED
      BY <3>2, <3>3
  <2>2. \A u \in told' : last'[u].at <= now'
    BY <1>1, <1>3, <1>5, <1>7, <1>8
  <2>3. ASSUME NEW u \in told', NEW v \in told'
        PROVE  /\ no(u)' <= no(v)' => last'[u].at <= last'[v].at
               /\ no(u)' = no(v)' => u = v
    <3>1. CASE u = t /\ v = t
      BY <1>3, <1>5, <3>1
    <3>2. CASE u = t /\ v # t
      <4>1. v \in told /\ no(v)' = no(v) /\ no(v) <= nNotes /\ no(v) \in Nat
        BY <1>4, <1>6, <1>7, <1>8, <3>2
      <4> QED
        BY <1>3, <1>6, <3>2, <4>1
    <3>3. CASE u # t /\ v = t
      <4>1. /\ u \in told /\ no(u)' = no(u) /\ no(u) <= nNotes /\ no(u) \in Nat
            /\ last'[u] = last[u] /\ last[u].at <= now
        BY <1>4, <1>5, <1>6, <1>7, <1>8, <3>3
      <4> QED
        BY <1>3, <1>5, <1>6, <3>3, <4>1
    <3>4. CASE u # t /\ v # t
      <4>1. u \in told /\ v \in told /\ u \in Txs /\ v \in Txs
        BY <1>7, <1>8, <3>4
      <4>2. no(u)' = no(u) /\ no(v)' = no(v) /\ last'[u] = last[u] /\ last'[v] = last[v]
        BY <1>5, <1>6, <3>4, <4>1
      <4> QED
        BY <4>1, <4>2 DEF FeedInv, NotesOrdered
    <3> QED
      BY <3>1, <3>2, <3>3, <3>4
  <2> QED
    BY <2>1, <2>2, <2>3 DEF NotesOrdered
<1>14. ListOrdered'
  <2>1. ASSUME NEW i \in 1..m
        PROVE  /\ b[i].txid \in told'
               /\ b[i].seen = last'[b[i].txid].at
               /\ b[1].seen - b[i].seen <= ArrivalMaxAge
    <3>1. CASE i = 1
      BY <1>3, <1>5, <1>7, <3>1
    <3>2. CASE i \in 2..m
      <4>1. PICK k \in 1..n : /\ b[i] = arrivals[k] /\ arrivals[k].txid # t
                              /\ now - arrivals[k].seen <= ArrivalMaxAge
        BY <1>2, <3>2 DEF Buffer
      <4> QED
        BY <1>3, <1>5, <1>7, <1>8, <1>9, <4>1
    <3> QED
      BY <1>10, <3>1, <3>2
  <2>2. ASSUME NEW i \in 1..m, NEW j \in 1..m, i < j
        PROVE  last'[b[i].txid].no > last'[b[j].txid].no
    <3>1. j \in 2..m
      BY <1>3, <2>2
    <3>2. /\ last'[b[j].txid].no = no(b[j].txid)
          /\ no(b[j].txid) <= nNotes /\ no(b[j].txid) \in Nat
      BY <1>4, <1>5, <1>8, <1>11, <3>1 DEF no
    <3>3. CASE i = 1
      BY <1>3, <1>5, <3>2, <3>3
    <3>4. CASE i \in 2..m
      <4>1. last'[b[i].txid].no = no(b[i].txid)
        BY <1>5, <1>8, <1>11, <3>4 DEF no
      <4>2. no(b[i].txid) > no(b[j].txid)
        BY <1>2, <2>2, <3>1, <3>4 DEF Buffer
      <4> QED
        BY <3>2, <4>1, <4>2
    <3> QED
      BY <1>10, <3>3, <3>4
  <2> QED
    BY <1>3, <2>1, <2>2 DEF ListOrdered, no, b
<1>15. OthersOld'
  <2> SUFFICES ASSUME NEW u \in told'
               PROVE  \/ \E i \in 1..m : b[i].txid = u
                      \/ b[1].seen - last'[u].at > ArrivalMaxAge
                      \/ /\ m = ArrivalsCap
                         /\ \A i \in 1..m : last'[b[i].txid].no > last'[u].no
    BY DEF OthersOld, no, b
  <2>1. CASE u = t
    BY <1>3, <2>1
  <2>2. CASE u # t
    <3>1. /\ u \in told /\ u \in Txs /\ last'[u] = last[u]
          /\ no(u) \in Nat /\ no(u) <= nNotes /\ last[u].at \in Int /\ b[1].seen = now
      BY <1>3, <1>4, <1>5, <1>7, <1>8, <2>2
    <3>2. ASSUME \A j \in 2..m : no(b[j].txid) > no(u)
          PROVE  \A i \in 1..m : last'[b[i].txid].no > last'[u].no
      <4> SUFFICES ASSUME NEW i \in 1..m
                   PROVE  last'[b[i].txid].no > last'[u].no
        OBVIOUS
      <4>1. CASE i = 1
        BY <1>3, <1>5, <3>1, <4>1 DEF no
      <4>2. CASE i \in 2..m
        <5>1. last'[b[i].txid] = last[b[i].txid]
          BY <1>5, <1>8, <1>11, <4>2
        <5> QED
          BY <3>1, <3>2, <4>2, <5>1 DEF no
      <4> QED
        BY <1>10, <4>1, <4>2
    <3>3. CASE \E k \in 1..n : arrivals[k].txid = u
      <4>1. PICK k \in 1..n : arrivals[k].txid = u
        BY <3>3
      <4>2. \/ now - arrivals[k].seen > ArrivalMaxAge
            \/ \E j \in 2..m : b[j] = arrivals[k]
            \/ m = ArrivalsCap /\ \A j \in 2..m : no(b[j].txid) > no(u)
        BY <1>2, <2>2, <4>1 DEF Buffer
      <4>3. now - arrivals[k].seen > ArrivalMaxAge => b[1].seen - last'[u].at > ArrivalMaxAge
        BY <1>9, <3>1, <4>1
      <4>4. (\E j \in 2..m : b[j] = arrivals[k]) => \E i \in 1..m : b[i].txid = u
        <5> SUFFICES ASSUME NEW j \in 2..m, b[j] = arrivals[k]
                     PROVE  \E i \in 1..m : b[i].txid = u
          OBVIOUS
        <5>1. j \in 1..m /\ b[j].txid = u
          BY <1>3, <4>1
        <5> QED
          BY <5>1
      <4> QED
        BY <3>2, <4>2, <4>3, <4>4
    <3>4. CASE arrivals[1].seen - last[u].at > ArrivalMaxAge
      <4>1. 1 \in 1..n
        BY <1>3, <3>1, EmptySeq DEF FeedInv, NewestFirst, FeedTypes
      <4>2. arrivals[1].seen \in Int /\ arrivals[1].seen <= now
        BY <1>9, <4>1
      <4> QED
        BY <1>3, <3>1, <3>4, <4>2
    <3>5. CASE n = ArrivalsCap /\ \A i \in 1..n : no(arrivals[i].txid) > no(u)
      <4>1. CASE \A k \in 1..n : now - arrivals[k].seen <= ArrivalMaxAge
        <5>1. \/ m = ArrivalsCap
              \/ m >= n + 1
              \/ m >= n
          BY <1>2, <4>1 DEF Buffer
        <5>2. m = ArrivalsCap
          BY <1>3, <3>5, <5>1
        <5>3. \A j \in 2..m : no(b[j].txid) > no(u)
          BY <1>11, <3>5
        <5> QED
          BY <3>2, <5>2, <5>3
      <4>2. CASE \E k \in 1..n : ~(now - arrivals[k].seen <= ArrivalMaxAge)
        <5>1. PICK k \in 1..n : ~(now - arrivals[k].seen <= ArrivalMaxAge)
          BY <4>2
        <5>2. /\ arrivals[k].txid \in told /\ arrivals[k].seen = last[arrivals[k].txid].at
              /\ arrivals[k].seen \in Int /\ no(arrivals[k].txid) > no(u)
              /\ no(arrivals[k].txid) \in Nat
          BY <1>4, <1>8, <1>9, <3>5
        <5>3. no(u) <= no(arrivals[k].txid)
          BY <3>1, <5>2
        <5>4. last[u].at <= arrivals[k].seen
          BY <3>1, <5>2, <5>3 DEF FeedInv, NotesOrdered
        <5>5. now - last[u].at > ArrivalMaxAge
          <6> DEFINE x == arrivals[k].seen
                     y == last[u].at
          <6>1. /\ x \in Int /\ y \in Int /\ now \in Int /\ ArrivalMaxAge \in Int
                /\ y <= x /\ ~(now - x <= ArrivalMaxAge)
            BY <1>3, <3>1, <5>1, <5>2, <5>4
          <6> HIDE DEF x, y
          <6>2. now - y > ArrivalMaxAge
            BY <6>1
          <6> QED
            BY <6>2 DEF y
        <5> QED
          BY <3>1, <5>5
      <4> QED
        BY <4>1, <4>2
    <3> QED
      BY <3>1, <3>3, <3>4, <3>5 DEF FeedInv, OthersOld
  <2> QED
    BY <2>1, <2>2
<1>16. NewestFirst'
  <2>1. b # <<>>
    BY <1>3
  <2>2. ASSUME NEW u \in told'
        PROVE  last'[u].no <= last'[b[1].txid].no
    <3>1. CASE u = t
      BY <1>3, <1>5, <3>1
    <3>2. CASE u # t
      BY <1>3, <1>4, <1>5, <1>7, <1>8, <3>2 DEF no
    <3> QED
      BY <3>1, <3>2
  <2> QED
    BY <2>1, <2>2 DEF NewestFirst, no, b
<1> QED
  BY <1>12, <1>13, <1>14, <1>15, <1>16 DEF FeedInv

\* What came after an entry of the list is exactly what is listed before it.
LEMMA Ahead ==
    ASSUME FeedInv, NEW i \in 1..Len(arrivals)
    PROVE  /\ IsFiniteSet({u \in Txs : no(u) > no(arrivals[i].txid)})
           /\ Cardinality({u \in Txs : no(u) > no(arrivals[i].txid)}) = i - 1
<1> DEFINE n == Len(arrivals)
           S == {u \in Txs : no(u) > no(arrivals[i].txid)}
           f == [j \in 1..i - 1 |-> arrivals[j].txid]
<1>1. /\ n \in Nat /\ ArrivalMaxAge \in Nat /\ i \in Nat /\ i - 1 \in Nat
      /\ \A u \in Txs : no(u) \in Nat /\ last[u].at \in Int
  BY BoardAssumption DEF Board!LandingAssumption, FeedInv, FeedTypes, no
<1>2. \A j \in 1..n : /\ arrivals[j].txid \in told /\ arrivals[j].txid \in Txs
                      /\ arrivals[j].seen = last[arrivals[j].txid].at
                      /\ arrivals[j].seen \in Int
                      /\ arrivals[1].seen - arrivals[j].seen <= ArrivalMaxAge
  BY <1>1 DEF FeedInv, ListOrdered, told
<1>3. ASSUME NEW u \in S
      PROVE  \E j \in 1..i - 1 : arrivals[j].txid = u
  <2>1. u \in told /\ u \in Txs /\ no(u) > no(arrivals[i].txid) /\ no(arrivals[i].txid) \in Nat
    BY <1>1, <1>2 DEF told
  <2>2. CASE \E j \in 1..n : arrivals[j].txid = u
    <3>1. PICK j \in 1..n : arrivals[j].txid = u
      BY <2>2
    <3>2. ~(j = i) /\ ~(i < j)
      BY <1>1, <2>1, <3>1 DEF FeedInv, ListOrdered
    <3> QED
      BY <1>1, <3>1, <3>2
  <2>3. CASE arrivals[1].seen - last[u].at > ArrivalMaxAge
    <3>1. no(arrivals[i].txid) <= no(u)
      BY <1>1, <2>1
    <3>2. arrivals[i].seen <= last[u].at
      BY <1>2, <2>1, <3>1 DEF FeedInv, NotesOrdered
    <3>3. 1 \in 1..n
      BY <1>1
    <3>4. arrivals[1].seen \in Int /\ arrivals[i].seen \in Int /\ last[u].at \in Int
      BY <1>1, <1>2, <2>1, <3>3
    <3> QED
      BY <1>1, <1>2, <2>3, <3>2, <3>4
  <2>4. CASE \A j \in 1..n : no(arrivals[j].txid) > no(u)
    BY <1>1, <2>1, <2>4
  <2> QED
    BY <2>1, <2>2, <2>3, <2>4 DEF FeedInv, OthersOld
<1>4. \A j \in 1..i - 1 : j \in 1..n /\ f[j] = arrivals[j].txid
  BY <1>1
<1>5. \A j \in 1..i - 1 : f[j] \in S
  BY <1>1, <1>2, <1>4 DEF FeedInv, ListOrdered
<1>6. \A j, l \in 1..i - 1 : f[j] = f[l] => j = l
  <2> SUFFICES ASSUME NEW j \in 1..i - 1, NEW l \in 1..i - 1, f[j] = f[l], j < l
               PROVE  FALSE
    BY <1>1
  <2>1. no(arrivals[j].txid) > no(arrivals[l].txid) /\ arrivals[j].txid = arrivals[l].txid
    BY <1>4 DEF FeedInv, ListOrdered
  <2>2. no(arrivals[j].txid) \in Nat
    BY <1>1, <1>2, <1>4
  <2> QED
    BY <2>1, <2>2
<1>7. f \in Surjection(1..i - 1, S) /\ f \in Injection(1..i - 1, S)
  <2>1. \A u \in S : \E j \in 1..i - 1 : f[j] = u
    BY <1>3, <1>4
  <2>2. f \in [1..i - 1 -> S]
    <3> HIDE DEF S
    <3> QED
      BY <1>5
  <2> HIDE DEF f, S
  <2> QED
    BY <1>6, <2>1, <2>2 DEF Surjection, Injection, IsInjective
<1>8. IsFiniteSet(1..i - 1) /\ Cardinality(1..i - 1) = i - 1
  <2>1. 1 \in Int /\ i - 1 \in Int
    BY <1>1
  <2>2. Cardinality(1..i - 1) = IF 1 > i - 1 THEN 0 ELSE (i - 1) - 1 + 1
    BY <2>1, FS_Interval
  <2>3. (IF 1 > i - 1 THEN 0 ELSE (i - 1) - 1 + 1) = i - 1
    BY <1>1
  <2> QED
    BY <2>1, <2>2, <2>3, FS_Interval
<1> HIDE DEF f, S
<1>9. IsFiniteSet(S) /\ Cardinality(S) = Cardinality(1..i - 1)
  BY <1>7, <1>8, FS_Surjection
<1> QED
  BY <1>8, <1>9 DEF S

\* What the invariant is for: the feed is what it should be.
LEMMA FeedInvImplies == FeedInv => FeedIsNewest
<1> SUFFICES ASSUME FeedInv
             PROVE  Board!FeedIsNewest
  BY DEF FeedIsNewest
<1> DEFINE n == Len(arrivals)
           nos == {last[t].no : t \in Txs}
           most(x) == \A t \in Txs : last[t].no <= x
           newest == CHOOSE x \in nos : most(x)
           at == IF newest = 0 THEN 0
                 ELSE last[CHOOSE t \in Txs : last[t].no = newest].at
           newer(t) == {u \in Txs : last[u].no > last[t].no}
           fresh(t) == /\ last[t].no > 0
                       /\ at - last[t].at <= ArrivalMaxAge
                       /\ Board!Cardinality(newer(t)) < ArrivalsCap
           due == {t \in Txs : fresh(t)}
<1>1. /\ n \in Nat /\ ArrivalMaxAge \in Nat /\ ArrivalsCap \in Nat
      /\ arrivals \in Seq(FeedEntries)
      /\ \A u \in Txs : no(u) \in Nat /\ last[u].at \in Int
  BY BoardAssumption DEF Board!LandingAssumption, FeedInv, FeedTypes, no
<1>2. \A j \in 1..n : /\ arrivals[j].txid \in told /\ arrivals[j].txid \in Txs
                      /\ arrivals[j].seen = last[arrivals[j].txid].at
                      /\ arrivals[1].seen - arrivals[j].seen <= ArrivalMaxAge
  BY DEF FeedInv, ListOrdered, told
<1>3. \A i, j \in 1..n : i < j => last[arrivals[i].txid].no > last[arrivals[j].txid].no
  BY DEF FeedInv, ListOrdered, no
<1>4. ASSUME told # {}
      PROVE  1 \in 1..n /\ at = arrivals[1].seen
  <2>1. arrivals # <<>> /\ \A t \in told : no(t) <= no(arrivals[1].txid)
    BY <1>4 DEF FeedInv, NewestFirst
  <2>2. 1 \in 1..n
    BY <1>1, <2>1, EmptySeq
  <2> DEFINE first == arrivals[1].txid
  <2>3. first \in told /\ first \in Txs /\ last[first].no > 0 /\ last[first].no \in nos
    BY <1>2, <2>2 DEF told, no
  <2>4. most(last[first].no)
    <3> SUFFICES ASSUME NEW t \in Txs
                 PROVE  last[t].no <= last[first].no
      OBVIOUS
    <3>1. CASE t \in told
      BY <2>1, <3>1 DEF no
    <3>2. CASE t \notin told
      BY <1>1, <2>3, <3>2 DEF no, told
    <3> QED
      BY <3>1, <3>2
  <2>5. newest \in nos /\ most(newest)
    <3> HIDE DEF nos, most
    <3> QED
      BY <2>3, <2>4
  <2>6. newest = last[first].no
    <3>1. newest \in Nat /\ last[first].no \in Nat
      BY <1>1, <2>3, <2>5 DEF no
    <3>2. last[first].no <= newest /\ newest <= last[first].no
      <4>1. last[first].no <= newest
        BY <2>3, <2>5
      <4>2. newest <= last[first].no
        <5>1. PICK t \in Txs : newest = last[t].no
          BY <2>5
        <5> HIDE DEF newest
        <5> QED
          BY <2>4, <5>1
      <4> QED
        BY <4>1, <4>2
    <3> HIDE DEF newest, first
    <3> QED
      BY <3>1, <3>2
  <2> HIDE DEF newest
  <2>7. (CHOOSE t \in Txs : last[t].no = newest) = first
    <3> DEFINE c == CHOOSE t \in Txs : last[t].no = newest
    <3>1. c \in Txs /\ last[c].no = newest
      BY <2>3, <2>6
    <3> HIDE DEF c
    <3>2. c \in told
      BY <2>3, <2>6, <3>1 DEF told, no
    <3>3. c = first
      BY <2>3, <2>6, <3>1, <3>2 DEF FeedInv, NotesOrdered, no
    <3> QED
      BY <3>3 DEF c
  <2>8. newest # 0
    BY <1>1, <2>3, <2>6 DEF no
  <2> QED
    BY <1>2, <2>2, <2>7, <2>8
<1> HIDE DEF newest, at
<1>5. ASSUME NEW i \in 1..n
      PROVE  arrivals[i].txid \in due
  <2> DEFINE t == arrivals[i].txid
  <2>1. t \in told /\ t \in Txs /\ last[t].no > 0
    BY <1>2 DEF told, no
  <2>2. at - last[t].at <= ArrivalMaxAge
    BY <1>2, <1>4, <2>1
  <2>3. Cardinality(newer(t)) = i - 1
    BY Ahead DEF no
  <2>4. Board!Cardinality(newer(t)) < ArrivalsCap
    <3>1. i - 1 < ArrivalsCap
      BY <1>1 DEF FeedInv, ListOrdered
    <3> QED
      BY <2>3, <3>1, SameCardinality
  <2> HIDE DEF newer, t
  <2>5. t \in due
    BY <2>1, <2>2, <2>4
  <2> QED
    BY <2>5 DEF t
<1>6. ASSUME NEW t \in due
      PROVE  \E i \in 1..n : arrivals[i].txid = t
  <2>1. t \in Txs /\ t \in told /\ fresh(t)
    BY DEF told, no
  <2>2. 1 \in 1..n /\ at = arrivals[1].seen
    BY <1>4, <2>1
  <2>3. CASE arrivals[1].seen - last[t].at > ArrivalMaxAge
    <3>1. arrivals[1].seen \in Int /\ last[t].at \in Int
      BY <1>1, <1>2, <2>1, <2>2
    <3>2. arrivals[1].seen - last[t].at <= ArrivalMaxAge
      BY <2>1, <2>2
    <3> HIDE DEF due
    <3> QED
      BY <1>1, <2>3, <3>1, <3>2
  <2>4. CASE n = ArrivalsCap /\ \A i \in 1..n : no(arrivals[i].txid) > no(t)
    <3> DEFINE S == newer(arrivals[n].txid)
               l == arrivals[n].txid
    <3>1. n \in 1..n
      BY <2>2
    <3>2. IsFiniteSet(S) /\ Cardinality(S) = n - 1
      BY <3>1, Ahead DEF no
    <3>3. l \in Txs /\ l \notin S /\ no(l) \in Nat
      BY <1>1, <1>2, <3>1 DEF no
    <3>4. IsFiniteSet(S \cup {l}) /\ Cardinality(S \cup {l}) = n
      <4>1. /\ IsFiniteSet(S \cup {l})
            /\ Cardinality(S \cup {l}) = Cardinality(S) + 1
        <5> HIDE DEF S, l
        <5> QED
          BY <3>2, <3>3, FS_AddElement
      <4> QED
        BY <1>1, <3>2, <4>1
    <3>5. S \cup {l} \subseteq newer(t)
      <4>1. no(l) > no(t) /\ no(t) \in Nat
        BY <1>1, <2>1, <2>4, <3>1
      <4> QED
        BY <1>1, <3>3, <4>1 DEF no
    <3>6. IsFiniteSet(newer(t))
      <4>1. newer(t) \in SUBSET told
        BY <1>1, <2>1 DEF told, no
      <4> HIDE DEF newer
      <4> QED
        BY <4>1, FS_Subset DEF FeedInv, FeedTypes
    <3>7. n <= Cardinality(newer(t))
      <4> HIDE DEF newer, S, l
      <4> QED
        BY <3>4, <3>5, <3>6, FS_Subset
    <3>8. Cardinality(newer(t)) < ArrivalsCap /\ Cardinality(newer(t)) \in Nat
      BY <2>1, <3>6, SameCardinality, FS_CardinalityType
    <3> HIDE DEF due, newer
    <3> QED
      BY <1>1, <2>4, <3>7, <3>8
  <2> QED
    BY <2>1, <2>3, <2>4 DEF FeedInv, OthersOld
<1>7. {arrivals[i].txid : i \in 1..n} = due
  <2> HIDE DEF due
  <2> QED
    BY <1>5, <1>6
<1>8. DOMAIN arrivals = 1..n
  BY <1>1
<1> QED
  BY <1>3, <1>7, <1>8 DEF Board!FeedIsNewest, at, newest

\* The invariant of the landing page's feed.
THEOREM FeedInvariant == Board!Spec => []FeedInv
<1>1. Board!Init => FeedInv
  <2> SUFFICES ASSUME Board!Init
               PROVE  FeedInv
    OBVIOUS
  <2>1. told = {} /\ arrivals = <<>> /\ Len(arrivals) = 0
    BY DEF Board!Init, Board!Never, told, no
  <2>2. FeedTypes
    BY <2>1, FS_EmptySet DEF Board!Init, Board!Never, FeedTypes
  <2>3. NotesOrdered
    BY <2>1 DEF Board!Init, Board!Never, NotesOrdered, no
  <2>4. ListOrdered /\ OthersOld /\ NewestFirst
    BY <2>1, BoardAssumption
       DEF Board!LandingAssumption, ListOrdered, OthersOld, NewestFirst
  <2> QED
    BY <2>2, <2>3, <2>4 DEF FeedInv
<1>2. FeedInv /\ [Board!Next]_Board!vars => FeedInv'
  <2> SUFFICES ASSUME FeedInv, [Board!Next]_Board!vars
               PROVE  FeedInv'
    OBVIOUS
  <2>1. ASSUME NEW t \in Txs, Board!NoteArrival(t)
        PROVE  FeedInv'
    BY <2>1, NotificationKeepsFeed
  <2>2. ASSUME UNCHANGED <<arrivals, last, nNotes>>, now' \in Int, now <= now'
        PROVE  FeedInv'
    <3>1. FeedTypes' /\ ListOrdered' /\ OthersOld' /\ NewestFirst'
      BY <2>2 DEF FeedInv, FeedTypes, ListOrdered, OthersOld, NewestFirst, no, told
    <3>2. NotesOrdered'
      <4>1. \A t \in told : last[t].at \in Int
        BY DEF told, FeedInv, FeedTypes
      <4>2. \A t \in told : last[t].at <= now'
        BY <2>2, <4>1 DEF FeedInv, FeedTypes, NotesOrdered
      <4> QED
        BY <2>2, <4>2 DEF FeedInv, NotesOrdered, no, told
    <3> QED
      BY <3>1, <3>2 DEF FeedInv
  <2>3. now \in Int /\ now <= now /\ now <= now + 1 /\ now + 1 \in Int
    BY DEF FeedInv, FeedTypes
  <2>4. ASSUME NEW depth \in Depths, Board!Update(depth)
        PROVE  FeedInv'
    BY <2>2, <2>3, <2>4 DEF Board!Update, Board!clock
  <2>5. CASE Board!UpdateAgain
    BY <2>2, <2>3, <2>5 DEF Board!UpdateAgain, Board!clock, Board!history
  <2>6. CASE Board!Tick
    BY <2>2, <2>3, <2>6 DEF Board!Tick, Board!history
  <2>7. CASE Board!StepClock
    BY <2>2, <2>3, <2>7 DEF Board!StepClock, Board!history
  <2>8. CASE UNCHANGED Board!vars
    BY <2>2, <2>3, <2>8 DEF Board!vars, Board!clock, Board!history
  <2> QED
    BY <2>1, <2>4, <2>5, <2>6, <2>7, <2>8 DEF Board!Next
<1> QED
  BY <1>1, <1>2, PTL DEF Board!Spec

\* The feed holds the transactions notified last, each once and newest first,
\* except those that were too old when the last one came.
THEOREM FeedSafe == Board!Spec => []FeedIsNewest
  BY FeedInvariant, FeedInvImplies, PTL

-----------------------------------------------------------------------------
(* The landing page: the rate of arrivals *)

\* Remainders: N divides what two numbers with the same one are apart.
LEMMA Remainder ==
    ASSUME NEW N \in Nat, N > 0, NEW a \in Int
    PROVE  a % N \in 0..N - 1 /\ \E q \in Int : a = N * q + (a % N)
<1>1. a % N \in 0..N - 1
  OBVIOUS
<1>2. a \div N \in Int
  OBVIOUS
<1>3. PICK q \in Int : q = a \div N
  BY <1>2
<1>4. a = N * q + (a % N)
  BY <1>3, SMTT(30)
<1> QED
  BY <1>1, <1>4

\* Two numbers less than N apart differ in their remainders.
LEMMA RemaindersDiffer ==
    ASSUME NEW N \in Nat, N > 0, NEW a \in Int, NEW b \in Int, a < b, b < a + N
    PROVE  a % N # b % N
<1> SUFFICES ASSUME a % N = b % N
             PROVE  FALSE
  OBVIOUS
<1>1. PICK p \in Int : a = N * p + (a % N)
  BY Remainder
<1>2. PICK q \in Int : b = N * q + (b % N)
  BY Remainder
<1> DEFINE k == q - p
<1>3. k \in Int /\ N * k = N * q - N * p /\ N * p \in Int /\ N * q \in Int
      /\ a % N \in Int /\ b % N \in Int
  BY <1>1, <1>2, Remainder
<1> HIDE DEF k
<1>4. 0 < N * k /\ N * k < N
  BY <1>1, <1>2, <1>3
<1>5. CASE k <= 0
  <2>1. N * k <= 0
    BY <1>3, <1>5
  <2> QED
    BY <1>3, <1>4, <2>1
<1>6. CASE k >= 1
  <2>1. N * k >= N
    BY <1>3, <1>6
  <2> QED
    BY <1>3, <1>4, <2>1
<1> QED
  BY <1>3, <1>5, <1>6

\* The remainder of a number given by quotient and remainder.
LEMMA RemainderIs ==
    ASSUME NEW N \in Nat, N > 0, NEW q \in Int, NEW r \in 0..N - 1
    PROVE  (N * q + r) % N = r
  BY SMTT(30)

\* N numbers in a row take every remainder.
LEMMA EveryRemainder ==
    ASSUME NEW N \in Nat, N > 0, NEW a \in Int, NEW r \in 0..N - 1
    PROVE  \E i \in 1..N : (a + i) % N = r
<1> DEFINE m == a % N
<1>1. PICK q \in Int : a = N * q + m
  BY Remainder
<1>2. m \in 0..N - 1
  BY Remainder
<1> HIDE DEF m
<1> DEFINE x == N * q
<1>3. x \in Int /\ a = x + m /\ N * (q + 1) = x + N
  BY <1>1, <1>2
<1>4. CASE m < r
  <2>1. (x + r) % N = r
    BY RemainderIs
  <2> HIDE DEF x
  <2>2. r - m \in 1..N /\ a + (r - m) = x + r
    BY <1>2, <1>3, <1>4
  <2> QED
    BY <2>1, <2>2
<1>5. CASE r <= m
  <2>1. (x + N + r) % N = r
    <3>1. q + 1 \in Int
      OBVIOUS
    <3>2. (N * (q + 1) + r) % N = r
      BY <3>1, RemainderIs
    <3> QED
      BY <1>3, <3>2
  <2> HIDE DEF x
  <2>2. r - m + N \in 1..N /\ a + (r - m + N) = x + N + r
    BY <1>2, <1>3, <1>5
  <2> QED
    BY <2>1, <2>2
<1> QED
  BY <1>2, <1>4, <1>5

\* A sum is that of its values one after another.
Sums(g, f, first, n) ==
    /\ g \in [0..n -> Int]
    /\ g[0] = 0
    /\ \A i \in 0..n - 1 : g[i + 1] = g[i] + f[first + i]

\* SumOf is the last of its partial sums.
LEMMA SumIs ==
    ASSUME NEW f, NEW first \in Int, NEW n \in Nat,
           \A i \in 0..n - 1 : f[first + i] \in Int
    PROVE  \E g : Sums(g, f, first, n) /\ Board!SumOf(f, first, n) = g[n]
<1> DEFINE G == [i \in 1..n |-> [x \in Int |-> x + f[first + i - 1]]]
           Loop(g) == g = [i \in 0..n |-> IF i = 0 THEN 0 ELSE g[i - 1] + f[first + i - 1]]
<1>1. \A i \in 1..n : f[first + i - 1] \in Int
  <2> SUFFICES ASSUME NEW i \in 1..n
               PROVE  f[first + i - 1] \in Int
    OBVIOUS
  <2>1. i - 1 \in 0..n - 1 /\ first + (i - 1) = first + i - 1
    OBVIOUS
  <2> QED
    BY <2>1
<1>2. G \in [1..n -> [Int -> Int]]
  <2>1. \A i \in 1..n : \A x \in Int : x + f[first + i - 1] \in Int
    BY <1>1
  <2>2. \A i \in 1..n : [x \in Int |-> x + f[first + i - 1]] \in [Int -> Int]
    BY <2>1
  <2> QED
    BY <2>2
<1>3. PICK h \in [0..n -> Int] : h[0] = 0 /\ \A i \in 1..n : h[i] = G[i][h[i - 1]]
  <2>0. PICK A, a0 : A = Int /\ a0 = 0
    OBVIOUS
  <2> HIDE DEF G
  <2>1. n \in Nat /\ a0 \in A /\ G \in [1..n -> [A -> A]]
    BY <1>2, <2>0
  <2>2. \E h \in [0..n -> A] : h[0] = a0 /\ \A i \in 1..n : h[i] = G[i][h[i - 1]]
    BY <2>1, LoopExists
  <2> QED
    BY <2>0, <2>2
<1>4. \A i \in 1..n : i - 1 \in 0..n /\ h[i] = h[i - 1] + f[first + i - 1]
  <2> SUFFICES ASSUME NEW i \in 1..n
               PROVE  i - 1 \in 0..n /\ h[i] = h[i - 1] + f[first + i - 1]
    OBVIOUS
  <2>1. i - 1 \in 0..n /\ h[i - 1] \in Int
    OBVIOUS
  <2> QED
    BY <1>3, <2>1
<1>5. Loop(h)
  <2>1. \A i \in 0..n : i = 0 \/ i \in 1..n
    OBVIOUS
  <2>2. \A i \in 0..n : h[i] = IF i = 0 THEN 0 ELSE h[i - 1] + f[first + i - 1]
    BY <1>3, <1>4, <2>1
  <2> QED
    BY <2>2
<1> DEFINE sum == CHOOSE g : Loop(g)
<1>6. Loop(sum)
  <2> HIDE DEF Loop
  <2> QED
    BY <1>5
<1>7. Board!SumOf(f, first, n) = sum[n]
  BY DEF Board!SumOf
<1> HIDE DEF sum
<1>8. sum[0] = 0 /\ \A i \in 1..n : sum[i] = sum[i - 1] + f[first + i - 1]
  <2>1. \A i \in 0..n : sum[i] = IF i = 0 THEN 0 ELSE sum[i - 1] + f[first + i - 1]
    BY <1>6
  <2>2. 0 \in 0..n /\ \A i \in 1..n : i \in 0..n /\ i # 0
    OBVIOUS
  <2> QED
    BY <2>1, <2>2
<1>9. \A i \in 0..n - 1 : sum[i + 1] = sum[i] + f[first + i]
  <2> SUFFICES ASSUME NEW i \in 0..n - 1
               PROVE  sum[i + 1] = sum[i] + f[first + i]
    OBVIOUS
  <2>1. i + 1 \in 1..n /\ (i + 1) - 1 = i /\ first + (i + 1) - 1 = first + i
    OBVIOUS
  <2> QED
    BY <1>8, <2>1
<1> DEFINE T == {i \in 0..n : sum[i] \in Int}
<1>10. \A i \in 0..n : i \in T
  <2>1. 0 \in T
    BY <1>8
  <2>2. ASSUME NEW i \in 0..n - 1, i \in T
        PROVE  i + 1 \in T
    <3>1. sum[i] \in Int /\ f[first + i] \in Int /\ i + 1 \in 0..n
      BY <2>2
    <3>2. sum[i + 1] \in Int
      BY <1>9, <3>1
    <3> QED
      BY <3>1, <3>2
  <2> HIDE DEF T
  <2> QED
    BY <2>1, <2>2, UpTo
<1>11. sum \in [0..n -> Int]
  BY <1>6, <1>10
<1>12. Sums(sum, f, first, n)
  BY <1>8, <1>9, <1>11 DEF Sums
<1> QED
  BY <1>7, <1>12

\* N values in a row sum to the same as the N counters that hold them by
\* their remainders.
LEMMA SumsAgree ==
    ASSUME NEW N \in Nat, N > 0, NEW c \in [0..N - 1 -> Int], NEW f, NEW lo \in Int,
           \A j \in 0..N - 1 : f[lo + j] = c[(lo + j) % N]
    PROVE  Board!SumOf(c, 0, N) = Board!SumOf(f, lo, N)
<1>1. \A j \in 0..N - 1 : (lo + j) % N \in 0..N - 1 /\ f[lo + j] \in Int
  BY Remainder
<1>2. \A i \in 0..N - 1 : c[0 + i] \in Int
  OBVIOUS
<1>3. PICK S : Sums(S, c, 0, N) /\ Board!SumOf(c, 0, N) = S[N]
  <2>1. 0 \in Int
    OBVIOUS
  <2> QED
    BY <1>2, <2>1, SumIs
<1>4. PICK T : Sums(T, f, lo, N) /\ Board!SumOf(f, lo, N) = T[N]
  BY <1>1, SumIs
<1>5. /\ S \in [0..N -> Int] /\ T \in [0..N -> Int] /\ S[0] = 0 /\ T[0] = 0
      /\ \A i \in 0..N - 1 : S[i + 1] = S[i] + c[i] /\ T[i + 1] = T[i] + f[lo + i]
  BY <1>3, <1>4 DEF Sums
<1> DEFINE r == lo % N
<1>6. r \in 0..N - 1 /\ \E q \in Int : lo = N * q + r
  BY Remainder
<1> HIDE DEF r
<1>7. PICK q \in Int : lo = N * q + r
  BY <1>6
<1>8. ASSUME NEW j \in 0..N - 1
      PROVE  f[lo + j] = c[IF r + j < N THEN r + j ELSE r + j - N]
  <2> DEFINE x == N * q
  <2>1. x \in Int /\ lo = x + r /\ N * (q + 1) = x + N /\ q + 1 \in Int
    BY <1>6, <1>7
  <2>2. CASE r + j < N
    <3>1. r + j \in 0..N - 1
      BY <1>6, <2>2
    <3>2. (x + (r + j)) % N = r + j
      BY <3>1, RemainderIs
    <3> HIDE DEF x
    <3>3. lo + j = x + (r + j)
      BY <1>6, <2>1
    <3> QED
      BY <2>2, <3>2, <3>3
  <2>3. CASE ~(r + j < N)
    <3>1. r + j - N \in 0..N - 1
      BY <1>6, <2>3
    <3>2. (N * (q + 1) + (r + j - N)) % N = r + j - N
      BY <2>1, <3>1, RemainderIs
    <3> HIDE DEF x
    <3>3. lo + j = (x + N) + (r + j - N)
      BY <1>6, <2>1
    <3>4. (lo + j) % N = r + j - N
      BY <2>1, <3>2, <3>3
    <3> QED
      BY <2>3, <3>4
  <2> QED
    BY <2>2, <2>3
<1> DEFINE A == {j \in 0..N - r : T[j] = S[r + j] - S[r]}
           B == {j \in 0..r : T[N - r + j] = S[N] - S[r] + S[j]}
<1>9. N - r \in Nat /\ r \in Nat
  BY <1>6
<1>10. \A j \in 0..N - r : j \in A
  <2>1. 0 \in A
    BY <1>5, <1>6
  <2>2. ASSUME NEW j \in 0..N - r - 1, j \in A
        PROVE  j + 1 \in A
    <3>1. /\ j \in 0..N - 1 /\ r + j \in 0..N - 1 /\ r + j < N /\ r + (j + 1) = (r + j) + 1
          /\ j + 1 \in 0..N - r
      BY <1>6
    <3>2. f[lo + j] = c[r + j]
      BY <1>8, <3>1
    <3>3. /\ T[j + 1] = T[j] + f[lo + j] /\ S[(r + j) + 1] = S[r + j] + c[r + j]
      BY <1>5, <3>1
    <3>4. T[j] = S[r + j] - S[r] /\ S[r + j] \in Int /\ S[r] \in Int /\ c[r + j] \in Int
      BY <1>5, <1>6, <2>2, <3>1
    <3>5. T[j + 1] = S[r + (j + 1)] - S[r]
      BY <3>1, <3>2, <3>3, <3>4
    <3> QED
      BY <3>1, <3>5
  <2> HIDE DEF A
  <2> QED
    BY <1>9, <2>1, <2>2, UpTo
<1>11. T[N - r] = S[N] - S[r]
  <2>1. N - r \in A /\ r + (N - r) = N
    BY <1>6, <1>9, <1>10
  <2> QED
    BY <2>1
<1>12. \A j \in 0..r : j \in B
  <2>1. 0 \in B
    <3>1. N - r + 0 = N - r /\ S[N] \in Int /\ S[r] \in Int
      BY <1>5, <1>6
    <3> QED
      BY <1>5, <1>9, <1>11, <3>1
  <2>2. ASSUME NEW j \in 0..r - 1, j \in B
        PROVE  j + 1 \in B
    <3> DEFINE k == N - r + j
    <3>1. /\ k \in 0..N - 1 /\ ~(r + k < N) /\ r + k - N = j /\ N - r + (j + 1) = k + 1
          /\ j \in 0..N - 1 /\ j + 1 \in 0..r
      BY <1>6
    <3>2. f[lo + k] = c[j]
      BY <1>8, <3>1
    <3>3. T[k + 1] = T[k] + f[lo + k] /\ S[j + 1] = S[j] + c[j]
      BY <1>5, <3>1
    <3>4. /\ T[k] = S[N] - S[r] + S[j]
          /\ S[N] \in Int /\ S[r] \in Int /\ S[j] \in Int /\ c[j] \in Int
      BY <1>5, <1>6, <2>2, <3>1
    <3> HIDE DEF k
    <3>5. T[k + 1] = S[N] - S[r] + S[j + 1]
      BY <3>2, <3>3, <3>4
    <3>6. T[N - r + (j + 1)] = S[N] - S[r] + S[j + 1]
      BY <3>1, <3>5
    <3> QED
      BY <3>1, <3>6
  <2> HIDE DEF B
  <2> QED
    BY <1>9, <2>1, <2>2, UpTo
<1>13. T[N] = S[N]
  <2>1. r \in B /\ N - r + r = N
    BY <1>6, <1>9, <1>12
  <2>2. T[N] = S[N] - S[r] + S[r] /\ S[N] \in Int /\ S[r] \in Int
    BY <1>5, <1>6, <2>1
  <2> QED
    BY <2>2
<1> QED
  BY <1>3, <1>4, <1>13

\* The notifications of a moment; there were none outside the run.
NotedAt(s) == IF s \in 0..Board!MaxWall THEN noted[s] ELSE 0

Counters == [slot : 0..Board!MaxWall, counts : [0..InflowBuckets - 1 -> Nat]]

RateTypes ==
    /\ now \in 0..MaxTime /\ shift \in Int /\ stepped \in {"no", "back", "forth"}
    /\ Start - MaxStep <= shift /\ shift <= Start + MaxStep
    /\ stepped = "no" => shift = Start
    /\ noted \in [0..Board!MaxWall -> Nat]
    /\ inflow \in Counters

\* A step back leaves the counter ahead of the clock, by less than a window.
SlotNear == inflow.slot <= now + shift + (IF stepped = "back" THEN MaxStep ELSE 0)

\* Nothing was noted at a moment the counter has not reached.
NothingAhead == \A s \in 0..Board!MaxWall : s > inflow.slot => noted[s] = 0

\* The counters hold what was noted in the window that ends at their slot.
HoldsWindow(c) ==
    \A s \in Int : c.slot - InflowBuckets < s /\ s <= c.slot =>
                       c.counts[s % InflowBuckets] = NotedAt(s)

RateInv ==
    /\ RateTypes
    /\ SlotNear
    /\ NothingAhead
    /\ HoldsWindow(inflow)

\* What is assumed of the constants of the inflow rate.
LEMMA RateBounds ==
    /\ InflowBuckets \in Nat /\ InflowBuckets > 0
    /\ MaxStep \in Nat /\ MaxStep < InflowBuckets
    /\ Start \in Nat /\ Start >= InflowBuckets + MaxStep
    /\ MaxTime \in Nat /\ Board!MaxWall \in Nat /\ Board!MaxWall = Start + MaxTime + MaxStep
  BY BoardAssumption DEF Board!LandingAssumption, Board!MaxWall

\* The wall clock and its window are among the slots noted.
LEMMA WallBounds ==
    ASSUME RateTypes
    PROVE  /\ now + shift \in 0..Board!MaxWall
           /\ now + shift - InflowBuckets + 1 \in 0..Board!MaxWall
  BY RateBounds DEF RateTypes

\* rotate goes on to the slot, and what it leaves is still the window's.
LEMMA RotateKeeps ==
    ASSUME RateInv, NEW w \in 0..Board!MaxWall
    PROVE  LET c == Board!rotate(inflow, w)
           IN  /\ c \in Counters
               /\ c.slot = IF w <= inflow.slot THEN inflow.slot ELSE w
               /\ HoldsWindow(c)
<1> DEFINE N == InflowBuckets
           slot == inflow.slot
           c == Board!rotate(inflow, w)
<1>1. /\ N \in Nat /\ N > 0 /\ slot \in 0..Board!MaxWall /\ slot \in Int /\ w \in Int
      /\ inflow.counts \in [0..N - 1 -> Nat] /\ inflow \in Counters
      /\ noted \in [0..Board!MaxWall -> Nat]
  BY RateBounds DEF RateInv, RateTypes, Counters
<1>2. CASE w <= slot
  <2>1. c = inflow
    BY <1>2 DEF Board!rotate
  <2> QED
    BY <1>1, <1>2, <2>1 DEF RateInv
<1>3. CASE ~(w <= slot)
  <2> DEFINE steps == IF w - slot < N THEN w - slot ELSE N
             skipped == {(slot + i) % N : i \in 1..steps}
             counts == [b \in DOMAIN inflow.counts |->
                           IF b \in skipped THEN 0 ELSE inflow.counts[b]]
  <2>1. c = [slot |-> w, counts |-> counts]
    BY <1>3 DEF Board!rotate
  <2>2. counts \in [0..N - 1 -> Nat]
    <3> HIDE DEF skipped
    <3> QED
      BY <1>1
  <2>3. c \in Counters /\ c.slot = w /\ c.counts = counts
    <3> HIDE DEF counts, c
    <3> QED
      BY <2>1, <2>2 DEF Counters
  <2>4. ASSUME NEW s \in Int, w - N < s, s <= w
        PROVE  counts[s % N] = NotedAt(s)
    <3>1. s % N \in 0..N - 1
      BY <1>1, Remainder
    <3>2. counts[s % N] = IF s % N \in skipped THEN 0 ELSE inflow.counts[s % N]
      <4> HIDE DEF skipped
      <4> QED
        BY <1>1, <3>1
    <3> HIDE DEF counts
    <3>3. CASE slot < s
      <4>1. NotedAt(s) = 0
        BY <1>1, <3>3 DEF NotedAt, RateInv, NothingAhead
      <4>2. CASE w - slot < N
        <5>1. s - slot \in 1..steps /\ slot + (s - slot) = s
          BY <1>1, <2>4, <3>3, <4>2
        <5>2. s % N \in skipped
          <6> HIDE DEF steps
          <6> QED
            BY <5>1
        <5> QED
          BY <3>2, <4>1, <5>2
      <4>3. CASE ~(w - slot < N)
        <5>1. steps = N
          BY <4>3
        <5>2. \E i \in 1..N : (slot + i) % N = s % N
          BY <1>1, <3>1, EveryRemainder
        <5>3. s % N \in skipped
          <6> HIDE DEF steps
          <6> QED
            BY <5>1, <5>2
        <5> QED
          BY <3>2, <4>1, <5>3
      <4> QED
        BY <4>2, <4>3
    <3>4. CASE s <= slot
      <4>1. steps = w - slot
        BY <1>1, <2>4, <3>4
      <4>2. ASSUME NEW i \in 1..steps
            PROVE  (slot + i) % N # s % N
        <5>1. slot + i \in Int /\ s < slot + i /\ slot + i < s + N
          BY <1>1, <2>4, <3>4, <4>1
        <5> QED
          BY <1>1, <5>1, RemaindersDiffer
      <4>3. s % N \notin skipped
        <5> HIDE DEF steps
        <5> QED
          BY <4>2
      <4>4. slot - N < s
        BY <1>1, <1>3, <2>4
      <4>5. inflow.counts[s % N] = NotedAt(s)
        BY <3>4, <4>4 DEF RateInv, HoldsWindow
      <4> QED
        BY <3>2, <4>3, <4>5
    <3> QED
      BY <1>1, <3>3, <3>4
  <2>5. HoldsWindow(c)
    <3> HIDE DEF counts, c
    <3> QED
      BY <2>3, <2>4 DEF HoldsWindow
  <2> QED
    BY <1>3, <2>3, <2>5
<1> QED
  BY <1>2, <1>3

\* A notification is counted where the window expects it, even by a clock
\* that was set back.
LEMMA NoteKeepsRate ==
    ASSUME RateInv, NEW t \in Txs, Board!NoteArrival(t)
    PROVE  RateInv'
<1> DEFINE N == InflowBuckets
           w == now + shift
           c == Board!rotate(inflow, w)
           counts == [c.counts EXCEPT ![w % N] = @ + 1]
<1>1. /\ inflow' = [c EXCEPT !.counts[w % N] = @ + 1]
      /\ noted' = [noted EXCEPT ![w] = @ + 1]
      /\ UNCHANGED <<now, shift, stepped>>
  BY DEF Board!NoteArrival, Board!note, Board!clock, Board!wall
<1>2. /\ N \in Nat /\ N > 0 /\ w \in 0..Board!MaxWall /\ w \in Int /\ MaxStep \in Nat /\ MaxStep < N
      /\ noted \in [0..Board!MaxWall -> Nat] /\ inflow.slot \in Int
      /\ inflow.slot <= w + MaxStep
  BY RateBounds, WallBounds DEF RateInv, RateTypes, SlotNear, Counters
<1>3. /\ c \in Counters
      /\ c.slot = IF w <= inflow.slot THEN inflow.slot ELSE w
      /\ HoldsWindow(c)
  BY <1>2, RotateKeeps
<1>4. /\ c.counts \in [0..N - 1 -> Nat] /\ c.slot \in 0..Board!MaxWall /\ c.slot \in Int
      /\ w <= c.slot /\ c.slot - N < w /\ inflow.slot <= c.slot
  BY <1>2, <1>3 DEF Counters
<1>5. w % N \in 0..N - 1
  BY <1>2, Remainder
<1> HIDE DEF c, w
<1>6. /\ inflow' = [slot |-> c.slot, counts |-> counts]
      /\ counts \in [0..N - 1 -> Nat]
      /\ \A b \in 0..N - 1 : counts[b] = IF b = w % N THEN c.counts[b] + 1 ELSE c.counts[b]
  <2>1. c = [slot |-> c.slot, counts |-> c.counts]
    BY <1>3 DEF Counters
  <2>2. [c EXCEPT !.counts[w % N] = @ + 1] = [c EXCEPT !.counts = counts]
    OBVIOUS
  <2>3. [c EXCEPT !.counts = counts] = [slot |-> c.slot, counts |-> counts]
    <3> HIDE DEF counts
    <3> QED
      BY <2>1
  <2>4. inflow' = [slot |-> c.slot, counts |-> counts]
    <3> HIDE DEF counts
    <3> QED
      BY <1>1, <2>2, <2>3
  <2>5. /\ counts \in [0..N - 1 -> Nat]
        /\ \A b \in 0..N - 1 : counts[b] = IF b = w % N THEN c.counts[b] + 1 ELSE c.counts[b]
    <3> DEFINE k == w % N
               f == c.counts
    <3> HIDE DEF k, f
    <3>0. k \in 0..N - 1 /\ f \in [0..N - 1 -> Nat]
      BY <1>4, <1>5 DEF k, f
    <3>1. k \in 0..N - 1 /\ f \in [0..N - 1 -> Nat] /\ f[k] + 1 \in Nat
      BY <3>0
    <3>2. /\ [f EXCEPT ![k] = f[k] + 1] \in [0..N - 1 -> Nat]
          /\ \A b \in 0..N - 1 :
                [f EXCEPT ![k] = f[k] + 1][b] = IF b = k THEN f[b] + 1 ELSE f[b]
      BY <3>1
    <3> QED
      BY <3>2 DEF k, f
  <2> QED
    BY <2>4, <2>5
<1> HIDE DEF counts
<1>7. /\ noted' \in [0..Board!MaxWall -> Nat]
      /\ \A s \in 0..Board!MaxWall : noted'[s] = IF s = w THEN noted[s] + 1 ELSE noted[s]
  BY <1>1, <1>2
<1>8. RateTypes'
  <2>1. inflow' \in Counters
    BY <1>4, <1>6 DEF Counters
  <2> QED
    BY <1>1, <1>7, <2>1 DEF RateInv, RateTypes, Counters, Board!MaxWall
<1>9. SlotNear'
  <2>1. c.slot <= w + (IF stepped = "back" THEN MaxStep ELSE 0)
    BY <1>2, <1>3 DEF RateInv, SlotNear, w
  <2> QED
    BY <1>1, <1>6, <2>1 DEF SlotNear, w
<1>10. NothingAhead'
  <2> SUFFICES ASSUME NEW s \in 0..Board!MaxWall, s > c.slot
               PROVE  noted'[s] = 0
    BY <1>6 DEF NothingAhead, Board!MaxWall
  <2>1. s > inflow.slot /\ s # w
    BY <1>2, <1>4
  <2> QED
    BY <1>7, <2>1 DEF RateInv, NothingAhead
<1>11. HoldsWindow(inflow)'
  <2> SUFFICES ASSUME NEW s \in Int, c.slot - N < s, s <= c.slot
               PROVE  counts[s % N] = IF s \in 0..Board!MaxWall THEN noted'[s] ELSE 0
    BY <1>6 DEF HoldsWindow, NotedAt, Board!MaxWall
  <2>1. s % N \in 0..N - 1
    BY <1>2, Remainder
  <2>2. c.counts[s % N] = IF s \in 0..Board!MaxWall THEN noted[s] ELSE 0
    BY <1>3 DEF HoldsWindow, NotedAt
  <2>3. CASE s = w
    BY <1>2, <1>6, <1>7, <2>1, <2>2, <2>3
  <2>4. CASE s # w
    <3>1. s % N # w % N
      <4>1. CASE s < w
        <5>1. w < s + N
          BY <1>2, <1>4
        <5> QED
          BY <1>2, <4>1, <5>1, RemaindersDiffer
      <4>2. CASE w < s
        <5>1. s < w + N
          BY <1>2, <1>4
        <5> QED
          BY <1>2, <4>2, <5>1, RemaindersDiffer
      <4> QED
        BY <1>2, <2>4, <4>1, <4>2
    <3> QED
      BY <1>6, <1>7, <2>1, <2>2, <2>4, <3>1
  <2> QED
    BY <2>3, <2>4
<1> QED
  BY <1>8, <1>9, <1>10, <1>11 DEF RateInv

\* So does an update, which only turns the counter.
LEMMA ReadKeepsRate ==
    ASSUME RateInv, Board!ReadInflow, UNCHANGED <<now, shift, stepped, noted>>
    PROVE  RateInv'
<1>1. CASE inflow' = inflow
  BY <1>1 DEF RateInv, RateTypes, SlotNear, NothingAhead, HoldsWindow, NotedAt, Counters,
              Board!MaxWall
<1>2. CASE inflow' = Board!rotate(inflow, now + shift)
  <2> DEFINE w == now + shift
  <2>1. w \in 0..Board!MaxWall /\ inflow.slot \in Int /\ inflow.slot \in 0..Board!MaxWall
    BY WallBounds, RateBounds DEF RateInv, RateTypes, Counters
  <2>2. /\ inflow' \in Counters
        /\ inflow'.slot = IF w <= inflow.slot THEN inflow.slot ELSE w
        /\ HoldsWindow(inflow')
    BY <1>2, <2>1, RotateKeeps
  <2>3. RateTypes'
    BY <2>2 DEF RateInv, RateTypes, Counters, Board!MaxWall
  <2>4. SlotNear'
    <3>1. inflow'.slot <= w + (IF stepped = "back" THEN MaxStep ELSE 0)
      BY <2>1, <2>2, RateBounds DEF RateInv, SlotNear
    <3> QED
      BY <3>1 DEF SlotNear
  <2>5. NothingAhead'
    <3> SUFFICES ASSUME NEW s \in 0..Board!MaxWall, s > inflow'.slot
                 PROVE  noted[s] = 0
      BY DEF NothingAhead, Board!MaxWall
    <3>1. s > inflow.slot
      BY <2>1, <2>2, RateBounds
    <3> QED
      BY <3>1 DEF RateInv, NothingAhead
  <2>6. HoldsWindow(inflow)'
    BY <2>2 DEF HoldsWindow, NotedAt, Board!MaxWall
  <2> QED
    BY <2>3, <2>4, <2>5, <2>6 DEF RateInv
<1> QED
  BY <1>1, <1>2 DEF Board!ReadInflow, Board!wall

\* What the invariant is for: the rate counts the last window.
LEMMA RateInvImplies == RateInv => InflowExact
<1> SUFFICES ASSUME RateInv, Board!wall >= inflow.slot
             PROVE  Board!Counted(inflow, Board!wall)
                      = Board!SumOf(noted, Board!wall - InflowBuckets + 1, InflowBuckets)
  BY DEF InflowExact, Board!InflowExact
<1> DEFINE N == InflowBuckets
           w == Board!wall
           lo == Board!wall - InflowBuckets + 1
           c == Board!rotate(inflow, w)
<1>1. /\ N \in Nat /\ N > 0 /\ w \in 0..Board!MaxWall /\ w \in Int /\ lo \in 0..Board!MaxWall
      /\ lo \in Int /\ lo = w - N + 1 /\ inflow.slot \in Int /\ Board!MaxWall \in Nat
  BY RateBounds, WallBounds DEF RateInv, RateTypes, Counters, Board!wall
<1>2. /\ c \in Counters
      /\ c.slot = w
      /\ HoldsWindow(c)
  BY <1>1, RotateKeeps
<1>3. Board!Counted(inflow, w) = Board!SumOf(c.counts, 0, N)
  BY DEF Board!Counted
<1> HIDE DEF w, lo, c
<1>4. c.counts \in [0..N - 1 -> Int]
  BY <1>2 DEF Counters
<1>5. ASSUME NEW j \in 0..N - 1
      PROVE  noted[lo + j] = c.counts[(lo + j) % N]
  <2>1. /\ lo + j \in Int /\ w - N < lo + j /\ lo + j <= w /\ lo + j \in 0..Board!MaxWall
    BY <1>1
  <2> QED
    BY <1>2, <2>1 DEF HoldsWindow, NotedAt
<1>6. Board!SumOf(c.counts, 0, N) = Board!SumOf(noted, lo, N)
  BY <1>1, <1>4, <1>5, SumsAgree
<1> QED
  BY <1>3, <1>6 DEF w, lo

\* The invariant of the inflow counter.
THEOREM RateInvariant == Board!Spec => []RateInv
<1>1. Board!Init => RateInv
  <2> SUFFICES ASSUME Board!Init
               PROVE  RateInv
    OBVIOUS
  <2>1. inflow.slot = 0 /\ \A b \in 0..InflowBuckets - 1 : inflow.counts[b] = 0
    BY DEF Board!Init
  <2>2. RateTypes
    BY RateBounds DEF Board!Init, RateTypes, Counters
  <2>3. SlotNear
    BY RateBounds DEF Board!Init, SlotNear
  <2>4. \A s \in Int : NotedAt(s) = 0
    BY DEF Board!Init, NotedAt
  <2>5. NothingAhead
    BY DEF Board!Init, NothingAhead
  <2>6. HoldsWindow(inflow)
    <3> SUFFICES ASSUME NEW s \in Int
                 PROVE  inflow.counts[s % InflowBuckets] = NotedAt(s)
      BY DEF HoldsWindow
    <3>1. s % InflowBuckets \in 0..InflowBuckets - 1
      BY RateBounds, Remainder
    <3> QED
      BY <2>1, <2>4, <3>1
  <2> QED
    BY <2>2, <2>3, <2>5, <2>6 DEF RateInv
<1>2. RateInv /\ [Board!Next]_Board!vars => RateInv'
  <2> SUFFICES ASSUME RateInv, [Board!Next]_Board!vars
               PROVE  RateInv'
    OBVIOUS
  <2>1. ASSUME NEW t \in Txs, Board!NoteArrival(t)
        PROVE  RateInv'
    BY <2>1, NoteKeepsRate
  <2>2. ASSUME NEW depth \in Depths, Board!Update(depth)
        PROVE  RateInv'
    BY <2>2, ReadKeepsRate DEF Board!Update, Board!clock
  <2>3. CASE Board!UpdateAgain
    BY <2>3, ReadKeepsRate DEF Board!UpdateAgain, Board!clock, Board!history
  <2>4. ASSUME UNCHANGED <<noted, inflow>>, RateTypes', SlotNear'
        PROVE  RateInv'
    BY <2>4 DEF RateInv, NothingAhead, HoldsWindow, NotedAt, Board!MaxWall
  <2>5. CASE Board!Tick
    <3>1. UNCHANGED <<noted, inflow, shift, stepped>> /\ now' = now + 1 /\ now' \in 0..MaxTime
      BY <2>5, RateBounds DEF Board!Tick, Board!history, RateInv, RateTypes
    <3>2. RateTypes'
      BY <3>1 DEF RateInv, RateTypes, Counters, Board!MaxWall
    <3>3. inflow.slot \in Int /\ now \in Int /\ shift \in Int /\ MaxStep \in Int
      BY RateBounds DEF RateInv, RateTypes, Counters
    <3>4. SlotNear'
      BY <3>1, <3>3 DEF RateInv, SlotNear
    <3> QED
      BY <2>4, <3>1, <3>2, <3>4
  <2>6. CASE Board!StepClock
    <3>1. UNCHANGED <<noted, inflow, now>> /\ stepped = "no"
      BY <2>6 DEF Board!StepClock, Board!history
    <3>2. PICK d \in 1..MaxStep : \/ shift' = shift - d /\ stepped' = "back"
                                  \/ shift' = shift + d /\ stepped' = "forth"
      BY <2>6 DEF Board!StepClock
    <3>3. shift = Start /\ d \in Int /\ 1 <= d /\ d <= MaxStep
      BY <3>1, <3>2, RateBounds DEF RateInv, RateTypes
    <3>4. /\ shift' \in Int /\ stepped' \in {"back", "forth"}
          /\ Start - MaxStep <= shift' /\ shift' <= Start + MaxStep
      BY <3>2, <3>3, RateBounds
    <3>5. RateTypes'
      BY <3>1, <3>4 DEF RateInv, RateTypes, Counters, Board!MaxWall
    <3>6. inflow.slot \in Int /\ now \in Int /\ shift \in Int /\ MaxStep \in Int
      BY RateBounds DEF RateInv, RateTypes, Counters
    <3>7. inflow.slot <= now + shift
      BY <3>1, <3>6 DEF RateInv, SlotNear
    <3>8. inflow.slot <= now + shift' + (IF stepped' = "back" THEN MaxStep ELSE 0)
      BY <3>2, <3>3, <3>6, <3>7
    <3> QED
      BY <2>4, <3>1, <3>5, <3>8 DEF SlotNear
  <2>7. CASE UNCHANGED Board!vars
    <3>1. UNCHANGED <<noted, inflow, now, shift, stepped>>
      BY <2>7 DEF Board!vars, Board!clock, Board!history
    <3>2. RateTypes' /\ SlotNear'
      BY <3>1 DEF RateInv, RateTypes, SlotNear, Counters, Board!MaxWall
    <3> QED
      BY <2>4, <3>1, <3>2
  <2> QED
    BY <2>1, <2>2, <2>3, <2>5, <2>6, <2>7 DEF Board!Next
<1> QED
  BY <1>1, <1>2, PTL DEF Board!Spec

\* Once the wall clock is not behind the counter, the rate counts exactly the
\* notifications of the last window, through quiet spells, bursts and a step
\* of the clock shorter than the window.
THEOREM InflowSafe == Board!Spec => []InflowExact
  BY RateInvariant, RateInvImplies, PTL
=============================================================================
