-------------------------- MODULE LiveCacheProofs --------------------------
(***************************************************************************)
(* What the live cache promises, for any number of workers, any feeds and  *)
(* any thresholds.  A served feed is never lost, with or without           *)
(* overlapping recomputes; the order of its values is only kept while      *)
(* recomputes do not overlap and the snapshot they read does not go back:  *)
(* then what is served, and what a worker has computed, is never newer     *)
(* than the snapshot, and what a worker has computed is never older than   *)
(* what is served.                                                         *)
(***************************************************************************)
EXTENDS LiveCache, TLAPS

AtMostOneWorker == \A v, w \in running : v = w

WorkerIsFlagged == \A w \in running : inFlight

WhileAlone == ~overlap => AtMostOneWorker /\ WorkerIsFlagged

\* Nothing that is served or was computed is newer than the snapshot.
NoneIsNewer ==
    /\ \A f \in Feeds : live[f] <= source
    /\ \A w \in running, f \in Feeds : result[w][f] <= source

\* A feed computed by a living worker is not older than the one served.
ResultIsNewer ==
    \A w \in running, f \in Feeds :
        result[w][f] = Nil \/ live[f] <= result[w][f]

WhileForward == ~overlap /\ ~wentBack => NoneIsNewer /\ ResultIsNewer

\* A worker that is not alive holds no result.
IdleHoldsNothing ==
    \A w \in Workers \ running : \A f \in Feeds : result[w][f] = Nil

IInv == TypeOK /\ IdleHoldsNothing /\ WhileAlone /\ WhileForward

-----------------------------------------------------------------------------
(* Type correctness *)

\* The initial state has the right types.
LEMMA TypeInit == Init => TypeOK
<1> SUFFICES ASSUME Init
             PROVE  TypeOK
  OBVIOUS
<1> USE DEF Init, Start, TypeOK, Version, Nil
<1>1. inFlight \in BOOLEAN /\ overlap \in BOOLEAN /\ wentBack \in BOOLEAN
  BY Zenon
<1>2. source \in Version /\ live \in [Feeds -> Version \cup {Nil}]
  BY SizesAssumption DEF SizesAssumption
<1>3. next \in [Workers -> 1..FeedCount + 1]
  BY SizesAssumption DEF SizesAssumption
<1>4. result \in [Workers -> [Feeds -> Version \cup {Nil}]]
  BY SizesAssumption DEF SizesAssumption
<1>5. QED
  BY <1>1, <1>2, <1>3, <1>4, TimesAssumption DEF TimesAssumption

\* The histories are truth values whatever happens.
LEMMA RememberType ==
    ASSUME NEW o, NEW b, Remember(o, b)
    PROVE  overlap' \in BOOLEAN /\ wentBack' \in BOOLEAN
  BY Zenon DEF Remember

\* Every step keeps the types.
LEMMA TypeStep == TypeOK /\ [Next]_vars => TypeOK'
<1> SUFFICES ASSUME TypeOK, [Next]_vars
             PROVE  TypeOK'
  OBVIOUS
<1> DEFINE Histories == overlap' \in BOOLEAN /\ wentBack' \in BOOLEAN
<1> USE SizesAssumption, TimesAssumption
<1> USE DEF SizesAssumption, TimesAssumption, TypeOK, Version, Nil, Feeds,
            cacheVars, workerVars
<1>1. ASSUME NEW v \in Version, Change(v)
      PROVE  TypeOK'
  <2>1. Histories
    BY <1>1, RememberType DEF Change
  <2>2. QED
    BY <1>1, <2>1 DEF Change
<1>2. CASE Tick
  <2>1. Histories
    BY <1>2, RememberType DEF Tick
  <2>2. QED
    BY <1>2, <2>1 DEF Tick
<1>3. ASSUME NEW w \in Workers, Kick(w)
      PROVE  TypeOK'
  <2>1. Histories
    BY <1>3, RememberType DEF Kick
  <2>2. QED
    BY <1>3, <2>1 DEF Kick
<1>4. ASSUME NEW w \in Workers, Install(w)
      PROVE  TypeOK'
  <2>1. inFlight' \in BOOLEAN /\ Histories
    BY <1>4, RememberType, Zenon DEF Install
  <2>2. live' \in [Feeds -> Version \cup {Nil}]
    BY <1>4 DEF Install, Merged
  <2>3. result' \in [Workers -> [Feeds -> Version \cup {Nil}]]
    BY <1>4 DEF Install
  <2>4. QED
    BY <1>4, <2>1, <2>2, <2>3 DEF Install
<1>5. ASSUME NEW w \in Workers, NEW f \in Feeds, NEW v \in {source, Nil},
             Compute(w, f, v)
      PROVE  TypeOK'
  <2>1. Histories
    BY <1>5, RememberType DEF Compute
  <2>2. QED
    BY <1>5, <2>1 DEF Compute
<1>6. CASE UNCHANGED vars
  BY <1>6 DEF vars, histVars
<1>7. QED
  BY <1>1, <1>2, <1>3, <1>4, <1>5, <1>6 DEF Next

\* Every variable stays in its type.
THEOREM TypeCorrect == Spec => []TypeOK
<1>1. Init => TypeOK
  BY TypeInit
<1>2. TypeOK /\ [Next]_vars => TypeOK'
  BY TypeStep
<1>3. QED
  BY <1>1, <1>2, PTL DEF Spec

-----------------------------------------------------------------------------
(* The inductive invariant *)

\* The inductive invariant holds at the start.
LEMMA IInvInit == Init => IInv
<1> SUFFICES ASSUME Init
             PROVE  IInv
  OBVIOUS
<1>1. TypeOK
  BY TypeInit
<1>2. IdleHoldsNothing /\ running = {} /\ \A f \in Feeds : live[f] <= source
  BY DEF Init, Start, IdleHoldsNothing, Nil
<1>3. QED
  BY <1>1, <1>2 DEF IInv, WhileAlone, WhileForward, AtMostOneWorker,
                    WorkerIsFlagged, NoneIsNewer, ResultIsNewer

\* What an overlap or a snapshot that went back was, it stays.
LEMMA Remembered ==
    ASSUME TypeOK, Next
    PROVE  (~overlap' => ~overlap) /\ (~wentBack' => ~wentBack)
  BY DEF Next, Tick, Change, Kick, Compute, Install, Remember

\* Every step keeps the inductive invariant.
LEMMA IInvStep == IInv /\ [Next]_vars => IInv'
<1> SUFFICES ASSUME IInv, [Next]_vars
             PROVE  IInv'
  OBVIOUS
<1>0. TypeOK /\ TypeOK'
  BY TypeStep DEF IInv
<1> DEFINE Rest == IdleHoldsNothing /\ WhileAlone /\ WhileForward
<1>1. CASE UNCHANGED vars
  BY <1>0, <1>1 DEF vars, cacheVars, workerVars, histVars, IInv,
     IdleHoldsNothing, WhileAlone, WhileForward, AtMostOneWorker,
     WorkerIsFlagged, NoneIsNewer, ResultIsNewer
<1>2. CASE Tick
  BY <1>0, <1>2 DEF Tick, Remember, workerVars, IInv,
     IdleHoldsNothing, WhileAlone, WhileForward, AtMostOneWorker,
     WorkerIsFlagged, NoneIsNewer, ResultIsNewer
\* A newer snapshot, or going back is recorded.
<1>3. ASSUME NEW v \in Version, Change(v)
      PROVE  Rest'
  <2>1. /\ UNCHANGED <<live, inFlight, running, result>> /\ source' = v
        /\ overlap' = (overlap \/ FALSE)
        /\ wentBack' = (wentBack \/ v < source)
    BY <1>3 DEF Change, Remember, cacheVars, workerVars
  <2>2. IdleHoldsNothing' /\ WhileAlone'
    BY <2>1 DEF IInv, IdleHoldsNothing, WhileAlone, AtMostOneWorker,
                WorkerIsFlagged
  <2>3. ASSUME ~overlap', ~wentBack'
        PROVE  NoneIsNewer' /\ ResultIsNewer'
    <3>1. NoneIsNewer /\ ResultIsNewer /\ ~(v < source)
      BY <2>1, <2>3 DEF IInv, WhileForward
    <3>2. source \in Int /\ v \in Int /\ source <= v
      BY <1>0, <3>1 DEF TypeOK, Version
    <3>3. \A f \in Feeds : live[f] \in Int
      BY <1>0 DEF TypeOK, Version, Nil
    <3>4. \A w \in running, f \in Feeds : result[w][f] \in Int
      BY <1>0 DEF TypeOK, Version, Nil
    <3>5. NoneIsNewer'
      BY <2>1, <3>1, <3>2, <3>3, <3>4 DEF NoneIsNewer
    <3>6. QED
      BY <2>1, <3>1, <3>5 DEF ResultIsNewer
  <2>4. QED
    BY <2>2, <2>3 DEF WhileForward
\* The new worker is alone, or the overlap is recorded.
<1>4. ASSUME NEW w \in Workers, Kick(w)
      PROVE  Rest'
  <2>1. /\ UNCHANGED <<source, live, result>> /\ inFlight'
        /\ running' = running \cup {w} /\ w \notin running
        /\ overlap' = (overlap \/ running # {})
        /\ wentBack' = (wentBack \/ FALSE)
    BY <1>4 DEF Kick, Remember
  <2>2. ~overlap' => ~overlap /\ running' = {w}
    BY <2>1
  <2>3. IdleHoldsNothing'
    BY <2>1 DEF IInv, IdleHoldsNothing
  <2>4. WhileAlone'
    BY <2>1, <2>2 DEF WhileAlone, AtMostOneWorker, WorkerIsFlagged
  <2>5. ASSUME ~overlap', ~wentBack'
        PROVE  NoneIsNewer' /\ ResultIsNewer'
    <3>1. NoneIsNewer /\ running' = {w}
      BY <2>1, <2>2, <2>5 DEF IInv, WhileForward
    <3>2. \A f \in Feeds : result[w][f] = Nil
      BY <2>1 DEF IInv, IdleHoldsNothing
    <3>3. Nil <= source
      BY <1>0 DEF TypeOK, Version, Nil
    <3>4. QED
      BY <2>1, <3>1, <3>2, <3>3 DEF NoneIsNewer, ResultIsNewer
  <2>6. QED
    BY <2>3, <2>4, <2>5 DEF WhileForward
\* Alone, it was the only worker, and installs what is newer.
<1>5. ASSUME NEW w \in Workers, Install(w)
      PROVE  Rest'
  <2>1. /\ source' = source /\ live' = Merged(w) /\ w \in running
        /\ running' = running \ {w}
        /\ result' = [result EXCEPT ![w] = [f \in Feeds |-> Nil]]
        /\ overlap' = (overlap \/ FALSE) /\ wentBack' = (wentBack \/ FALSE)
    BY <1>5 DEF Install, Remember
  <2>2. IdleHoldsNothing'
    BY <1>0, <2>1 DEF IInv, TypeOK, IdleHoldsNothing
  <2>3. ~overlap' => running' = {}
    BY <2>1 DEF IInv, WhileAlone, AtMostOneWorker
  <2>4. WhileAlone'
    BY <2>3 DEF WhileAlone, AtMostOneWorker, WorkerIsFlagged
  <2>5. ASSUME ~overlap', ~wentBack'
        PROVE  NoneIsNewer' /\ ResultIsNewer'
    <3>1. NoneIsNewer
      BY <2>1, <2>5 DEF IInv, WhileForward
    <3>2. \A f \in Feeds : live'[f] <= source'
      BY <2>1, <3>1 DEF NoneIsNewer, Merged
    <3>3. QED
      BY <2>3, <2>5, <3>2 DEF NoneIsNewer, ResultIsNewer
  <2>6. QED
    BY <2>2, <2>4, <2>5 DEF WhileForward
\* A feed just computed is the snapshot's; what is served is not newer.
<1>6. ASSUME NEW w \in Workers, NEW f \in Feeds, NEW v \in {source, Nil},
             Compute(w, f, v)
      PROVE  Rest'
  <2>1. /\ UNCHANGED <<source, live, inFlight, running>> /\ w \in running
        /\ result' = [result EXCEPT ![w][f] = v]
        /\ overlap' = (overlap \/ FALSE) /\ wentBack' = (wentBack \/ FALSE)
    BY <1>6 DEF Compute, Remember, cacheVars
  <2>2. IdleHoldsNothing' /\ WhileAlone'
    BY <1>0, <2>1 DEF IInv, TypeOK, IdleHoldsNothing, WhileAlone,
                      AtMostOneWorker, WorkerIsFlagged
  <2>3. ASSUME ~overlap', ~wentBack'
        PROVE  NoneIsNewer' /\ ResultIsNewer'
    <3>1. NoneIsNewer /\ ResultIsNewer
      BY <2>1, <2>3 DEF IInv, WhileForward
    <3>2. v <= source
      BY <1>0 DEF TypeOK, Version, Nil
    <3>3. \A x \in running, g \in Feeds :
              result'[x][g] = IF x = w /\ g = f THEN v ELSE result[x][g]
      BY <1>0, <2>1 DEF TypeOK
    <3>4. QED
      BY <2>1, <3>1, <3>2, <3>3 DEF NoneIsNewer, ResultIsNewer
  <2>4. QED
    BY <2>2, <2>3 DEF WhileForward
<1>7. QED
  BY <1>0, <1>1, <1>2, <1>3, <1>4, <1>5, <1>6 DEF Next, IInv

\* The inductive invariant holds for ever.
LEMMA Invariance == Spec => []IInv
<1>1. Init => IInv
  BY IInvInit
<1>2. IInv /\ [Next]_vars => IInv'
  BY IInvStep
<1>3. QED
  BY <1>1, <1>2, PTL DEF Spec

-----------------------------------------------------------------------------
(* The theorems *)

\* live is only written by Install.
LEMMA OnlyInstallServes ==
    ASSUME Next, ~\E w \in Workers : Install(w)
    PROVE  live' = live
  BY DEF Next, Change, Tick, Kick, Compute, cacheVars

\* A feed that was served once is served for good.
THEOREM NeverUnwarm == Spec => FeedsNeverUnwarm
<1> DEFINE Kept == \A f \in Feeds : live[f] # Nil => live'[f] # Nil
<1>1. IInv /\ [Next]_vars => [Kept]_vars
  <2> SUFFICES ASSUME IInv, Next
               PROVE  Kept
    OBVIOUS
  <2>1. ASSUME NEW w \in Workers, Install(w)
        PROVE  Kept
    BY <2>1 DEF Install, Merged
  <2>2. QED
    BY <2>1, OnlyInstallServes
<1>2. QED
  BY <1>1, Invariance, PTL DEF Spec, FeedsNeverUnwarm

\* No feed goes back to an older value, whatever fails, until recomputes
\* overlap or the snapshot itself goes back.
THEOREM Monotone == Spec => FeedsMonotone
<1> DEFINE Forward ==
        ~overlap' /\ ~wentBack' => \A f \in Feeds : live'[f] >= live[f]
<1>1. IInv /\ [Next]_vars => [Forward]_vars
  <2> SUFFICES ASSUME IInv, Next, ~overlap', ~wentBack', NEW f \in Feeds
               PROVE  live'[f] >= live[f]
    BY DEF Forward
  <2>1. live[f] \in Int
    BY DEF IInv, TypeOK, Version, Nil
  <2>2. ResultIsNewer
    BY Remembered DEF IInv, WhileForward
  <2>3. ASSUME NEW w \in Workers, Install(w)
        PROVE  live'[f] >= live[f]
    <3>1. /\ live'[f] = IF result[w][f] = Nil THEN live[f] ELSE result[w][f]
          /\ w \in running
      BY <2>3 DEF Install, Merged
    <3>2. QED
      BY <2>1, <2>2, <3>1 DEF ResultIsNewer
  <2>4. QED
    BY <2>1, <2>3, OnlyInstallServes
<1>2. QED
  BY <1>1, Invariance, PTL DEF Spec, FeedsMonotone

\* Two recomputes overlap for the first time only when the one in flight
\* was started liveRefreshStuck ago.
THEOREM FirstOverlap == Spec => FirstOverlapIsStuck
<1> DEFINE Allowed == ~overlap /\ overlap' => kickedAge = RefreshStuck
<1>1. IInv /\ [Next]_vars => [Allowed]_vars
  <2> SUFFICES ASSUME IInv, Next, ~overlap, overlap'
               PROVE  kickedAge = RefreshStuck
    BY DEF Allowed
  <2>1. PICK w \in Workers : Kick(w)
    BY Zenon DEF Next, Change, Tick, Install, Compute, Remember
  <2>2. running # {} /\ inFlight
    BY <2>1 DEF Kick, Remember, IInv, WhileAlone, WorkerIsFlagged
  <2>3. QED
    BY <2>1, <2>2 DEF Kick, Due
<1>2. QED
  BY <1>1, Invariance, PTL DEF Spec, FirstOverlapIsStuck
=============================================================================
