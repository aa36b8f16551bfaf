--------------------------- MODULE MempoolProofs ---------------------------
(***************************************************************************)
(* What Mempool promises, for every number of callers, every choice of     *)
(* thresholds and any number of changes.                                   *)
(*                                                                         *)
(* The promises are made as long as no two fetches overlapped, so the      *)
(* inductive invariant says what one fetch knows: that nothing else clears *)
(* dirty or replaces the snapshot while it is in flight, and that its      *)
(* answer is newer than both what it replaces and every notification       *)
(* handled before it began.                                                *)
(***************************************************************************)
EXTENDS Mempool, TLAPS

AtMostOneFetch == \A c, d \in Callers : InFlight(c) /\ InFlight(d) => c = d

FetchIsFlagged == \A c \in Callers : InFlight(c) => fetching

\* A notification handled during a fetch is visible to it twice: gen moved
\* on, and dirty is set.
FetchSeesChange ==
    \A c \in Callers :
        InFlight(c) => startGen[c] <= gen /\ (startGen[c] < gen => dirty)

AnswerIsCurrent ==
    \A c \in Callers :
        pc[c] = "answered" => /\ entries <= resp[c]
                              /\ startGen[c] = gen => delivered <= resp[c]

CountedIsPast == \A c \in Callers : counted[c] <= entries

WhileAlone ==
    ~overlap => /\ AtMostOneFetch
                /\ FetchIsFlagged
                /\ FetchSeesChange
                /\ AnswerIsCurrent
                /\ CountedIsPast

IInv == /\ TypeOK
        /\ QueueMatchesEntries
        /\ ReadsFindSnapshot
        /\ WhileAlone
        /\ CleanMeansCaughtUp

-----------------------------------------------------------------------------
(* Type correctness *)

\* The initial state has the right types.
LEMMA TypeInit == Init => TypeOK
<1> SUFFICES ASSUME Init
             PROVE  TypeOK
  OBVIOUS
<1>1. dirty \in BOOLEAN /\ fetching \in BOOLEAN /\ overlap \in BOOLEAN
  BY Zenon DEF Init
<1>2. QED
  BY <1>1, AgesAssumption, BoundsAssumption
  DEF AgesAssumption, BoundsAssumption, Init, TypeOK, Version, PCs, Ops, Nil

\* No step of the service, the node or the clock leaves the types.
LEMMA TypeStep == TypeOK /\ [Next]_vars => TypeOK'
<1> SUFFICES ASSUME TypeOK, [Next]_vars
             PROVE  TypeOK'
  OBVIOUS
<1> USE CallersAssumption, CallsAssumption, AgesAssumption, BoundsAssumption
<1> USE DEF CallersAssumption, CallsAssumption, AgesAssumption,
            BoundsAssumption, TypeOK, Version, PCs, Ops, Nil, nodeVars,
            cacheVars, callerVars
<1>1. CASE Change
  BY <1>1 DEF Change
<1>2. CASE NotifyTx
  BY <1>2 DEF NotifyTx, MarkDirty
<1>3. CASE NotifyBlock
  BY <1>3 DEF NotifyBlock, Invalidate
<1>4. CASE Tick
  BY <1>4 DEF Tick
<1>5. ASSUME NEW c \in Callers, NEW o \in Calls, Call(c, o)
      PROVE  TypeOK'
  BY <1>5 DEF Call
<1>6. ASSUME NEW c \in Callers, ServeCached(c)
      PROVE  TypeOK'
  BY <1>6 DEF ServeCached
<1>7. ASSUME NEW c \in Callers, StartFetch(c)
      PROVE  TypeOK'
  BY <1>7 DEF StartFetch, InFlight
<1>8. ASSUME NEW c \in Callers, FetchFailed(c)
      PROVE  TypeOK'
  <2>1. fetching' \in BOOLEAN
    BY <1>8, Zenon DEF FetchFailed
  <2>2. QED
    BY <1>8, <2>1 DEF FetchFailed, Return
<1>9. ASSUME NEW c \in Callers, Install(c)
      PROVE  TypeOK'
  <2>1. fetching' \in BOOLEAN /\ dirty' \in BOOLEAN
    BY <1>9, Zenon DEF Install, StillDirty
  <2>2. QED
    BY <1>9, <2>1 DEF Install, StillDirty
<1>10. ASSUME NEW c \in Callers, ReadSnapshot(c)
      PROVE  TypeOK'
  BY <1>10 DEF ReadSnapshot, Return
<1>11. ASSUME NEW c \in Callers, ReadQueue(c)
      PROVE  TypeOK'
  BY <1>11 DEF ReadQueue, Return
<1>12. ASSUME NEW c \in Callers, LookupInvalidate(c)
      PROVE  TypeOK'
  BY <1>12 DEF LookupInvalidate, Invalidate
<1>13. ASSUME NEW c \in Callers, Answer(c)
      PROVE  TypeOK'
  BY <1>13 DEF Answer
<1>14. ASSUME NEW c \in Callers, AnswerError(c)
      PROVE  TypeOK'
  BY <1>14 DEF AnswerError
<1>15. CASE UNCHANGED vars
  BY <1>15 DEF vars
<1>16. QED
  BY <1>1, <1>2, <1>3, <1>4, <1>5, <1>6, <1>7, <1>8, <1>9, <1>10, <1>11,
     <1>12, <1>13, <1>14, <1>15 DEF Next, CallerStep

\* Every variable stays in its type.
THEOREM TypeCorrect == Spec => []TypeOK
<1>1. Init => TypeOK
  BY TypeInit
<1>2. TypeOK /\ [Next]_vars => TypeOK'
  BY TypeStep
<1>3. QED
  BY <1>1, <1>2, PTL DEF Spec

-----------------------------------------------------------------------------
(* The inductive invariant *)

\* The inductive invariant holds at the start.
LEMMA IInvInit == Init => IInv
<1> SUFFICES ASSUME Init
             PROVE  IInv
  OBVIOUS
<1>1. TypeOK
  BY TypeInit
<1>2. QueueMatchesEntries /\ ReadsFindSnapshot
  BY DEF Init, QueueMatchesEntries, ReadsFindSnapshot
<1>3. CleanMeansCaughtUp
  BY DEF Init, CleanMeansCaughtUp
<1>4. \A c \in Callers : ~InFlight(c)
  BY DEF Init, InFlight
<1>5. CountedIsPast
  <2>1. \A c \in Callers : counted[c] = entries
    BY DEF Init
  <2>2. entries <= entries
    BY DEF Init, Nil
  <2>3. QED
    BY <2>1, <2>2, Zenon DEF CountedIsPast
<1>6. \A c \in Callers : pc[c] # "answered"
  BY DEF Init
<1>7. WhileAlone
  BY <1>4, <1>5, <1>6 DEF WhileAlone, AtMostOneFetch, FetchIsFlagged,
     FetchSeesChange, AnswerIsCurrent
<1>8. QED
  BY <1>1, <1>2, <1>3, <1>7 DEF IInv

\* A fetch that starts before any other overlapped it is the only one.
LEMMA StartAlone ==
    ASSUME IInv, NEW c \in Callers, StartFetch(c), ~overlap'
    PROVE  \A d \in Callers : ~InFlight(d)
<1>1. \A d \in Callers \ {c} : ~InFlight(d)
  BY Zenon DEF StartFetch
<1>2. ~InFlight(c)
  BY DEF StartFetch, InFlight
<1>3. QED
  BY <1>1, <1>2

\* Each step keeps what a fetch in flight knows.
LEMMA IInvStep == IInv /\ [Next]_vars => IInv'
<1> SUFFICES ASSUME IInv, [Next]_vars
             PROVE  IInv'
  OBVIOUS
<1>0. TypeOK /\ TypeOK'
  BY TypeStep DEF IInv
<1> DEFINE Rest == /\ QueueMatchesEntries /\ ReadsFindSnapshot
                   /\ WhileAlone /\ CleanMeansCaughtUp
<1> USE <1>0
<1> USE DEF IInv, TypeOK, Nil, Version, nodeVars, cacheVars, callerVars,
            InFlight, QueueMatchesEntries, ReadsFindSnapshot, WhileAlone,
            CleanMeansCaughtUp
\* The node moves on: nothing the service knows changes.
<1>1. CASE Change
  BY <1>1 DEF Change, AtMostOneFetch, FetchIsFlagged, FetchSeesChange,
     AnswerIsCurrent, CountedIsPast
\* A notification: dirty is set, so the snapshot claims nothing, and gen
\* moves past every startGen, so no answer claims to be current.
<1>2. CASE NotifyTx \/ NotifyBlock
  <2>1. /\ dirty' = TRUE /\ gen' = gen + 1
        /\ UNCHANGED <<entries, queue, fetching, pc, startGen, resp, counted,
                       overlap>>
    BY <1>2 DEF NotifyTx, NotifyBlock, MarkDirty, Invalidate
  <2>2. ~overlap => AtMostOneFetch' /\ FetchIsFlagged' /\ CountedIsPast'
    BY <2>1 DEF AtMostOneFetch, FetchIsFlagged, CountedIsPast
  <2>3. ~overlap => FetchSeesChange'
    BY <2>1 DEF FetchSeesChange
  <2>4. ~overlap => AnswerIsCurrent'
    BY <2>1 DEF AnswerIsCurrent, FetchSeesChange
  <2>5. QED
    BY <2>1, <2>2, <2>3, <2>4
<1>3. CASE Tick
  BY <1>3 DEF Tick, AtMostOneFetch, FetchIsFlagged, FetchSeesChange,
     AnswerIsCurrent, CountedIsPast
<1>4. ASSUME NEW c \in Callers, NEW o \in Calls, Call(c, o)
      PROVE  Rest'
  BY <1>4 DEF Call, AtMostOneFetch, FetchIsFlagged, FetchSeesChange,
     AnswerIsCurrent, CountedIsPast
<1>5. ASSUME NEW c \in Callers, ServeCached(c)
      PROVE  Rest'
  BY <1>5 DEF ServeCached, Fresh, FetchUnderway, AtMostOneFetch,
     FetchIsFlagged, FetchSeesChange,
     AnswerIsCurrent, CountedIsPast
\* A fetch starts with the current gen, alone or marking the overlap.
<1>6. ASSUME NEW c \in Callers, StartFetch(c)
      PROVE  Rest'
  <2>1. ~overlap' => \A d \in Callers : InFlight(d)' <=> d = c
    BY <1>6, StartAlone DEF StartFetch
  <2>2. ~overlap' => AtMostOneFetch' /\ FetchIsFlagged'
    BY <1>6, <2>1 DEF StartFetch, AtMostOneFetch, FetchIsFlagged
  <2>3. ~overlap' => FetchSeesChange'
    BY <1>6, <2>1 DEF StartFetch, FetchSeesChange
  <2>4. ~overlap' => AnswerIsCurrent' /\ CountedIsPast'
    BY <1>6 DEF StartFetch, AnswerIsCurrent, CountedIsPast
  <2>5. QED
    BY <1>6, <2>2, <2>3, <2>4 DEF StartFetch
<1>7. ASSUME NEW c \in Callers, FetchFailed(c)
      PROVE  Rest'
  BY <1>7 DEF FetchFailed, Return, AtMostOneFetch, FetchIsFlagged,
     FetchSeesChange, AnswerIsCurrent, CountedIsPast
\* The answer replaces the snapshot.  When dirty is cleared, nothing was
\* notified during the fetch and the answer covers all that was before.
<1>8. ASSUME NEW c \in Callers, Install(c)
      PROVE  Rest'
  <2>1. ~overlap => \A d \in Callers : ~InFlight(d)'
    BY <1>8 DEF Install, StillDirty, AtMostOneFetch
  <2>2. ~overlap => entries <= entries'
    BY <1>8 DEF Install, StillDirty, AnswerIsCurrent
  <2>3. ~overlap => CountedIsPast'
    BY <1>8, <2>2 DEF Install, StillDirty, CountedIsPast
  <2>4. CleanMeansCaughtUp'
    BY <1>8 DEF Install, StillDirty, AnswerIsCurrent, FetchSeesChange
  <2>5. WhileAlone'
    BY <1>8, <2>1, <2>3 DEF Install, StillDirty, AtMostOneFetch,
       FetchIsFlagged,
       FetchSeesChange, AnswerIsCurrent
  <2>6. QED
    BY <1>8, <2>4, <2>5 DEF Install, StillDirty
<1>9. ASSUME NEW c \in Callers, ReadSnapshot(c)
      PROVE  Rest'
  BY <1>9 DEF ReadSnapshot, Return, AtMostOneFetch, FetchIsFlagged,
     FetchSeesChange, AnswerIsCurrent, CountedIsPast
<1>10. ASSUME NEW c \in Callers, ReadQueue(c)
       PROVE  Rest'
  BY <1>10 DEF ReadQueue, Return, AtMostOneFetch, FetchIsFlagged,
     FetchSeesChange, AnswerIsCurrent, CountedIsPast
<1>11. ASSUME NEW c \in Callers, LookupInvalidate(c)
       PROVE  Rest'
  BY <1>11 DEF LookupInvalidate, Invalidate, AtMostOneFetch,
     FetchIsFlagged, FetchSeesChange, AnswerIsCurrent, CountedIsPast
\* The node answers with all it has: at least the snapshot, and at least
\* what it has notified of.
<1>12. ASSUME NEW c \in Callers, Answer(c)
       PROVE  Rest'
  <2>1. ~overlap => AnswerIsCurrent'
    BY <1>12 DEF Answer, AnswerIsCurrent
  <2>2. QED
    BY <1>12, <2>1 DEF Answer, AtMostOneFetch, FetchIsFlagged,
       FetchSeesChange, CountedIsPast
<1>13. ASSUME NEW c \in Callers, AnswerError(c)
       PROVE  Rest'
  BY <1>13 DEF AnswerError, AtMostOneFetch, FetchIsFlagged,
     FetchSeesChange, AnswerIsCurrent, CountedIsPast
<1>14. CASE UNCHANGED vars
  BY <1>14 DEF vars, AtMostOneFetch, FetchIsFlagged, FetchSeesChange,
     AnswerIsCurrent, CountedIsPast
<1>15. QED
  BY <1>1, <1>2, <1>3, <1>4, <1>5, <1>6, <1>7, <1>8, <1>9, <1>10, <1>11,
     <1>12, <1>13, <1>14 DEF Next, CallerStep

\* The inductive invariant holds for ever.
LEMMA Invariance == Spec => []IInv
<1>1. Init => IInv
  BY IInvInit
<1>2. IInv /\ [Next]_vars => IInv'
  BY IInvStep
<1>3. QED
  BY <1>1, <1>2, PTL DEF Spec

-----------------------------------------------------------------------------
(* The theorems *)

\* A successful refresh leaves a snapshot to read.
THEOREM ReadsSafe == Spec => []ReadsFindSnapshot
<1>1. IInv => ReadsFindSnapshot
  BY DEF IInv
<1>2. QED
  BY <1>1, Invariance, PTL

\* The memoised histogram belongs to the snapshot served beside it.
THEOREM QueueSafe == Spec => []QueueMatchesEntries
<1>1. IInv => QueueMatchesEntries
  BY DEF IInv
<1>2. QED
  BY <1>1, Invariance, PTL

\* Until two fetches overlap, a snapshot that is not marked dirty misses no
\* change the service was told of.
THEOREM CleanSafe == Spec => []CleanMeansCaughtUp
<1>1. IInv => CleanMeansCaughtUp
  BY DEF IInv
<1>2. QED
  BY <1>1, Invariance, PTL

\* The first overlap of two fetches happens at a cold start or beside a
\* fetch that has run for fetchStuck.
THEOREM FirstOverlap == Spec => FirstOverlapIsAllowed
<1> DEFINE Allowed ==
      ~overlap /\ overlap' => entries = Nil \/ fetchAge >= FetchStuck
<1>1. IInv /\ [Next]_vars => [Allowed]_vars
  <2> SUFFICES ASSUME IInv, Next, ~overlap, overlap'
               PROVE  entries = Nil \/ fetchAge >= FetchStuck
    BY DEF Allowed
  <2>1. PICK c \in Callers : StartFetch(c)
    BY Zenon DEF Next, CallerStep, Change, NotifyTx, NotifyBlock, Tick, Call,
       ServeCached, FetchFailed, Install, ReadSnapshot, ReadQueue,
       LookupInvalidate, Answer, AnswerError
  <2>2. PICK d \in Callers : InFlight(d)
    BY <2>1 DEF StartFetch
  <2>3. fetching
    BY <2>2 DEF IInv, WhileAlone, FetchIsFlagged
  <2>4. fetchAge \in Nat /\ FetchStuck \in Nat
    BY AgesAssumption DEF IInv, TypeOK, AgesAssumption
  <2>5. QED
    BY <2>1, <2>3, <2>4 DEF StartFetch, FetchUnderway
<1>2. QED
  BY <1>1, Invariance, PTL DEF Spec, FirstOverlapIsAllowed

\* Until two fetches overlap, no step takes the snapshot back in time.
THEOREM Monotone == Spec => SnapshotMonotone
<1> DEFINE Forward == ~overlap' => entries' >= entries
<1>1. IInv /\ [Next]_vars => [Forward]_vars
  <2> SUFFICES ASSUME IInv, Next, ~overlap'
               PROVE  entries' >= entries
    BY DEF Forward
  <2>1. entries \in Int
    BY DEF IInv, TypeOK, Nil
  <2>2. ASSUME NEW c \in Callers, Install(c)
        PROVE  entries' >= entries
    BY <2>1, <2>2 DEF Install, StillDirty, IInv, TypeOK, WhileAlone,
       AnswerIsCurrent
  <2>3. CASE ~\E c \in Callers : Install(c)
    <3>1. entries' = entries
      BY <2>3, Zenon DEF Next, CallerStep, Change, NotifyTx, NotifyBlock,
         Tick, Call, ServeCached, StartFetch, FetchFailed, ReadSnapshot,
         ReadQueue, LookupInvalidate, Answer, AnswerError, cacheVars
    <3>2. QED
      BY <2>1, <3>1
  <2>4. QED
    BY <2>2, <2>3
<1>2. QED
  BY <1>1, Invariance, PTL DEF Spec, SnapshotMonotone

\* Until two fetches overlap, the queue of the statistics is not older than
\* the transactions counted beside it.
THEOREM StatsForward == Spec => StatsQueueNotOlder
<1> DEFINE NotOlder ==
      \A c \in Callers :
         /\ op[c] = "queue" /\ pc[c] = "read" /\ pc'[c] = "idle"
         /\ ~overlap
         => queue' >= counted[c]
<1>1. IInv /\ [Next]_vars => [NotOlder]_vars
  <2> SUFFICES ASSUME IInv, Next, NEW c \in Callers, op[c] = "queue",
                      pc[c] = "read", pc'[c] = "idle", ~overlap
               PROVE  queue' >= counted[c]
    BY DEF NotOlder
  <2>1. ReadQueue(c)
    BY DEF Next, CallerStep, Change, NotifyTx, NotifyBlock, Tick, Call,
       ServeCached, StartFetch, FetchFailed, Install, ReadSnapshot,
       ReadQueue, LookupInvalidate, Answer, AnswerError, Return,
       callerVars, IInv, TypeOK
  <2>2. queue' = entries
    BY <2>1 DEF ReadQueue, IInv, QueueMatchesEntries
  <2>3. QED
    BY <2>2 DEF IInv, TypeOK, WhileAlone, CountedIsPast, Nil
<1>2. QED
  BY <1>1, Invariance, PTL DEF Spec, StatsQueueNotOlder
=============================================================================
