------------------------- MODULE BlockCachesProofs -------------------------
(***************************************************************************)
(* Theorems about BlockCaches, for every number of requests, addresses and *)
(* slots: no scan slot is lost or given away, since what a request does    *)
(* and the semaphore change together; and what is cached of a block        *)
(* interval and of an address's totals is not older than the last block    *)
(* unless a block, an arrival or an eviction overtook it on its way.       *)
(***************************************************************************)
EXTENDS BlockCaches, FiniteSetTheorems, SequenceTheorems, TLAPS

PCs == {"idle", "queued", "totals", "scan", "page", "measure"}

Working == {r \in Requests : pc[r] \in {"totals", "scan", "page"}}

IInv == /\ pc \in [Requests -> PCs]
        /\ slots = Cardinality(Working)

\* The requests that hold a slot are finitely many.
LEMMA WorkingFinite ==
    ASSUME IInv
    PROVE  /\ IsFiniteSet(Working) /\ Cardinality(Working) \in Nat
           /\ pc' \in [Requests -> PCs] => IsFiniteSet(Working')
<1>1. Working \subseteq Requests /\ Working' \subseteq Requests
  BY DEF Working
<1> QED
  BY <1>1, FS_Subset, FS_CardinalityType, RequestAssumption

\* A step that moves no request and takes no slot.
LEMMA Unmoved ==
    ASSUME IInv, UNCHANGED <<pc, slots>>
    PROVE  IInv'
BY DEF IInv, Working

\* A request that moves within its lookup, or outside of one.
LEMMA Moved ==
    ASSUME IInv, NEW r \in Requests, NEW where \in PCs, Goto(r, where),
           r \in Working <=> where \in {"totals", "scan", "page"},
           slots' = slots
    PROVE  IInv'
<1>1. pc' \in [Requests -> PCs]
  BY DEF IInv, Goto
<1>2. \A s \in Requests : pc'[s] = IF s = r THEN where ELSE pc[s]
  BY DEF IInv, Goto
<1>3. Working' = Working
  BY <1>2 DEF Working
<1> QED
  BY <1>1, <1>3 DEF IInv

\* A request that takes a slot begins to work ...
LEMMA Taken ==
    ASSUME IInv, NEW r \in Requests, r \notin Working, Goto(r, "totals"),
           slots' = slots + 1
    PROVE  IInv'
<1>1. pc' \in [Requests -> PCs]
  BY DEF IInv, Goto, PCs
<1>2. \A s \in Requests : pc'[s] = IF s = r THEN "totals" ELSE pc[s]
  BY DEF IInv, Goto
<1>3. Working' = Working \cup {r}
  BY <1>2 DEF Working
<1>4. Cardinality(Working') = Cardinality(Working) + 1
  BY <1>3, WorkingFinite, FS_AddElement
<1> QED
  BY <1>1, <1>4 DEF IInv

\* ... and one that is through gives it back.
LEMMA Released ==
    ASSUME IInv, NEW r \in Requests, r \in Working, Finish(r),
           slots' = slots - 1
    PROVE  IInv'
<1>1. pc' \in [Requests -> PCs]
  BY DEF IInv, Finish, Goto, PCs
<1>2. \A s \in Requests : pc'[s] = IF s = r THEN "idle" ELSE pc[s]
  BY DEF IInv, Finish, Goto
<1>3. Working' = Working \ {r}
  BY <1>2 DEF Working
<1>4. Cardinality(Working') = Cardinality(Working) - 1
  BY <1>3, WorkingFinite, FS_RemoveElement
<1> QED
  BY <1>1, <1>4 DEF IInv

\* The invariant of the slots holds at first, ...
LEMMA InitIInv == Init => IInv
<1> SUFFICES ASSUME Init
             PROVE  IInv
  OBVIOUS
<1>1. Working = {}
  BY DEF Init, Working
<1>2. pc \in [Requests -> PCs]
  BY DEF Init, PCs
<1> QED
  BY <1>1, <1>2, FS_EmptySet DEF Init, IInv

\* ... and every step keeps it.
LEMMA StepKeepsIInv == IInv /\ [Next]_vars => IInv'
<1> SUFFICES ASSUME IInv, [Next]_vars
             PROVE  IInv'
  OBVIOUS
<1> USE DEF PCs
<1>1. CASE NodeBlock
  BY <1>1, Unmoved DEF NodeBlock, request
<1>2. CASE TakeBlock
  BY <1>2, Unmoved DEF TakeBlock
<1>3. CASE TakeAnswer
  BY <1>3, Unmoved DEF TakeAnswer
<1>4. CASE Tick
  BY <1>4, Unmoved DEF Tick, request
<1>5. ASSUME NEW a \in Addresses, Arrive(a)
      PROVE  IInv'
  BY <1>5, Unmoved DEF Arrive
<1>6. ASSUME NEW a \in Addresses, Evict(a)
      PROVE  IInv'
  BY <1>6, Unmoved DEF Evict
<1>7. ASSUME NEW r \in Requests, NEW a \in Addresses, Lookup(r, a)
      PROVE  IInv'
  BY <1>7, Moved DEF Lookup, Working
<1>8. ASSUME NEW r \in Requests, NodeAnswers(r)
      PROVE  IInv'
  BY <1>8, Unmoved DEF NodeAnswers
<1>9. ASSUME NEW r \in Requests, Acquire(r)
      PROVE  IInv'
  BY <1>9, Taken DEF Acquire, Working
<1>10. ASSUME NEW r \in Requests, GiveUp(r)
       PROVE  IInv'
  BY <1>10, Moved DEF GiveUp, Working
<1>11. ASSUME NEW r \in Requests, LookInCache(r)
       PROVE  IInv'
  <2>1. PICK where \in {"page", "scan"} : Goto(r, where)
    BY <1>11 DEF LookInCache
  <2> QED
    BY <1>11, <2>1, Moved DEF LookInCache, Working
<1>12. ASSUME NEW r \in Requests, ScanFails(r)
       PROVE  IInv'
  BY <1>12, Released DEF ScanFails, Ready, Working
<1>13. ASSUME NEW r \in Requests, ScanOn(r)
       PROVE  IInv'
  BY <1>13, Unmoved DEF ScanOn
<1>14. ASSUME NEW r \in Requests, ScanEnds(r)
       PROVE  IInv'
  BY <1>14, Moved DEF ScanEnds, Ready, Working
<1>15. ASSUME NEW r \in Requests, Respond(r)
       PROVE  IInv'
  BY <1>15, Released DEF Respond, Ready, Working
<1>16. ASSUME NEW r \in Requests, Measured(r)
       PROVE  IInv'
  BY <1>16, Moved DEF Measured, Finish, Ready, Working
<1>17. ASSUME NEW r \in Measurers, Measure(r)
       PROVE  IInv'
  BY <1>17, Moved, MeasurerAssumption DEF Measure, Working
<1>18. CASE UNCHANGED vars
  BY <1>18, Unmoved DEF vars, request
<1> QED
  BY <1>1, <1>2, <1>3, <1>4, <1>5, <1>6, <1>7, <1>8, <1>9, <1>10, <1>11,
     <1>12, <1>13, <1>14, <1>15, <1>16, <1>17, <1>18 DEF Next

\* However lookups end, by an answer, an error, a wait that ran out or a
\* client that hung up, the semaphore holds one slot for each that works.
THEOREM SlotsSafe == Spec => []SlotsConserved
<1>1. Spec => []IInv
  BY InitIInv, StepKeepsIInv, PTL DEF Spec
<1>2. IInv => SlotsConserved
  BY DEF IInv, Working, SlotsConserved
<1> QED
  BY <1>1, <1>2, PTL

-----------------------------------------------------------------------------
(* The block interval *)

IntervalType == [ver : Nat, age : Nat, raced : BOOLEAN]
Tip == "tip"
Pages == "page"

\* The calls of requests.  A measurement that has its answer knows at least
\* what OnBlock has handled, or is marked as overtaken.
CallOK(r) ==
    /\ got[r].is \in {NoCall, Asked, Sent, Error, Tip, Pages}
    /\ got[r].is # NoCall => pc[r] \in {"scan", "page", "measure"}
    /\ got[r].is = Pages => pc[r] # "measure"
    /\ got[r].is = Tip => /\ pc[r] = "measure" /\ got[r].ver \in Nat
                          /\ raced[r] \/ got[r].ver >= handled.ver

\* An answer on the wire is for a request that waits for such a one, and a
\* tip is no older than what OnBlock has handled.
AnswerOK(m) ==
    /\ m.to \in Requests /\ got[m.to].is = Sent
    /\ m.what.is \in {Error, Tip, Pages}
    /\ m.what.is = Pages => pc[m.to] # "measure"
    /\ m.what.is = Tip => /\ pc[m.to] = "measure" /\ m.what.ver \in Nat
                          /\ handled.ver <= m.what.ver

MessageOK(m) ==
    \/ m.is = "block" /\ m.ver \in Nat /\ m.ver <= nodeVer
    \/ m.is = "answer" /\ AnswerOK(m)

\* Of two messages: a tip is no older than a block announced before it, and
\* no request is answered twice.
InOrder(m, n) ==
    n.is = "answer" =>
        /\ m.is = "block" /\ n.what.is = Tip => m.ver <= n.what.ver
        /\ m.is = "answer" => m.to # n.to

WireOK ==
    /\ \E S : wire \in Seq(S)
    /\ \A i \in 1..Len(wire) : MessageOK(wire[i])
    /\ \A i, j \in 1..Len(wire) : i < j => InOrder(wire[i], wire[j])

VersionsOK == nodeVer \in Nat /\ handled.ver \in Nat /\ handled.ver <= nodeVer

FunctionsOK ==
    /\ pc \in [Requests -> PCs]
    /\ raced \in [Requests -> BOOLEAN]
    /\ got = [r \in Requests |-> got[r]]
    /\ interval \in IntervalType

TipInv ==
    /\ FunctionsOK /\ VersionsOK /\ WireOK
    /\ \A r \in Requests : CallOK(r)
    /\ IntervalCurrent

\* The wire is left alone by a step of a request that has no answer on it.
LEMMA WireKept ==
    ASSUME WireOK, FunctionsOK, NEW r, got[r].is # Sent,
           \A s \in Requests \ {r} : pc'[s] = pc[s] /\ got'[s] = got[s],
           UNCHANGED <<wire, handled, nodeVer>>
    PROVE  WireOK'
<1>1. ASSUME NEW i \in 1..Len(wire)
      PROVE  MessageOK(wire[i])'
  <2>1. MessageOK(wire[i])
    BY DEF WireOK
  <2>2. CASE wire[i].is = "block" /\ wire[i].ver \in Nat /\ wire[i].ver <= nodeVer
    BY <2>2 DEF MessageOK
  <2>3. CASE wire[i].is = "answer" /\ AnswerOK(wire[i])
    <3>1. wire[i].to \in Requests \ {r}
      BY <2>3 DEF AnswerOK
    <3>2. QED
      BY <2>3, <3>1 DEF AnswerOK, MessageOK
  <2>4. QED
    BY <2>1, <2>2, <2>3 DEF MessageOK
<1>2. QED
  BY <1>1 DEF WireOK, InOrder

\* What takes the next message from the wire ...
LEMMA WireTail ==
    ASSUME WireOK, wire # <<>>, wire' = Tail(wire)
    PROVE  /\ \E S : wire' \in Seq(S)
           /\ \A i, j \in 1..Len(wire') : i < j => InOrder(wire'[i], wire'[j])
           /\ 1 \in 1..Len(wire)
           /\ \A i \in 1..Len(wire') : /\ i + 1 \in 1..Len(wire) /\ 1 < i + 1
                                       /\ wire'[i] = wire[i + 1]
<1>1. PICK S : wire \in Seq(S)
  BY DEF WireOK
<1>2. /\ wire' \in Seq(S) /\ Len(wire') = Len(wire) - 1 /\ Len(wire) \in Nat
      /\ Len(wire) > 0
      /\ \A i \in 1..Len(wire') : wire'[i] = wire[i + 1]
  BY <1>1
<1>3. \A i, j \in 1..Len(wire') :
          i < j => /\ i + 1 \in 1..Len(wire) /\ j + 1 \in 1..Len(wire)
                   /\ i + 1 < j + 1
  BY <1>2
<1>4. QED
  BY <1>2, <1>3 DEF WireOK

\* ... and what puts another one on it.
LEMMA WireAppend ==
    ASSUME WireOK, NEW m, wire' = Append(wire, m)
    PROVE  /\ \E S : wire' \in Seq(S)
           /\ Len(wire') = Len(wire) + 1 /\ Len(wire) \in Nat
           /\ \A i \in 1..Len(wire) : wire'[i] = wire[i]
           /\ wire'[Len(wire')] = m
<1>1. PICK S : wire \in Seq(S)
  BY DEF WireOK
<1>2. wire \in Seq(S \cup {m}) /\ m \in S \cup {m}
  BY <1>1
<1>3. QED
  BY <1>2

\* A step that moves no request but r, and no message.
OnlyMoves(r) ==
    /\ FunctionsOK'
    /\ \A s \in Requests \ {r} :
          pc'[s] = pc[s] /\ got'[s] = got[s] /\ raced'[s] = raced[s]
    /\ UNCHANGED <<wire, handled, nodeVer>>

\* A step of one request whose call is not on its way.
LEMMA RequestStep ==
    ASSUME TipInv, NEW r \in Requests, OnlyMoves(r), got[r].is # Sent,
           CallOK(r)', IntervalCurrent'
    PROVE  TipInv'
<1>1. WireOK'
  BY WireKept DEF TipInv, OnlyMoves
<1>2. VersionsOK'
  BY DEF TipInv, OnlyMoves, VersionsOK
<1>3. ASSUME NEW s \in Requests
      PROVE  CallOK(s)'
  <2>1. CASE s # r
    <3>1. CallOK(s)
      BY DEF TipInv
    <3>2. QED
      BY <2>1, <3>1 DEF OnlyMoves, CallOK
  <2>2. QED
    BY <2>1
<1>4. QED
  BY <1>1, <1>2, <1>3 DEF TipInv, OnlyMoves

\* The steps of a lookup, and the beginning of a measurement.
LEMMA LookupSteps ==
    ASSUME TipInv, NEW r \in Requests,
           \/ \E a \in Addresses : Lookup(r, a)
           \/ Acquire(r) \/ GiveUp(r) \/ LookInCache(r)
           \/ ScanFails(r) \/ ScanOn(r) \/ ScanEnds(r) \/ Respond(r)
           \/ Measure(r)
    PROVE  TipInv'
<1> USE DEF Goto, Call, Ready, Finish, Forget, Asked, Sent, Error, NoCall, Tip,
            Pages
<1>1. CallOK(r) /\ FunctionsOK /\ IntervalCurrent
  BY DEF TipInv
<1>2. IntervalCurrent' /\ interval' = interval
      /\ UNCHANGED <<wire, handled, nodeVer>>
  BY <1>1 DEF IntervalCurrent, Lookup, Acquire, GiveUp, LookInCache, ScanFails,
              ScanOn, ScanEnds, Respond, Measure, node, caches
<1>3. CASE (\E a \in Addresses : Lookup(r, a)) \/ Acquire(r) \/ GiveUp(r)
  <2>1. PICK where \in {"idle", "queued", "totals"} : Goto(r, where)
    BY <1>3 DEF Lookup, Acquire, GiveUp
  <2>2. pc[r] \in {"idle", "queued"} /\ UNCHANGED <<got, raced>>
    BY <1>3 DEF Lookup, Acquire, GiveUp
  <2>3. OnlyMoves(r)
    BY <1>1, <1>2, <2>1, <2>2 DEF OnlyMoves, FunctionsOK, PCs
  <2>4. got[r].is = NoCall /\ CallOK(r)'
    BY <1>1, <2>2 DEF CallOK
  <2>5. QED
    BY <1>2, <2>3, <2>4, RequestStep
<1>4. CASE LookInCache(r) \/ ScanOn(r) \/ ScanEnds(r) \/ Measure(r)
  <2>1. PICK where \in {"scan", "page", "measure"} : pc' = [pc EXCEPT ![r] = where]
    <3>1. CASE ScanOn(r)
      BY <1>1, <3>1 DEF ScanOn, FunctionsOK
    <3>2. QED
      BY <1>4, <3>1 DEF LookInCache, ScanEnds, Measure
  <2>2. got' = [got EXCEPT ![r] = [is |-> Asked]] /\ got[r].is # Sent
    BY <1>1, <1>4 DEF LookInCache, ScanOn, ScanEnds, Measure, CallOK
  <2>3. UNCHANGED raced \/ raced' = [raced EXCEPT ![r] = FALSE]
    BY <1>4 DEF LookInCache, ScanOn, ScanEnds, Measure
  <2>4. OnlyMoves(r)
    BY <1>1, <1>2, <2>1, <2>2, <2>3 DEF OnlyMoves, FunctionsOK, PCs
  <2>5. CallOK(r)'
    BY <1>1, <2>1, <2>2 DEF CallOK, FunctionsOK
  <2>6. QED
    BY <1>2, <2>2, <2>4, <2>5, RequestStep
<1>5. CASE ScanFails(r) \/ Respond(r)
  <2>1. Finish(r) /\ got[r].is # Sent
    BY <1>5 DEF ScanFails, Respond
  <2>2. OnlyMoves(r)
    BY <1>1, <1>2, <2>1 DEF OnlyMoves, FunctionsOK, PCs
  <2>3. CallOK(r)'
    BY <1>1, <2>1 DEF CallOK, FunctionsOK
  <2>4. QED
    BY <1>2, <2>1, <2>2, <2>3, RequestStep
<1>6. QED
  BY <1>3, <1>4, <1>5

\* What a measurement stores is as new as its answer.
LEMMA MeasuredStep ==
    ASSUME TipInv, NEW r \in Requests, Measured(r)
    PROVE  TipInv'
<1> USE DEF Goto, Ready, Finish, Forget, Asked, Sent, Error, NoCall, Tip, Pages
<1>1. CallOK(r) /\ FunctionsOK /\ VersionsOK
  BY DEF TipInv
<1>2. Finish(r) /\ got[r].is \in {Error, Tip}
  BY <1>1 DEF Measured, CallOK
<1>3. interval' = [ver |-> IF got[r].is = Error THEN 0 ELSE got[r].ver,
                   age |-> 0, raced |-> raced[r]]
      /\ UNCHANGED <<wire, handled, nodeVer>>
  BY DEF Measured, node
<1>4. interval' \in IntervalType /\ IntervalCurrent'
  BY <1>1, <1>2, <1>3 DEF CallOK, FunctionsOK, IntervalType, IntervalCurrent,
                          VersionsOK
<1>5. OnlyMoves(r)
  BY <1>1, <1>2, <1>3, <1>4 DEF OnlyMoves, FunctionsOK, PCs
<1>6. CallOK(r)'
  BY <1>1, <1>2 DEF CallOK, FunctionsOK
<1>7. QED
  BY <1>2, <1>4, <1>5, <1>6, RequestStep

\* Changes of a history may only mark more readers as overtaken.
LEMMA HistoryStep ==
    ASSUME TipInv, NEW a \in Addresses, Arrive(a) \/ Evict(a)
    PROVE  TipInv'
<1>1. /\ UNCHANGED <<wire, handled, nodeVer, got, pc, interval>>
      /\ raced' = [r \in Requests |-> raced[r] \/ r \in Scanning(a)]
  BY DEF Arrive, Evict, RacedBy, caches
<1>2. FunctionsOK' /\ VersionsOK' /\ WireOK' /\ IntervalCurrent'
  BY <1>1 DEF TipInv, FunctionsOK, VersionsOK, WireOK, InOrder, MessageOK,
              AnswerOK, IntervalCurrent
<1>3. ASSUME NEW r \in Requests
      PROVE  CallOK(r)'
  <2>1. CallOK(r) /\ (raced[r] => raced'[r])
    BY <1>1 DEF TipInv
  <2>2. QED
    BY <1>1, <2>1 DEF CallOK
<1>4. QED
  BY <1>2, <1>3 DEF TipInv

\* A block is announced after everything that is on the wire.
LEMMA NodeBlockStep ==
    ASSUME TipInv, NodeBlock
    PROVE  TipInv'
<1>1. /\ nodeVer' = nodeVer + 1
      /\ UNCHANGED <<handled, got, pc, raced, interval>>
      /\ \E m : m.is = "block" /\ m.ver = nodeVer' /\ wire' = Append(wire, m)
  BY DEF NodeBlock, caches, request
<1>2. WireOK /\ VersionsOK
  BY DEF TipInv
<1> PICK m : m.is = "block" /\ m.ver = nodeVer' /\ wire' = Append(wire, m)
  BY <1>1
<1>3. FunctionsOK' /\ VersionsOK' /\ IntervalCurrent'
      /\ \A r \in Requests : CallOK(r)'
  BY <1>1 DEF TipInv, FunctionsOK, VersionsOK, CallOK, IntervalCurrent
<1>4. MessageOK(m)'
  BY <1>1, <1>2 DEF MessageOK, VersionsOK
<1>5. /\ \E S : wire' \in Seq(S)
      /\ Len(wire') = Len(wire) + 1 /\ Len(wire) \in Nat
      /\ \A i \in 1..Len(wire) : wire'[i] = wire[i]
      /\ wire'[Len(wire')] = m
  BY <1>2, WireAppend
<1>6. ASSUME NEW i \in 1..Len(wire')
      PROVE  MessageOK(wire[i])'
  <2>1. CASE i = Len(wire')
    BY <1>4, <1>5, <2>1
  <2>2. CASE i \in 1..Len(wire)
    <3>1. MessageOK(wire[i])
      BY <1>2, <2>2 DEF WireOK
    <3>2. QED
      BY <1>1, <1>2, <1>5, <2>2, <3>1 DEF MessageOK, AnswerOK, VersionsOK
  <2>3. QED
    BY <1>5, <2>1, <2>2
<1>7. ASSUME NEW i \in 1..Len(wire'), NEW j \in 1..Len(wire'), i < j
      PROVE  InOrder(wire'[i], wire'[j])
  <2>1. CASE j = Len(wire')
    BY <1>5, <2>1 DEF InOrder
  <2>2. CASE j \in 1..Len(wire)
    BY <1>2, <1>5, <1>7, <2>2 DEF WireOK
  <2>3. QED
    BY <1>5, <2>1, <2>2
<1>8. WireOK'
  BY <1>5, <1>6, <1>7 DEF WireOK, InOrder
<1>9. QED
  BY <1>3, <1>8 DEF TipInv

\* An answer knows every block announced before it.
LEMMA NodeAnswersStep ==
    ASSUME TipInv, NEW r \in Requests, NodeAnswers(r)
    PROVE  TipInv'
<1> USE DEF Asked, Sent, Error, NoCall, Tip, Pages
<1>1. FunctionsOK /\ VersionsOK /\ WireOK /\ CallOK(r) /\ IntervalCurrent
  BY DEF TipInv
<1>2. PICK m : /\ m.is = "answer" /\ m.to = r /\ wire' = Append(wire, m)
               /\ m.what \in {[is |-> Error], Reply(r)}
  BY DEF NodeAnswers
<1>3. /\ got[r].is = Asked /\ got' = [got EXCEPT ![r] = [is |-> Sent]]
      /\ UNCHANGED <<nodeVer, handled, pc, raced, interval>>
  BY DEF NodeAnswers, node, caches
<1>4. /\ m.what.is \in {Error, Tip, Pages}
      /\ m.what.is = Pages => pc[r] # "measure"
      /\ m.what.is = Tip => pc[r] = "measure" /\ m.what.ver = nodeVer
  BY <1>1, <1>2, <1>3 DEF CallOK, Reply
<1>5. got'[r].is = Sent /\ \A s \in Requests \ {r} : got'[s] = got[s]
  BY <1>1, <1>3 DEF FunctionsOK
<1>6. MessageOK(m)'
  BY <1>1, <1>2, <1>3, <1>4, <1>5 DEF MessageOK, AnswerOK, VersionsOK
<1>7. FunctionsOK' /\ VersionsOK' /\ IntervalCurrent'
  BY <1>1, <1>3 DEF FunctionsOK, VersionsOK, IntervalCurrent
<1>8. ASSUME NEW s \in Requests
      PROVE  CallOK(s)'
  <2>1. CallOK(s)
    BY DEF TipInv
  <2>2. CASE s = r
    BY <1>3, <1>5, <2>1, <2>2 DEF CallOK
  <2>3. CASE s # r
    BY <1>3, <1>5, <2>1, <2>3 DEF CallOK
  <2>4. QED
    BY <2>2, <2>3
<1>9. /\ \E S : wire' \in Seq(S)
      /\ Len(wire') = Len(wire) + 1 /\ Len(wire) \in Nat
      /\ \A i \in 1..Len(wire) : wire'[i] = wire[i]
      /\ wire'[Len(wire')] = m
  BY <1>1, <1>2, WireAppend
<1>10. ASSUME NEW i \in 1..Len(wire)
       PROVE  /\ MessageOK(wire[i])'
              /\ wire[i].is = "answer" => wire[i].to # r
              /\ wire[i].is = "block" => wire[i].ver <= nodeVer
  <2>1. MessageOK(wire[i])
    BY <1>1 DEF WireOK
  <2>2. wire[i].is = "answer" => wire[i].to \in Requests \ {r}
    BY <1>3, <2>1 DEF MessageOK, AnswerOK
  <2>3. QED
    BY <1>3, <1>5, <1>9, <2>1, <2>2 DEF MessageOK, AnswerOK
<1>11. ASSUME NEW i \in 1..Len(wire')
       PROVE  MessageOK(wire[i])'
  <2>1. CASE i = Len(wire')
    BY <1>6, <1>9, <2>1
  <2>2. CASE i \in 1..Len(wire)
    <3>1. MessageOK(wire[i])'
      BY <1>10, <2>2
    <3>2. QED
      BY <1>9, <2>2, <3>1 DEF MessageOK, AnswerOK
  <2>3. QED
    BY <1>9, <2>1, <2>2
<1>12. ASSUME NEW i \in 1..Len(wire'), NEW j \in 1..Len(wire'), i < j
       PROVE  InOrder(wire'[i], wire'[j])
  <2>1. i \in 1..Len(wire) /\ wire'[i] = wire[i]
    BY <1>9, <1>12
  <2>2. CASE j = Len(wire')
    BY <1>2, <1>4, <1>9, <1>10, <2>1, <2>2 DEF InOrder
  <2>3. CASE j \in 1..Len(wire)
    BY <1>1, <1>9, <1>12, <2>1, <2>3 DEF WireOK
  <2>4. QED
    BY <1>9, <2>2, <2>3
<1>13. WireOK'
  BY <1>9, <1>11, <1>12 DEF WireOK, InOrder
<1>14. QED
  BY <1>7, <1>8, <1>13 DEF TipInv

\* A block is handled: the interval is forgotten, every measurement that has
\* its answer is overtaken, and the tips still to come are no older.
LEMMA TakeBlockStep ==
    ASSUME TipInv, TakeBlock
    PROVE  TipInv'
<1> USE DEF Asked, Sent, Error, NoCall, Tip, Pages
<1>1. /\ wire # <<>> /\ wire' = Tail(wire) /\ wire[1].is = "block"
      /\ handled'.ver = wire[1].ver /\ interval' = Unset
      /\ raced' = [r \in Requests |->
                      raced[r] \/ pc[r] \in {"scan", "measure"}]
      /\ UNCHANGED <<nodeVer, got, pc>>
  <2>1. \A r \in Requests :
            r \in {s \in Requests : pc[s] \in {"scan", "measure"}}
                <=> pc[r] \in {"scan", "measure"}
    OBVIOUS
  <2>2. wire # <<>> /\ Head(wire) = wire[1]
    BY DEF TakeBlock, TipInv, WireOK
  <2>3. QED
    BY <2>1, <2>2 DEF TakeBlock, OnBlock, RacedBy, node
<1>2. FunctionsOK /\ VersionsOK /\ WireOK
  BY DEF TipInv
<1>3. /\ \E S : wire' \in Seq(S)
      /\ \A i, j \in 1..Len(wire') : i < j => InOrder(wire'[i], wire'[j])
      /\ 1 \in 1..Len(wire)
      /\ \A i \in 1..Len(wire') : /\ i + 1 \in 1..Len(wire) /\ 1 < i + 1
                                  /\ wire'[i] = wire[i + 1]
  BY <1>1, <1>2, WireTail
<1>4. VersionsOK' /\ handled'.ver = wire[1].ver
  <2>1. MessageOK(wire[1])
    BY <1>2, <1>3 DEF WireOK
  <2>2. QED
    BY <1>1, <1>2, <2>1 DEF MessageOK, VersionsOK
<1>5. FunctionsOK' /\ IntervalCurrent'
  BY <1>1, <1>2, SizeAssumption
     DEF FunctionsOK, Unset, IntervalType, IntervalCurrent, SizeAssumption
<1>6. ASSUME NEW i \in 1..Len(wire')
      PROVE  MessageOK(wire[i])'
  <2>1. MessageOK(wire[i + 1]) /\ InOrder(wire[1], wire[i + 1])
    BY <1>2, <1>3 DEF WireOK
  <2>2. QED
    BY <1>1, <1>3, <2>1 DEF MessageOK, AnswerOK, InOrder
<1>7. WireOK'
  BY <1>3, <1>6 DEF WireOK, InOrder
<1>8. ASSUME NEW r \in Requests
      PROVE  CallOK(r)'
  <2>1. CallOK(r)
    BY DEF TipInv
  <2>2. QED
    BY <1>1, <2>1 DEF CallOK
<1>9. QED
  BY <1>4, <1>5, <1>7, <1>8 DEF TipInv

\* A request is woken: its answer knows what OnBlock has handled.
LEMMA TakeAnswerStep ==
    ASSUME TipInv, TakeAnswer
    PROVE  TipInv'
<1> USE DEF Asked, Sent, Error, NoCall, Tip, Pages
<1>1. /\ wire # <<>> /\ wire' = Tail(wire) /\ wire[1].is = "answer"
      /\ got' = [got EXCEPT ![wire[1].to] = wire[1].what]
      /\ UNCHANGED <<nodeVer, handled, pc, raced, interval>>
  <2>1. wire # <<>> /\ Head(wire) = wire[1]
    BY DEF TakeAnswer, TipInv, WireOK
  <2>2. QED
    BY <2>1 DEF TakeAnswer, node, caches
<1>2. FunctionsOK /\ VersionsOK /\ WireOK /\ IntervalCurrent
  BY DEF TipInv
<1>3. /\ \E S : wire' \in Seq(S)
      /\ \A i, j \in 1..Len(wire') : i < j => InOrder(wire'[i], wire'[j])
      /\ 1 \in 1..Len(wire)
      /\ \A i \in 1..Len(wire') : /\ i + 1 \in 1..Len(wire) /\ 1 < i + 1
                                  /\ wire'[i] = wire[i + 1]
  BY <1>1, <1>2, WireTail
<1>4. AnswerOK(wire[1])
  BY <1>1, <1>2, <1>3 DEF WireOK, MessageOK
<1>5. /\ got'[wire[1].to] = wire[1].what
      /\ \A s \in Requests \ {wire[1].to} : got'[s] = got[s]
  BY <1>1, <1>2, <1>4 DEF FunctionsOK, AnswerOK
<1>6. FunctionsOK' /\ VersionsOK' /\ IntervalCurrent'
  BY <1>1, <1>2, <1>4
     DEF FunctionsOK, VersionsOK, IntervalCurrent, AnswerOK
<1>7. ASSUME NEW i \in 1..Len(wire')
      PROVE  MessageOK(wire[i])'
  <2>1. MessageOK(wire[i + 1]) /\ InOrder(wire[1], wire[i + 1])
    BY <1>2, <1>3 DEF WireOK
  <2>2. QED
    BY <1>1, <1>3, <1>5, <2>1 DEF MessageOK, AnswerOK, InOrder
<1>8. WireOK'
  BY <1>3, <1>7 DEF WireOK, InOrder
<1>9. ASSUME NEW r \in Requests
      PROVE  CallOK(r)'
  <2>1. CallOK(r)
    BY DEF TipInv
  <2>2. CASE r = wire[1].to
    BY <1>1, <1>2, <1>4, <1>5, <2>1, <2>2 DEF CallOK, AnswerOK, VersionsOK
  <2>3. CASE r # wire[1].to
    BY <1>1, <1>5, <2>1, <2>3 DEF CallOK
  <2>4. QED
    BY <2>2, <2>3
<1>10. QED
  BY <1>6, <1>8, <1>9 DEF TipInv

\* Time only outdates the interval.
LEMMA TickStep ==
    ASSUME TipInv, Tick
    PROVE  TipInv'
<1>1. /\ interval' = [interval EXCEPT !.age = Older(@)]
      /\ UNCHANGED <<wire, handled, nodeVer, got, pc, raced>>
  BY DEF Tick, node, request
<1>2. FunctionsOK /\ WireOK /\ VersionsOK /\ IntervalCurrent
  BY DEF TipInv
<1>3. interval' \in IntervalType /\ IntervalCurrent'
  BY <1>1, <1>2, SizeAssumption
     DEF FunctionsOK, IntervalType, IntervalCurrent, Older, SizeAssumption
<1>4. FunctionsOK' /\ WireOK' /\ VersionsOK'
  BY <1>1, <1>2, <1>3 DEF FunctionsOK, WireOK, InOrder, MessageOK, AnswerOK,
                          VersionsOK
<1>5. \A r \in Requests : CallOK(r)'
  BY <1>1 DEF TipInv, CallOK
<1>6. QED
  BY <1>3, <1>4, <1>5 DEF TipInv

\* The invariant of the interval holds at first, ...
LEMMA TipInit == Init => TipInv
<1> SUFFICES ASSUME Init
             PROVE  TipInv
  OBVIOUS
<1>1. wire = <<>> /\ wire \in Seq({})
  BY DEF Init
<1>2. FunctionsOK /\ VersionsOK /\ IntervalCurrent
  BY SizeAssumption DEF Init, FunctionsOK, VersionsOK, IntervalCurrent, PCs,
                        Unset, IntervalType, SizeAssumption
<1>3. WireOK
  BY <1>1 DEF WireOK
<1>4. \A r \in Requests : CallOK(r)
  BY DEF Init, CallOK, NoCall, Tip, Pages
<1>5. QED
  BY <1>2, <1>3, <1>4 DEF TipInv

\* ... and every step keeps it.
LEMMA TipStep == TipInv /\ [Next]_vars => TipInv'
<1> SUFFICES ASSUME TipInv, [Next]_vars
             PROVE  TipInv'
  OBVIOUS
<1>1. CASE UNCHANGED vars
  <2>1. UNCHANGED <<wire, handled, nodeVer, got, pc, raced, interval>>
    BY <1>1 DEF vars, node, caches, request
  <2>2. QED
    BY <2>1 DEF TipInv, FunctionsOK, VersionsOK, WireOK, InOrder, MessageOK,
                AnswerOK, CallOK, IntervalCurrent
<1>2. ASSUME NEW r \in Measurers, Measure(r)
      PROVE  TipInv'
  BY <1>2, LookupSteps, MeasurerAssumption DEF MeasurerAssumption
<1>3. QED
  BY <1>1, <1>2, HistoryStep, NodeBlockStep, NodeAnswersStep, TakeBlockStep,
     TakeAnswerStep, TickStep, LookupSteps, MeasuredStep DEF Next

\* The cached block interval is as new as the last block handled, or marks
\* that a block overtook its measurement: no answer comes before a block
\* that was announced ahead of it.
THEOREM IntervalSafe == Spec => []IntervalCurrent
<1>1. TipInv => IntervalCurrent
  BY DEF TipInv
<1>2. QED
  BY <1>1, TipInit, TipStep, PTL DEF Spec

-----------------------------------------------------------------------------
(* The totals *)

\* What RemoveAt leaves.
LEMMA RemoveKeeps ==
    ASSUME NEW S, NEW s \in Seq(S), NEW i \in 1..Len(s)
    PROVE  /\ RemoveAt(s, i) \in Seq(S)
           /\ Range(RemoveAt(s, i)) \subseteq Range(s)
           /\ IsInjective(s) => IsInjective(RemoveAt(s, i))
<1>1. PICK n \in Nat : n = Len(s)
  OBVIOUS
<1>2. i \in 1..n /\ DOMAIN s = 1..n /\ \A k \in 1..n : s[k] \in S
  BY <1>1
<1>3. PICK u, v : u = SubSeq(s, 1, i - 1) /\ v = SubSeq(s, i + 1, n)
  OBVIOUS
<1>4. /\ u \in Seq(S) /\ Len(u) = i - 1
      /\ \A k \in 1..i - 1 : u[k] = s[k]
  <2>1. /\ u \in Seq(S) /\ Len(u) = IF 1 <= i - 1 THEN i - 1 - 1 + 1 ELSE 0
        /\ \A k \in 1..i - 1 - 1 + 1 : u[k] = s[1 + k - 1]
    BY <1>2, <1>3, SubSeqProperties
  <2>2. QED
    BY <1>2, <2>1
<1>5. /\ v \in Seq(S) /\ Len(v) = n - i
      /\ \A k \in 1..n - i : v[k] = s[k + i]
  <2>1. /\ v \in Seq(S) /\ Len(v) = IF i + 1 <= n THEN n - (i + 1) + 1 ELSE 0
        /\ \A k \in 1..n - (i + 1) + 1 : v[k] = s[i + 1 + k - 1]
    BY <1>2, <1>3, SubSeqProperties
  <2>2. \A k \in 1..n - i : i + 1 + k - 1 = k + i
    BY <1>2
  <2>3. QED
    BY <1>2, <2>1, <2>2
<1>6. PICK w : w = u \o v
  OBVIOUS
<1>7. /\ w \in Seq(S) /\ Len(w) = n - 1 /\ DOMAIN w = 1..n - 1
      /\ \A k \in 1..n - 1 : k < i => w[k] = s[k]
      /\ \A k \in 1..n - 1 : k >= i => w[k] = s[k + 1]
  <2>1. /\ w \in Seq(S) /\ Len(w) = Len(u) + Len(v)
        /\ \A k \in 1..Len(u) : w[k] = u[k]
        /\ \A k \in 1..Len(v) : w[Len(u) + k] = v[k]
    <3>1. \A x, y \in Seq(S) :
             /\ x \o y \in Seq(S) /\ Len(x \o y) = Len(x) + Len(y)
             /\ \A k \in 1..Len(x) : (x \o y)[k] = x[k]
             /\ \A k \in 1..Len(y) : (x \o y)[Len(x) + k] = y[k]
      OBVIOUS
    <3>2. QED
      BY <1>4, <1>5, <1>6, <3>1
  <2>2. Len(w) = n - 1 /\ DOMAIN w = 1..n - 1
    BY <1>2, <1>4, <1>5, <2>1
  <2>3. \A k \in 1..n - 1 : k < i => w[k] = s[k]
    BY <1>2, <1>4, <2>1
  <2>4. ASSUME NEW k \in 1..n - 1, k >= i
        PROVE  w[k] = s[k + 1]
    <3>1. PICK m \in 1..n - i : m = k - (i - 1)
      BY <1>2, <2>4
    <3>2. w[Len(u) + m] = v[m] /\ v[m] = s[m + i]
      BY <1>5, <2>1
    <3>3. Len(u) + m = k /\ m + i = k + 1
      BY <1>2, <1>4, <3>1
    <3>4. QED
      BY <3>2, <3>3
  <2>5. QED
    BY <2>1, <2>2, <2>3, <2>4
<1>8. Range(w) \subseteq Range(s)
  <2>1. \A k \in 1..n - 1 : k \in 1..n /\ k + 1 \in 1..n
    OBVIOUS
  <2>2. \A k \in 1..n - 1 : k < i \/ k >= i
    BY <1>2
  <2>3. ASSUME NEW k \in 1..n - 1
        PROVE  \E j \in 1..n : w[k] = s[j]
    <3>1. k < i => w[k] = s[k]
      BY <1>7
    <3>2. k >= i => w[k] = s[k + 1]
      BY <1>7
    <3>3. QED
      BY <2>1, <2>2, <3>1, <3>2
  <2>4. Range(w) = {w[k] : k \in 1..n - 1}
    BY <1>7 DEF Range
  <2>5. Range(s) = {s[k] : k \in 1..n}
    BY <1>2 DEF Range
  <2>6. QED
    BY <2>3, <2>4, <2>5
<1>9. ASSUME IsInjective(s)
      PROVE  IsInjective(w)
  <2>1. PICK at \in [1..n - 1 -> 1..n] :
           \A k \in 1..n - 1 : at[k] = IF k < i THEN k ELSE k + 1
    <3>1. [k \in 1..n - 1 |-> IF k < i THEN k ELSE k + 1] \in [1..n - 1 -> 1..n]
      BY <1>2
    <3>2. QED
      BY <3>1
  <2>2. \A k, m \in 1..n - 1 : at[k] = at[m] => k = m
    BY <1>2, <2>1
  <2>3. \A k \in 1..n - 1 : w[k] = s[at[k]]
    BY <1>2, <1>7, <2>1
  <2>4. \A x, y \in 1..n : s[x] = s[y] => x = y
    BY <1>2, <1>9 DEF IsInjective
  <2>5. ASSUME NEW x \in 1..n - 1, NEW y \in 1..n - 1, w[x] = w[y]
        PROVE  at[x] = at[y]
    <3>1. at[x] \in 1..n /\ at[y] \in 1..n
      BY <2>1
    <3>2. s[at[x]] = s[at[y]]
      BY <2>3, <2>5
    <3>3. QED
      BY <2>4, <3>1, <3>2
  <2>6. QED
    BY <1>7, <2>2, <2>5 DEF IsInjective
<1>10. RemoveAt(s, i) = w
  BY <1>1, <1>3, <1>6 DEF RemoveAt
<1>11. QED
  BY <1>7, <1>8, <1>9, <1>10

\* What is put in front of a list.
LEMMA InFront ==
    ASSUME NEW S, NEW s \in Seq(S), NEW e \in S
    PROVE  /\ <<e>> \o s \in Seq(S) /\ <<e>> \o s # <<>>
           /\ Range(<<e>> \o s) = Range(s) \cup {e}
           /\ IsInjective(s) /\ e \notin Range(s) => IsInjective(<<e>> \o s)
<1>1. PICK w : w = <<e>> \o s
  OBVIOUS
<1>2. /\ w \in Seq(S) /\ Len(w) = Len(s) + 1 /\ w[1] = e
      /\ Len(s) \in Nat /\ DOMAIN s = 1..Len(s) /\ DOMAIN w = 1..Len(s) + 1
      /\ \A k \in 2..Len(s) + 1 : w[k] = s[k - 1]
  BY <1>1
<1>3. \A k \in 1..Len(s) : w[k + 1] = s[k]
  BY <1>2
<1>4. Range(w) = Range(s) \cup {e}
  BY <1>2, <1>3 DEF Range
<1>5. IsInjective(s) /\ e \notin Range(s) => IsInjective(w)
  <2>1. SUFFICES ASSUME IsInjective(s), e \notin Range(s), NEW x \in DOMAIN w,
                        NEW y \in DOMAIN w, w[x] = w[y]
                 PROVE  x = y
    BY DEF IsInjective
  <2>2. \A k \in 2..Len(s) + 1 : w[k] \in Range(s)
    BY <1>2 DEF Range
  <2>3. CASE x \in 2..Len(s) + 1 /\ y \in 2..Len(s) + 1
    BY <1>2, <2>1, <2>3 DEF IsInjective
  <2>4. QED
    BY <1>2, <2>1, <2>2, <2>3
<1>6. QED
  BY <1>1, <1>2, <1>4, <1>5

\* get and put of the cache: no entry comes to be that was neither there nor
\* put.
LEMMA TouchKeeps ==
    ASSUME NEW S, NEW s \in Seq(S), NEW k
    PROVE  Lru!Touch(s, k) \in Seq(S) /\ Range(Lru!Touch(s, k)) \subseteq Range(s)
<1>1. CASE Lru!Has(s, k)
  <2>1. Lru!At(s, k) \in 1..Len(s)
    BY <1>1 DEF Lru!Has, Lru!At
  <2>2. PICK i \in 1..Len(s) : i = Lru!At(s, k)
    BY <2>1
  <2>3. s[i] \in S /\ s[i] \in Range(s)
    BY DEF Range
  <2>4. Lru!Touch(s, k) = <<s[i]>> \o RemoveAt(s, i)
    BY <1>1, <2>2 DEF Lru!Touch, Lru!RemoveAt, RemoveAt
  <2>5. QED
    BY <2>3, <2>4, RemoveKeeps, InFront
<1>2. CASE ~Lru!Has(s, k)
  BY <1>2 DEF Lru!Touch
<1>3. QED
  BY <1>1, <1>2

\* Put adds its entry to those there were, at most.
LEMMA PutKeeps ==
    ASSUME NEW S, NEW s \in Seq(S), NEW k, NEW v, NEW cap \in Nat,
           Lru!Entry(k, v) \in S
    PROVE  /\ Lru!Put(s, cap, k, v) \in Seq(S)
           /\ Range(Lru!Put(s, cap, k, v)) \subseteq Range(s) \cup {Lru!Entry(k, v)}
<1>1. PICK others : others = IF Lru!Has(s, k) THEN RemoveAt(s, Lru!At(s, k)) ELSE s
  OBVIOUS
<1>2. others \in Seq(S) /\ Range(others) \subseteq Range(s)
  <2>1. CASE Lru!Has(s, k)
    <3>1. Lru!At(s, k) \in 1..Len(s)
      BY <2>1 DEF Lru!Has, Lru!At
    <3>2. QED
      BY <1>1, <2>1, <3>1, RemoveKeeps
  <2>2. CASE ~Lru!Has(s, k)
    BY <1>1, <2>2
  <2>3. QED
    BY <2>1, <2>2
<1>3. PICK all : all = <<Lru!Entry(k, v)>> \o others
  OBVIOUS
<1>4. /\ all \in Seq(S) /\ all # <<>>
      /\ Range(all) \subseteq Range(s) \cup {Lru!Entry(k, v)}
  BY <1>2, <1>3, InFront
<1>5. Front(all) \in Seq(S) /\ Range(Front(all)) \subseteq Range(all)
  <2>1. Len(all) \in Nat \ {0} /\ DOMAIN all = 1..Len(all)
    BY <1>4
  <2>2. /\ Front(all) \in Seq(S) /\ Len(Front(all)) = Len(all) - 1
        /\ \A i \in 1..Len(all) - 1 : Front(all)[i] = all[i]
    BY <1>4, <2>1 DEF Front
  <2>3. QED
    BY <2>1, <2>2 DEF Range
<1>6. Lru!Put(s, cap, k, v) = IF Len(all) > cap THEN Front(all) ELSE all
  BY <1>1, <1>3 DEF Lru!Put, Lru!RemoveAt, RemoveAt, Lru!Front, Front
<1>7. QED
  BY <1>4, <1>5, <1>6

\* Histories name each transaction once, and none that is still to come.
HistOK ==
    /\ nTxs \in Nat
    /\ hist = [a \in Addresses |-> hist[a]]
    /\ \A a \in Addresses : hist[a] \in Seq(1..nTxs) /\ IsInjective(hist[a])
    /\ handled.txs \subseteq 1..nTxs
    /\ \A i \in 1..Len(wire) :
          wire[i].is = "block" => wire[i].txs \subseteq 1..nTxs

\* What a scan that nothing overtook is to read next, and what it has read.
Rest(r) == Page(r, skip[r], Count(r))
ReadOK(r) == /\ skip[r] <= Len(hist[addr[r]])
             /\ counted[r] = SubSeq(hist[addr[r]], 1, skip[r])
             /\ got[r].is = Pages => got[r].txs = Rest(r)

NothingRead(r) == skip[r] = 0 /\ counted[r] = <<>>

ScanOK(r) ==
    pc[r] = "scan" /\ ~raced[r] =>
        /\ ReadOK(r)
        /\ \A i \in 1..Len(wire) :
              wire[i].is = "answer" /\ wire[i].to = r /\ wire[i].what.is = Pages
                  => wire[i].what.txs = Rest(r)

\* The pages a scan has read leave something of the cap.
Skips == {k \in Nat : k < MaxScan}

LookupsOK ==
    /\ addr \in [Requests -> Addresses]
    /\ skip \in [Requests -> Skips]
    /\ counted = [r \in Requests |-> counted[r]]
    /\ \A r \in Requests : ScanOK(r) /\ (pc[r] # "scan" => NothingRead(r))

\* A scan begins with nothing read.
LEMMA NoSkip == 0 \in Skips
  BY ScanAssumption DEF Skips

\* An entry of s.totals.
TotalsEntry(a, txs, approximate, age, overtaken) ==
    [key |-> a, val |-> [txs |-> txs, approximate |-> approximate, age |-> age,
                         raced |-> overtaken]]
EntryShape(e) == \E a \in Addresses : \E txs, approximate, age, overtaken :
                    e = TotalsEntry(a, txs, approximate, age, overtaken)

\* Unless it was overtaken, it counts what it should, each once.
Counts(e) ==
    e.val.raced \/ /\ IsInjective(e.val.txs)
                   /\ \/ e.val.approximate
                      \/ handled.txs \cap Range(hist[e.key]) \subseteq Range(e.val.txs)

EntriesOK == /\ \E S : totals \in Seq(S)
             /\ \A e \in Range(totals) : EntryShape(e) /\ Counts(e)

TotInv == TipInv /\ HistOK /\ LookupsOK /\ EntriesOK

\* An entry that was right stays right while the histories only lose what was
\* there, or gain what no handled block knows.
LEMMA CountsKept ==
    ASSUME EntriesOK, UNCHANGED <<totals, handled>>,
           \A a \in Addresses : handled.txs \cap Range(hist'[a]) \subseteq Range(hist[a])
    PROVE  EntriesOK'
<1>1. ASSUME NEW e \in Range(totals)
      PROVE  Counts(e)'
  <2>1. Counts(e) /\ EntryShape(e)
    BY DEF EntriesOK
  <2>2. e.key \in Addresses
    BY <2>1 DEF EntryShape, TotalsEntry
  <2>3. QED
    BY <2>1, <2>2 DEF Counts
<1>2. \A e \in Range(totals) : EntryShape(e)'
  BY DEF EntriesOK, EntryShape
<1>3. QED
  BY <1>1, <1>2 DEF EntriesOK

\* Fewer of the same entries are right as well.
LEMMA FewerEntries ==
    ASSUME EntriesOK, UNCHANGED <<hist, handled>>, \E S : totals' \in Seq(S),
           Range(totals') \subseteq Range(totals)
    PROVE  EntriesOK'
<1>1. \A e : Counts(e) => Counts(e)'
  BY DEF Counts
<1>2. \A e : EntryShape(e) => EntryShape(e)'
  BY DEF EntryShape
<1>3. \A e \in Range(totals') : EntryShape(e)' /\ Counts(e)'
  BY <1>1, <1>2 DEF EntriesOK
<1>4. QED
  BY <1>3 DEF EntriesOK

\* A step that leaves the node, the wire, the totals and all lookups but r's
\* alone.
LEMMA OthersKept ==
    ASSUME TotInv, TipInv', NEW r \in Requests,
           UNCHANGED <<hist, nTxs, handled, wire>>, EntriesOK',
           \A s \in Requests \ {r} :
              /\ pc'[s] = pc[s] /\ got'[s] = got[s] /\ raced'[s] = raced[s]
              /\ addr'[s] = addr[s] /\ skip'[s] = skip[s]
              /\ counted'[s] = counted[s],
           addr' \in [Requests -> Addresses], skip' \in [Requests -> Skips],
           counted' = [s \in Requests |-> counted'[s]],
           got[r].is # Sent,
           pc'[r] # "scan" => NothingRead(r)',
           pc'[r] = "scan" /\ ~raced'[r] => ReadOK(r)'
    PROVE  TotInv'
<1>1. HistOK'
  BY DEF TotInv, HistOK
<1>2. \A i \in 1..Len(wire) : wire[i].is = "answer" => wire[i].to # r
  BY DEF TotInv, TipInv, WireOK, MessageOK, AnswerOK
<1>3. ASSUME NEW s \in Requests \ {r}
      PROVE  ScanOK(s)' /\ (pc'[s] # "scan" => NothingRead(s)')
  <2>1. ScanOK(s) /\ (pc[s] # "scan" => NothingRead(s))
    BY DEF TotInv, LookupsOK
  <2>2. Rest(s)' = Rest(s)
    BY DEF Rest, Page, Count, Smaller
  <2>3. QED
    BY <2>1, <2>2 DEF ScanOK, ReadOK, NothingRead
<1>4. ScanOK(r)'
  BY <1>2 DEF ScanOK
<1>5. LookupsOK'
  BY <1>3, <1>4 DEF LookupsOK
<1>6. QED
  BY <1>1, <1>5 DEF TotInv

\* What has been read with k transactions and the page after them, up to m.
Joined(h, k, c, m) ==
    /\ m \in 0..Len(h)
    /\ SubSeq(h, 1, k) \o SubSeq(h, k + 1, m) = SubSeq(h, 1, m)
    /\ Len(SubSeq(h, k + 1, m)) = c => m = k + c
    /\ Len(SubSeq(h, k + 1, m)) # c => m = Len(h)

\* The pages of a history that does not change are the history.
LEMMA PagesJoin ==
    ASSUME NEW S, NEW h \in Seq(S), NEW k \in Nat, k <= Len(h),
           NEW c \in Nat \ {0}, NEW m, m = Smaller(k + c, Len(h))
    PROVE  Joined(h, k, c, m)
<1>1. PICK n \in Nat : n = Len(h)
  OBVIOUS
<1>2. /\ m \in k..n /\ m \in 0..n /\ k \in 1 - 1..n
      /\ m = IF k + c < n THEN k + c ELSE n
  BY <1>1 DEF Smaller
<1>3. SubSeq(h, 1, k) \o SubSeq(h, k + 1, m) = SubSeq(h, 1, m)
  <2>1. 1 \in 1..Len(h) + 1 /\ k \in 1 - 1..Len(h) /\ m \in k..Len(h)
    BY <1>1, <1>2
  <2>2. QED
    BY <2>1, ConcatAdjacentSubSeq
<1>4. Len(SubSeq(h, k + 1, m)) = m - k
  <2>1. \A i \in k + 1..m : h[i] \in S
    BY <1>1, <1>2
  <2>2. Len(SubSeq(h, k + 1, m)) = IF k + 1 <= m THEN m - (k + 1) + 1 ELSE 0
    BY <1>2, <2>1, SubSeqProperties
  <2>3. QED
    BY <1>2, <2>2
<1>5. /\ m \in 0..n
      /\ m - k = c => m = k + c
      /\ m - k # c => m = n
  BY <1>2
<1>6. QED
  BY <1>1, <1>3, <1>4, <1>5 DEF Joined

\* What has been read of a history names nothing twice, and all of it once
\* everything has been read.
LEMMA PartOf ==
    ASSUME NEW S, NEW h \in Seq(S), IsInjective(h), NEW m \in 0..Len(h)
    PROVE  /\ IsInjective(SubSeq(h, 1, m))
           /\ m = Len(h) => Range(SubSeq(h, 1, m)) = Range(h)
<1>1. PICK u : u = SubSeq(h, 1, m)
  OBVIOUS
<1>2. /\ Len(h) \in Nat /\ DOMAIN h = 1..Len(h) /\ \A i \in 1..m : h[i] \in S
  OBVIOUS
<1>3. /\ u \in Seq(S) /\ Len(u) = m /\ \A i \in 1..m : u[i] = h[i]
  <2>1. /\ u \in Seq(S) /\ Len(u) = IF 1 <= m THEN m - 1 + 1 ELSE 0
        /\ \A i \in 1..m - 1 + 1 : u[i] = h[1 + i - 1]
    BY <1>1, <1>2, SubSeqProperties
  <2>2. QED
    BY <1>2, <2>1
<1>4. DOMAIN u = 1..m /\ IsInjective(u)
  BY <1>2, <1>3 DEF IsInjective
<1>5. m = Len(h) => u = h
  BY <1>1, SubSeqFull
<1>6. QED
  BY <1>1, <1>4, <1>5

\* Steps that do not read a history.
LEMMA IdleSteps ==
    ASSUME TotInv, TipInv', NEW r \in Requests,
           \/ \E a \in Addresses : Lookup(r, a)
           \/ Acquire(r) \/ GiveUp(r) \/ ScanFails(r) \/ Respond(r)
           \/ Measure(r) \/ Measured(r)
    PROVE  TotInv'
<1> USE DEF Goto, Call, Ready, Finish, Forget, Asked, Sent, Error, NoCall, Tip,
            Pages
<1>1. CallOK(r) /\ FunctionsOK /\ LookupsOK /\ EntriesOK
  BY DEF TotInv, TipInv
<1>2. UNCHANGED <<hist, nTxs, handled, wire, totals>>
  BY DEF Lookup, Acquire, GiveUp, ScanFails, Respond, Measure, Measured,
         node, caches
<1>3. EntriesOK'
  BY <1>1, <1>2, CountsKept
<1>4. CASE \/ \E a \in Addresses : Lookup(r, a)
           \/ Acquire(r) \/ GiveUp(r) \/ Measure(r)
  <2>1. PICK where \in {"idle", "queued", "totals", "measure"} :
             pc' = [pc EXCEPT ![r] = where]
    BY <1>4 DEF Lookup, Acquire, GiveUp, Measure
  <2>2. /\ pc[r] \in {"idle", "queued"} /\ UNCHANGED <<raced, skip, counted>>
        /\ got' = got \/ got' = [got EXCEPT ![r] = [is |-> Asked]]
        /\ addr' = addr \/ \E a \in Addresses : addr' = [addr EXCEPT ![r] = a]
    BY <1>4 DEF Lookup, Acquire, GiveUp, Measure
  <2>3. got[r].is # Sent /\ NothingRead(r)
    BY <1>1, <2>2 DEF CallOK, LookupsOK
  <2>4. /\ \A s \in Requests \ {r} : pc'[s] = pc[s] /\ got'[s] = got[s]
                                     /\ addr'[s] = addr[s]
        /\ pc'[r] # "scan" /\ addr' \in [Requests -> Addresses]
    BY <1>1, <2>1, <2>2 DEF FunctionsOK, LookupsOK
  <2>5. NothingRead(r)'
    BY <2>2, <2>3 DEF NothingRead
  <2>6. skip' \in [Requests -> Skips] /\ counted' = [s \in Requests |-> counted'[s]]
    BY <1>1, <2>2 DEF LookupsOK
  <2>7. QED
    BY <1>2, <1>3, <2>2, <2>3, <2>4, <2>5, <2>6, OthersKept
<1>5. CASE ScanFails(r) \/ Respond(r) \/ Measured(r)
  <2>1. Finish(r) /\ got[r].is # Sent /\ addr' = addr
    BY <1>5 DEF ScanFails, Respond, Measured
  <2>2. /\ \A s \in Requests \ {r} :
              /\ pc'[s] = pc[s] /\ got'[s] = got[s] /\ addr'[s] = addr[s]
              /\ skip'[s] = skip[s] /\ counted'[s] = counted[s]
              /\ raced'[s] = raced[s]
        /\ pc'[r] = "idle" /\ skip'[r] = 0 /\ counted'[r] = <<>>
        /\ addr' \in [Requests -> Addresses] /\ skip' \in [Requests -> Skips]
        /\ counted' = [s \in Requests |-> counted'[s]]
    BY <1>1, <2>1, NoSkip DEF FunctionsOK, LookupsOK
  <2>3. QED
    BY <1>2, <1>3, <2>1, <2>2, OthersKept DEF NothingRead
<1>6. QED
  BY <1>4, <1>5

\* A request that finds its totals, or begins to scan.
LEMMA LookInCacheStep ==
    ASSUME TotInv, TipInv', NEW r \in Requests, LookInCache(r)
    PROVE  TotInv'
<1> USE DEF Goto, Call, Asked, Sent, Error, NoCall, Tip, Pages
<1>1. CallOK(r) /\ FunctionsOK /\ LookupsOK /\ EntriesOK /\ HistOK
  BY DEF TotInv, TipInv
<1>2. /\ UNCHANGED <<hist, nTxs, handled, wire, addr, skip, counted, raced>>
      /\ totals' = Lru!Touch(totals, addr[r]) /\ pc[r] = "totals"
      /\ got' = [got EXCEPT ![r] = [is |-> Asked]]
      /\ pc' = [pc EXCEPT ![r] = "page"] \/ pc' = [pc EXCEPT ![r] = "scan"]
  BY DEF LookInCache, node
<1>3. EntriesOK'
  <2>1. PICK S : totals \in Seq(S)
    BY <1>1 DEF EntriesOK
  <2>2. QED
    BY <1>1, <1>2, <2>1, TouchKeeps, FewerEntries
<1>4. got[r].is # Sent /\ NothingRead(r)
  BY <1>1, <1>2 DEF CallOK, LookupsOK
<1>5. ReadOK(r)' /\ NothingRead(r)'
  <2>1. hist[addr[r]] \in Seq(1..nTxs)
    BY <1>1 DEF HistOK, LookupsOK
  <2>2. SubSeq(hist[addr[r]], 1, 0) = <<>> /\ 0 <= Len(hist[addr[r]])
    BY <2>1, SubSeqEmpty
  <2>3. got'[r].is = Asked
    BY <1>1, <1>2 DEF FunctionsOK
  <2>4. QED
    BY <1>2, <1>4, <2>2, <2>3 DEF ReadOK, NothingRead
<1>6. \A s \in Requests \ {r} : pc'[s] = pc[s] /\ got'[s] = got[s]
  BY <1>1, <1>2 DEF FunctionsOK
<1>7. /\ addr' \in [Requests -> Addresses] /\ skip' \in [Requests -> Skips]
      /\ counted' = [s \in Requests |-> counted'[s]]
  BY <1>1, <1>2 DEF LookupsOK
<1>8. QED
  BY <1>2, <1>3, <1>4, <1>5, <1>6, <1>7, OthersKept

\* What is known once a page has come for a scan that nothing overtook.
LEMMA PageRead ==
    ASSUME TotInv, NEW r \in Requests, pc[r] = "scan", ~raced[r],
           got[r].is = Pages,
           NEW m, m = Smaller(skip[r] + Count(r), Len(hist[addr[r]]))
    PROVE  /\ hist[addr[r]] \in Seq(1..nTxs) /\ IsInjective(hist[addr[r]])
           /\ skip[r] \in Nat /\ m \in 0..Len(hist[addr[r]])
           /\ counted[r] \o got[r].txs = SubSeq(hist[addr[r]], 1, m)
           /\ Len(got[r].txs) = Count(r) => m = skip[r] + Count(r)
           /\ Len(got[r].txs) # Count(r) => m = Len(hist[addr[r]])
<1>1. PICK h : h = hist[addr[r]]
  OBVIOUS
<1> PICK c : c = Count(r)
  OBVIOUS
<1>2. /\ h \in Seq(1..nTxs) /\ IsInjective(h) /\ skip[r] \in Nat
      /\ c \in Nat \ {0}
  <2>1. h \in Seq(1..nTxs) /\ IsInjective(h) /\ skip[r] \in Skips
    BY <1>1 DEF TotInv, HistOK, LookupsOK
  <2>2. QED
    BY <2>1, ScanAssumption DEF Skips, Count, Smaller
<1>3. /\ skip[r] <= Len(h) /\ counted[r] = SubSeq(h, 1, skip[r])
      /\ got[r].txs = SubSeq(h, skip[r] + 1, m)
  <2>1. m = Smaller(skip[r] + Count(r), Len(h))
    BY <1>1
  <2>2. ReadOK(r)
    BY DEF TotInv, LookupsOK, ScanOK
  <2>3. got[r].txs = SubSeq(h, skip[r] + 1, Smaller(skip[r] + Count(r), Len(h)))
    BY <1>1, <2>2 DEF ReadOK, Rest, Page
  <2>4. QED
    BY <1>1, <2>1, <2>2, <2>3 DEF ReadOK
<1>4. /\ m \in 0..Len(h)
      /\ SubSeq(h, 1, skip[r]) \o SubSeq(h, skip[r] + 1, m) = SubSeq(h, 1, m)
      /\ Len(SubSeq(h, skip[r] + 1, m)) = c => m = skip[r] + c
      /\ Len(SubSeq(h, skip[r] + 1, m)) # c => m = Len(h)
  <2>1. skip[r] <= Len(h) /\ m = Smaller(skip[r] + c, Len(h))
    BY <1>1, <1>3
  <2>2. Joined(h, skip[r], c, m)
    BY <1>2, <2>1, PagesJoin
  <2>3. QED
    BY <2>2 DEF Joined
<1>5. QED
  BY <1>1, <1>2, <1>3, <1>4

\* A request that adds a page and asks for the next, or is done.
LEMMA ScanOnStep ==
    ASSUME TotInv, TipInv', NEW r \in Requests, ScanOn(r)
    PROVE  TotInv'
<1> USE DEF Goto, Call, Ready, Asked, Sent, Error, NoCall, Tip, Pages
<1>1. CallOK(r) /\ FunctionsOK /\ LookupsOK /\ EntriesOK
  BY DEF TotInv, TipInv
<1> PICK read : read = counted[r] \o got[r].txs
  OBVIOUS
<1>2. /\ pc[r] = "scan" /\ got[r].is = "page" /\ Len(got[r].txs) = Count(r)
      /\ skip[r] + ScanChunk < MaxScan
      /\ counted' = [counted EXCEPT ![r] = read]
      /\ skip' = [skip EXCEPT ![r] = @ + ScanChunk]
      /\ got' = [got EXCEPT ![r] = [is |-> "asked"]]
      /\ UNCHANGED <<hist, nTxs, handled, wire, totals, pc, addr, raced>>
  BY DEF ScanOn, node, caches
<1>3. EntriesOK'
  BY <1>1, <1>2, CountsKept
<1>4. /\ counted'[r] = read
      /\ skip'[r] = skip[r] + ScanChunk /\ got'[r].is = "asked"
      /\ \A s \in Requests \ {r} : skip'[s] = skip[s] /\ counted'[s] = counted[s]
                                   /\ got'[s] = got[s]
      /\ addr' \in [Requests -> Addresses] /\ skip' \in [Requests -> Skips]
      /\ counted' = [s \in Requests |-> counted'[s]]
  <2>1. /\ counted'[r] = read /\ \A s \in Requests \ {r} : counted'[s] = counted[s]
        /\ counted' = [s \in Requests |-> counted'[s]]
    BY <1>1, <1>2 DEF LookupsOK
  <2>2. /\ got'[r].is = "asked" /\ \A s \in Requests \ {r} : got'[s] = got[s]
    BY <1>1, <1>2 DEF FunctionsOK
  <2>3. /\ skip'[r] = skip[r] + ScanChunk
        /\ \A s \in Requests \ {r} : skip'[s] = skip[s]
        /\ addr' \in [Requests -> Addresses] /\ skip' \in [Requests -> Skips]
    BY <1>1, <1>2, ScanAssumption DEF LookupsOK, Skips
  <2>4. QED
    BY <2>1, <2>2, <2>3
<1>5. ASSUME ~raced[r]
      PROVE  ReadOK(r)'
  <2>0. Count(r) = ScanChunk
    BY <1>1, <1>2, ScanAssumption DEF LookupsOK, Skips, Count, Smaller
  <2>1. PICK m : m = Smaller(skip[r] + Count(r), Len(hist[addr[r]]))
    OBVIOUS
  <2>2. /\ m \in 0..Len(hist[addr[r]]) /\ m = skip[r] + ScanChunk
        /\ hist[addr[r]] \in Seq(1..nTxs)
        /\ counted[r] \o got[r].txs = SubSeq(hist[addr[r]], 1, m)
    BY <1>2, <1>5, <2>0, <2>1, PageRead
  <2>3. m <= Len(hist[addr[r]])
    BY <2>2
  <2>4. QED
    BY <1>2, <1>4, <2>2, <2>3 DEF ReadOK
<1>6. QED
  BY <1>2, <1>3, <1>4, <1>5, OthersKept

\* What a scan stores is the history, or is marked as overtaken.
LEMMA ScanEndsStep ==
    ASSUME TotInv, TipInv', NEW r \in Requests, ScanEnds(r)
    PROVE  TotInv'
<1> USE DEF Goto, Call, Ready, Forget, Asked, Sent, Error, NoCall, Tip, Pages
<1>1. CallOK(r) /\ FunctionsOK /\ LookupsOK /\ EntriesOK
  BY DEF TotInv, TipInv
<1>2. PICK full : full = (Len(got[r].txs) = Count(r))
  OBVIOUS
<1>3. PICK e : e = TotalsEntry(addr[r], counted[r] \o got[r].txs, full, 0, raced[r])
  OBVIOUS
<1>4. PICK val : e = Lru!Entry(addr[r], val)
                 /\ val = [txs |-> counted[r] \o got[r].txs, approximate |-> full,
                           age |-> 0, raced |-> raced[r]]
  BY <1>3 DEF TotalsEntry, Lru!Entry
<1>5. /\ pc[r] = "scan" /\ got[r].is = "page"
      /\ totals' = Lru!Put(totals, CacheCap, addr[r], val)
      /\ pc' = [pc EXCEPT ![r] = "page"]
      /\ got' = [got EXCEPT ![r] = [is |-> "asked"]]
      /\ skip' = [skip EXCEPT ![r] = 0] /\ counted' = [counted EXCEPT ![r] = <<>>]
      /\ raced' = [raced EXCEPT ![r] = FALSE]
      /\ UNCHANGED <<hist, nTxs, handled, wire, addr>>
  BY <1>2, <1>4 DEF ScanEnds, node
<1>6. EntryShape(e)
  BY <1>1, <1>3 DEF EntryShape, LookupsOK
<1>7. Counts(e)
  <2>1. CASE raced[r]
    BY <1>3, <2>1 DEF Counts, TotalsEntry
  <2>2. CASE ~raced[r]
    <3>1. PICK m : m = Smaller(skip[r] + Count(r), Len(hist[addr[r]]))
      OBVIOUS
    <3>2. PICK h : h = hist[addr[r]]
      OBVIOUS
    <3>3. /\ h \in Seq(1..nTxs) /\ IsInjective(h) /\ m \in 0..Len(h)
          /\ counted[r] \o got[r].txs = SubSeq(h, 1, m)
          /\ ~full => m = Len(h)
      BY <1>2, <1>5, <2>2, <3>1, <3>2, PageRead
    <3>4. /\ IsInjective(SubSeq(h, 1, m))
          /\ ~full => Range(SubSeq(h, 1, m)) = Range(h)
      BY <3>3, PartOf
    <3>5. /\ e.key = addr[r] /\ e.val.txs = SubSeq(h, 1, m)
          /\ e.val.approximate = full
      BY <1>3, <3>3 DEF TotalsEntry
    <3>6. QED
      BY <3>2, <3>4, <3>5 DEF Counts
  <2>3. QED
    BY <2>1, <2>2
<1>8. EntriesOK'
  <2>1. PICK S : totals \in Seq(S \cup {e})
    <3>1. PICK S : totals \in Seq(S)
      BY <1>1 DEF EntriesOK
    <3>2. totals \in Seq(S \cup {e})
      BY <3>1
    <3>3. QED
      BY <3>2
  <2>2. totals' \in Seq(S \cup {e}) /\ Range(totals') \subseteq Range(totals) \cup {e}
    <3>1. PICK T : T = S \cup {e}
      OBVIOUS
    <3>2. totals \in Seq(T) /\ Lru!Entry(addr[r], val) \in T /\ CacheCap \in Nat
      BY <1>4, <2>1, <3>1, SizeAssumption
    <3>3. /\ Lru!Put(totals, CacheCap, addr[r], val) \in Seq(T)
          /\ Range(Lru!Put(totals, CacheCap, addr[r], val))
                \subseteq Range(totals) \cup {Lru!Entry(addr[r], val)}
      BY <3>2, PutKeeps
    <3>4. QED
      BY <1>4, <1>5, <3>1, <3>3
  <2>3. \A f \in Range(totals') : EntryShape(f) /\ Counts(f)
    BY <1>1, <1>6, <1>7, <2>2 DEF EntriesOK
  <2>4. ASSUME NEW f, EntryShape(f), Counts(f)
        PROVE  EntryShape(f)' /\ Counts(f)'
    BY <1>5, <2>4 DEF EntryShape, Counts
  <2>5. QED
    BY <2>2, <2>3, <2>4 DEF EntriesOK
<1>9. /\ pc'[r] = "page" /\ skip'[r] = 0 /\ counted'[r] = <<>>
      /\ \A s \in Requests \ {r} :
            /\ pc'[s] = pc[s] /\ got'[s] = got[s] /\ raced'[s] = raced[s]
            /\ skip'[s] = skip[s] /\ counted'[s] = counted[s]
      /\ addr' \in [Requests -> Addresses] /\ skip' \in [Requests -> Skips]
      /\ counted' = [s \in Requests |-> counted'[s]]
  BY <1>1, <1>5, NoSkip DEF FunctionsOK, LookupsOK
<1>10. QED
  BY <1>5, <1>8, <1>9, OthersKept DEF NothingRead

\* A sequence over a larger set.
LEMMA StillSeq ==
    ASSUME NEW S, NEW T, S \subseteq T, NEW s \in Seq(S)
    PROVE  s \in Seq(T)
  OBVIOUS

\* An arrival or an eviction: what was counted stays right, and a scan of
\* the history is marked.
LEMMA HistoryTotals ==
    ASSUME TotInv, TipInv', NEW a \in Addresses, Arrive(a) \/ Evict(a)
    PROVE  TotInv'
<1>1. HistOK /\ LookupsOK /\ EntriesOK
  BY DEF TotInv
<1>2. /\ UNCHANGED <<wire, handled, totals, pc, addr, got, skip, counted>>
      /\ \A r \in Requests : raced'[r] <=> raced[r] \/ r \in Scanning(a)
  BY DEF Arrive, Evict, RacedBy, caches
<1>3. \E n \in Nat : \E h \in Seq(1..n) :
          /\ nTxs' = n /\ 1..nTxs \subseteq 1..n
          /\ hist' = [hist EXCEPT ![a] = h] /\ IsInjective(h)
          /\ (1..nTxs) \cap Range(h) \subseteq Range(hist[a])
  <2>1. hist[a] \in Seq(1..nTxs) /\ IsInjective(hist[a]) /\ nTxs \in Nat
    BY <1>1 DEF HistOK
  <2>2. Range(hist[a]) \subseteq 1..nTxs
    BY <2>1 DEF Range
  <2>3. CASE Arrive(a)
    <3>1. PICK n : n = nTxs + 1
      OBVIOUS
    <3>2. n \in Nat /\ n \notin 1..nTxs /\ n \in 1..n /\ 1..nTxs \subseteq 1..n
      BY <2>1, <3>1
    <3>3. hist[a] \in Seq(1..n)
      BY <2>1, <3>2
    <3>4. PICK h : h = <<n>> \o hist[a]
      OBVIOUS
    <3>5. /\ h \in Seq(1..n) /\ Range(h) = Range(hist[a]) \cup {n} /\ IsInjective(h)
      BY <2>1, <2>2, <3>2, <3>3, <3>4, InFront
    <3>6. nTxs' = n /\ hist' = [hist EXCEPT ![a] = h]
      BY <2>3, <3>1, <3>4 DEF Arrive
    <3>7. (1..nTxs) \cap Range(h) \subseteq Range(hist[a])
      BY <3>2, <3>5
    <3>8. QED
      BY <3>2, <3>5, <3>6, <3>7
  <2>4. CASE Evict(a)
    <3>1. PICK i \in DOMAIN hist[a] : hist' = [hist EXCEPT ![a] = RemoveAt(@, i)]
      BY <2>4 DEF Evict
    <3>2. PICK h : h = RemoveAt(hist[a], i)
      OBVIOUS
    <3>3. i \in 1..Len(hist[a])
      BY <2>1
    <3>4. h \in Seq(1..nTxs) /\ Range(h) \subseteq Range(hist[a]) /\ IsInjective(h)
      BY <2>1, <3>2, <3>3, RemoveKeeps
    <3>5. nTxs' = nTxs /\ hist' = [hist EXCEPT ![a] = h]
      BY <2>4, <3>1, <3>2 DEF Evict
    <3>6. PICK n \in Nat : n = nTxs
      BY <2>1
    <3>7. h \in Seq(1..n) /\ nTxs' = n /\ 1..nTxs \subseteq 1..n
          /\ (1..nTxs) \cap Range(h) \subseteq Range(hist[a])
      BY <3>4, <3>5, <3>6
    <3>8. QED
      BY <3>4, <3>5, <3>7
  <2>5. QED
    BY <2>3, <2>4
<1> PICK n \in Nat : \E h \in Seq(1..n) :
          /\ nTxs' = n /\ 1..nTxs \subseteq 1..n
          /\ hist' = [hist EXCEPT ![a] = h] /\ IsInjective(h)
          /\ (1..nTxs) \cap Range(h) \subseteq Range(hist[a])
  BY <1>3
<1>4. PICK h \in Seq(1..n) :
            /\ nTxs' = n /\ 1..nTxs \subseteq 1..n
            /\ hist' = [hist EXCEPT ![a] = h] /\ IsInjective(h)
            /\ (1..nTxs) \cap Range(h) \subseteq Range(hist[a])
  OBVIOUS
<1>5. /\ hist' = [b \in Addresses |-> hist'[b]] /\ hist'[a] = h
      /\ \A b \in Addresses \ {a} : hist'[b] = hist[b]
  BY <1>1, <1>4 DEF HistOK
<1>6. HistOK'
  <2>1. 1..nTxs \subseteq 1..n
    BY <1>4
  <2>2. ASSUME NEW b \in Addresses
        PROVE  hist'[b] \in Seq(1..n) /\ IsInjective(hist'[b])
    <3>1. CASE b = a
      BY <1>4, <1>5, <3>1
    <3>2. CASE b # a
      <4>1. hist[b] \in Seq(1..nTxs) /\ IsInjective(hist[b])
        BY <1>1 DEF HistOK
      <4>2. hist[b] \in Seq(1..n)
        BY <2>1, <4>1, StillSeq
      <4>3. QED
        BY <1>5, <3>2, <4>1, <4>2
    <3>3. QED
      BY <3>1, <3>2
  <2>3. handled.txs \subseteq 1..n
        /\ \A i \in 1..Len(wire) :
              wire[i].is = "block" => wire[i].txs \subseteq 1..n
    BY <1>1, <2>1 DEF HistOK
  <2>4. QED
    BY <1>2, <1>4, <1>5, <2>2, <2>3 DEF HistOK
<1>7. EntriesOK'
  <2>1. \A b \in Addresses : handled.txs \cap Range(hist'[b]) \subseteq Range(hist[b])
    BY <1>1, <1>4, <1>5 DEF HistOK
  <2>2. QED
    BY <1>1, <1>2, <2>1, CountsKept
<1>8. ASSUME NEW r \in Requests
      PROVE  ScanOK(r)' /\ (pc'[r] # "scan" => NothingRead(r)')
  <2>1. ScanOK(r) /\ (pc[r] # "scan" => NothingRead(r))
    BY <1>1 DEF LookupsOK
  <2>2. NothingRead(r) => NothingRead(r)'
    BY <1>2 DEF NothingRead
  <2>3. ASSUME pc[r] = "scan", ~raced'[r]
        PROVE  ~raced[r] /\ hist'[addr[r]] = hist[addr[r]]
    <3>1. addr[r] \in Addresses \ {a} /\ ~raced[r]
      BY <1>1, <1>2, <2>3 DEF LookupsOK, Scanning
    <3>2. QED
      BY <1>5, <3>1
  <2>4. ScanOK(r)'
    <3>1. SUFFICES ASSUME pc'[r] = "scan", ~raced'[r]
                   PROVE  ScanOK(r)'
      BY DEF ScanOK
    <3>2. ~raced[r] /\ hist'[addr[r]] = hist[addr[r]] /\ pc[r] = "scan"
      BY <1>2, <2>3, <3>1
    <3>3. Rest(r)' = Rest(r)
      BY <1>2, <3>2 DEF Rest, Page, Count, Smaller
    <3>4. QED
      BY <1>2, <2>1, <3>2, <3>3 DEF ScanOK, ReadOK
  <2>5. QED
    BY <1>2, <2>1, <2>2, <2>4
<1>9. LookupsOK'
  BY <1>1, <1>2, <1>8 DEF LookupsOK
<1>10. QED
  BY <1>6, <1>7, <1>9 DEF TotInv

\* A block overtakes every scan under way.
LEMMA NodeBlockTotals ==
    ASSUME TotInv, TipInv', NodeBlock
    PROVE  TotInv'
<1>1. HistOK /\ LookupsOK /\ EntriesOK /\ WireOK
  BY DEF TotInv, TipInv
<1>2. /\ UNCHANGED <<hist, nTxs, handled, totals, pc, addr, got, skip, counted,
                     raced>>
      /\ \E m : /\ m.is = "block" /\ wire' = Append(wire, m)
                /\ m.txs = UNION {Range(hist[a]) : a \in Addresses}
  BY DEF NodeBlock, caches, request
<1> PICK m : /\ m.is = "block" /\ wire' = Append(wire, m)
             /\ m.txs = UNION {Range(hist[a]) : a \in Addresses}
  BY <1>2
<1>3. /\ Len(wire') = Len(wire) + 1 /\ Len(wire) \in Nat
      /\ \A i \in 1..Len(wire) : wire'[i] = wire[i]
      /\ wire'[Len(wire')] = m
  BY <1>1, WireAppend
<1>4. m.txs \subseteq 1..nTxs
  <2>1. \A a \in Addresses : Range(hist[a]) \subseteq 1..nTxs
    BY <1>1 DEF HistOK, Range
  <2>2. QED
    BY <2>1
<1>5. \A i \in 1..Len(wire') : \/ wire'[i] = m
                               \/ i \in 1..Len(wire) /\ wire'[i] = wire[i]
  <2>1. \A i \in 1..Len(wire') : i = Len(wire') \/ i \in 1..Len(wire)
    BY <1>3
  <2>2. QED
    BY <1>3, <2>1
<1>6. HistOK'
  BY <1>1, <1>2, <1>4, <1>5 DEF HistOK
<1>7. EntriesOK'
  BY <1>1, <1>2, CountsKept
<1>8. ASSUME NEW r \in Requests
      PROVE  ScanOK(r)' /\ (pc'[r] # "scan" => NothingRead(r)')
  <2>1. ScanOK(r) /\ (pc[r] # "scan" => NothingRead(r))
    BY <1>1 DEF LookupsOK
  <2>2. Rest(r)' = Rest(r)
    BY <1>2 DEF Rest, Page, Count, Smaller
  <2>3. QED
    BY <1>2, <1>5, <2>1, <2>2 DEF ScanOK, ReadOK, NothingRead
<1>9. LookupsOK'
  BY <1>1, <1>2, <1>8 DEF LookupsOK
<1>10. QED
  BY <1>6, <1>7, <1>9 DEF TotInv

\* A page is taken from the history as it is when the node answers.
LEMMA NodeAnswersTotals ==
    ASSUME TotInv, TipInv', NEW r \in Requests, NodeAnswers(r)
    PROVE  TotInv'
<1> USE DEF Asked, Sent, Error, NoCall, Tip, Pages
<1>1. HistOK /\ LookupsOK /\ EntriesOK /\ WireOK /\ FunctionsOK
  BY DEF TotInv, TipInv
<1>2. PICK m : /\ m.is = "answer" /\ m.to = r /\ wire' = Append(wire, m)
               /\ m.what \in {[is |-> Error], Reply(r)}
  BY DEF NodeAnswers
<1>3. /\ got[r].is = Asked /\ got' = [got EXCEPT ![r] = [is |-> Sent]]
      /\ UNCHANGED <<hist, nTxs, handled, totals, pc, addr, skip, counted, raced>>
  BY DEF NodeAnswers, node, caches
<1>4. /\ Len(wire') = Len(wire) + 1 /\ Len(wire) \in Nat
      /\ \A i \in 1..Len(wire) : wire'[i] = wire[i]
      /\ wire'[Len(wire')] = m
  BY <1>1, <1>2, WireAppend
<1>5. \A i \in 1..Len(wire') : \/ wire'[i] = m
                               \/ i \in 1..Len(wire) /\ wire'[i] = wire[i]
  <2>1. \A i \in 1..Len(wire') : i = Len(wire') \/ i \in 1..Len(wire)
    BY <1>4
  <2>2. QED
    BY <1>4, <2>1
<1>6. HistOK'
  BY <1>1, <1>2, <1>3, <1>5 DEF HistOK
<1>7. EntriesOK'
  BY <1>1, <1>3, CountsKept
<1>8. ASSUME NEW s \in Requests
      PROVE  ScanOK(s)' /\ (pc'[s] # "scan" => NothingRead(s)')
  <2>1. ScanOK(s) /\ (pc[s] # "scan" => NothingRead(s))
    BY <1>1 DEF LookupsOK
  <2>2. Rest(s)' = Rest(s)
    BY <1>3 DEF Rest, Page, Count, Smaller
  <2>3. got'[s].is = Pages => got'[s] = got[s]
    BY <1>1, <1>3 DEF FunctionsOK
  <2>4. pc[r] = "scan" /\ m.what.is = Pages => m.what.txs = Rest(r)
    BY <1>2 DEF Reply, Rest
  <2>5. ScanOK(s)'
    BY <1>2, <1>3, <1>5, <2>1, <2>2, <2>3, <2>4 DEF ScanOK, ReadOK
  <2>6. QED
    BY <1>3, <2>1, <2>5 DEF NothingRead
<1>9. LookupsOK'
  BY <1>1, <1>3, <1>8 DEF LookupsOK
<1>10. QED
  BY <1>6, <1>7, <1>9 DEF TotInv

\* A block is handled: there are no totals, and every scan is marked.
LEMMA TakeBlockTotals ==
    ASSUME TotInv, TipInv', TakeBlock
    PROVE  TotInv'
<1>1. HistOK /\ LookupsOK /\ WireOK
  BY DEF TotInv, TipInv
<1>2. /\ wire # <<>> /\ wire' = Tail(wire) /\ wire[1].is = "block"
      /\ handled'.txs = wire[1].txs /\ totals' = <<>>
      /\ \A r \in Requests : pc[r] = "scan" => raced'[r]
      /\ UNCHANGED <<hist, nTxs, pc, addr, got, skip, counted>>
  <2>1. wire # <<>> /\ Head(wire) = wire[1]
    BY <1>1 DEF TakeBlock, WireOK
  <2>2. QED
    BY <2>1 DEF TakeBlock, OnBlock, RacedBy, node
<1>3. /\ 1 \in 1..Len(wire)
      /\ \A i \in 1..Len(wire') : i + 1 \in 1..Len(wire) /\ wire'[i] = wire[i + 1]
  BY <1>1, <1>2, WireTail
<1>4. HistOK'
  BY <1>1, <1>2, <1>3 DEF HistOK
<1>5. EntriesOK'
  <2>1. totals' \in Seq({}) /\ Range(totals') = {}
    BY <1>2 DEF Range
  <2>2. QED
    BY <2>1 DEF EntriesOK
<1>6. LookupsOK'
  BY <1>1, <1>2 DEF LookupsOK, ScanOK, NothingRead
<1>7. QED
  BY <1>4, <1>5, <1>6 DEF TotInv

\* A request is woken with the page that was on the wire for it.
LEMMA TakeAnswerTotals ==
    ASSUME TotInv, TipInv', TakeAnswer
    PROVE  TotInv'
<1> USE DEF Asked, Sent, Error, NoCall, Tip, Pages
<1>1. HistOK /\ LookupsOK /\ EntriesOK /\ WireOK /\ FunctionsOK
  BY DEF TotInv, TipInv
<1>2. /\ wire # <<>> /\ wire' = Tail(wire) /\ wire[1].is = "answer"
      /\ got' = [got EXCEPT ![wire[1].to] = wire[1].what]
      /\ UNCHANGED <<hist, nTxs, handled, totals, pc, addr, skip, counted, raced>>
  <2>1. wire # <<>> /\ Head(wire) = wire[1]
    BY <1>1 DEF TakeAnswer, WireOK
  <2>2. QED
    BY <2>1 DEF TakeAnswer, node, caches
<1>3. /\ 1 \in 1..Len(wire)
      /\ \A i \in 1..Len(wire') : i + 1 \in 1..Len(wire) /\ wire'[i] = wire[i + 1]
  BY <1>1, <1>2, WireTail
<1>4. PICK to, what : to = wire[1].to /\ what = wire[1].what
  OBVIOUS
<1>5. got'[to] = what /\ \A s \in Requests \ {to} : got'[s] = got[s]
  <2>1. to \in Requests
    BY <1>1, <1>2, <1>3, <1>4 DEF WireOK, MessageOK, AnswerOK
  <2>2. QED
    BY <1>1, <1>2, <1>4, <2>1 DEF FunctionsOK
<1>6. HistOK'
  BY <1>1, <1>2, <1>3 DEF HistOK
<1>7. EntriesOK'
  BY <1>1, <1>2, CountsKept
<1>8. ASSUME NEW s \in Requests
      PROVE  ScanOK(s)' /\ (pc'[s] # "scan" => NothingRead(s)')
  <2>1. ScanOK(s) /\ (pc[s] # "scan" => NothingRead(s))
    BY <1>1 DEF LookupsOK
  <2>2. Rest(s)' = Rest(s)
    BY <1>2 DEF Rest, Page, Count, Smaller
  <2>3. ASSUME pc[s] = "scan", ~raced[s], got'[s].is = Pages
        PROVE  got'[s].txs = Rest(s)
    <3>1. CASE s = to
      <4>1. wire[1].is = "answer" /\ wire[1].to = s /\ wire[1].what.is = Pages
        BY <1>2, <1>4, <1>5, <2>3, <3>1
      <4>2. wire[1].what.txs = Rest(s)
        BY <1>3, <2>1, <2>3, <4>1 DEF ScanOK
      <4>3. QED
        BY <1>4, <1>5, <3>1, <4>2
    <3>2. CASE s # to
      BY <1>5, <2>1, <2>3, <3>2 DEF ScanOK, ReadOK
    <3>3. QED
      BY <3>1, <3>2
  <2>4. ScanOK(s)'
    BY <1>2, <1>3, <2>1, <2>2, <2>3 DEF ScanOK, ReadOK
  <2>5. QED
    BY <1>2, <2>1, <2>4 DEF NothingRead
<1>9. LookupsOK'
  BY <1>1, <1>2, <1>8 DEF LookupsOK
<1>10. QED
  BY <1>6, <1>7, <1>9 DEF TotInv

\* Entries that grow older count what they did.
LEMMA TickTotals ==
    ASSUME TotInv, TipInv', Tick
    PROVE  TotInv'
<1>1. HistOK /\ LookupsOK /\ EntriesOK
  BY DEF TotInv
<1>2. /\ totals' = [i \in DOMAIN totals |-> [totals[i] EXCEPT !.val.age = Older(@)]]
      /\ UNCHANGED <<hist, nTxs, handled, wire, pc, addr, got, skip, counted, raced>>
  BY DEF Tick, node, request
<1>3. HistOK'
  BY <1>1, <1>2 DEF HistOK
<1>4. LookupsOK'
  <2>1. \A r \in Requests : Rest(r)' = Rest(r)
    BY <1>2 DEF Rest, Page, Count, Smaller
  <2>2. QED
    BY <1>1, <1>2, <2>1 DEF LookupsOK, ScanOK, ReadOK, NothingRead
<1>5. ASSUME NEW e, EntryShape(e), Counts(e),
             NEW f, f = [e EXCEPT !.val.age = Older(@)]
      PROVE  EntryShape(f)' /\ Counts(f)'
  <2>0. PICK a \in Addresses :
            \E txs, approximate, age, overtaken :
               e = TotalsEntry(a, txs, approximate, age, overtaken)
    BY <1>5 DEF EntryShape
  <2>1. PICK txs, approximate, age, overtaken :
            e = TotalsEntry(a, txs, approximate, age, overtaken)
    BY <2>0
  <2>2. f = TotalsEntry(a, txs, approximate, Older(age), overtaken)
    BY <1>5, <2>1 DEF TotalsEntry
  <2>3. EntryShape(f)'
    BY <2>2 DEF EntryShape
  <2>4. /\ f.key = e.key /\ f.val.raced = e.val.raced /\ f.val.txs = e.val.txs
        /\ f.val.approximate = e.val.approximate
    BY <2>1, <2>2 DEF TotalsEntry
  <2>5. QED
    BY <1>2, <1>5, <2>3, <2>4 DEF Counts
<1>6. EntriesOK'
  <2>1. PICK S : totals \in Seq(S)
    BY <1>1 DEF EntriesOK
  <2>2. PICK n \in Nat : n = Len(totals)
    BY <2>1
  <2>3. DOMAIN totals = 1..n
    BY <2>1, <2>2
  <2>4. PICK f : f = totals'
    OBVIOUS
  <2>5. f = [i \in 1..n |-> f[i]]
    BY <1>2, <2>3, <2>4
  <2>6. f \in Seq({f[i] : i \in 1..n})
    BY <2>5
  <2>7. \A i \in 1..n : EntryShape(f[i])' /\ Counts(f[i])'
    <3>1. TAKE i \in 1..n
    <3>2. EntryShape(totals[i]) /\ Counts(totals[i])
      BY <1>1, <2>3 DEF EntriesOK, Range
    <3>3. f[i] = [totals[i] EXCEPT !.val.age = Older(@)]
      BY <1>2, <2>3, <2>4
    <3>4. QED
      BY <1>5, <3>2, <3>3
  <2>8. \A e \in Range(f) : EntryShape(e)' /\ Counts(e)'
    <3>1. \A e \in Range(f) : \E i \in 1..n : e = f[i]
      BY <2>5 DEF Range
    <3>2. QED
      BY <2>7, <3>1
  <2>9. QED
    BY <2>4, <2>6, <2>8 DEF EntriesOK
<1>7. QED
  BY <1>3, <1>4, <1>6 DEF TotInv

\* The invariant of the totals holds at first, ...
LEMMA TotInit == Init => TotInv
<1> SUFFICES ASSUME Init
             PROVE  TotInv
  OBVIOUS
<1>1. TipInv
  BY TipInit
<1>2. /\ hist = [a \in Addresses |-> <<>>] /\ nTxs = 0 /\ handled.txs = {}
      /\ wire = <<>> /\ totals = <<>> /\ addr \in [Requests -> Addresses]
      /\ pc = [r \in Requests |-> "idle"] /\ skip = [r \in Requests |-> 0]
      /\ counted = [r \in Requests |-> <<>>]
  BY DEF Init
<1>3. HistOK
  <2>1. \A a \in Addresses : hist[a] = <<>> /\ <<>> \in Seq(1..nTxs)
                             /\ IsInjective(<<>>)
    BY <1>2 DEF IsInjective
  <2>2. Len(wire) = 0
    BY <1>2
  <2>3. QED
    BY <1>2, <2>1, <2>2 DEF HistOK
<1>4. LookupsOK
  BY <1>2, NoSkip DEF LookupsOK, ScanOK, NothingRead
<1>5. EntriesOK
  <2>1. totals \in Seq({}) /\ Range(totals) = {}
    BY <1>2 DEF Range
  <2>2. QED
    BY <2>1 DEF EntriesOK
<1>6. QED
  BY <1>1, <1>3, <1>4, <1>5 DEF TotInv

\* ... and every step keeps it.
LEMMA TotStep == TotInv /\ [Next]_vars => TotInv'
<1> SUFFICES ASSUME TotInv, [Next]_vars
             PROVE  TotInv'
  OBVIOUS
<1>1. TipInv'
  BY TipStep DEF TotInv
<1>2. CASE UNCHANGED vars
  <2>1. UNCHANGED <<hist, nTxs, handled, wire, totals, pc, addr, got, skip,
                    counted, raced>>
    BY <1>2 DEF vars, node, caches, request
  <2>2. EntriesOK'
    BY <2>1, CountsKept DEF TotInv
  <2>3. \A r \in Requests : Rest(r)' = Rest(r)
    BY <2>1 DEF Rest, Page, Count, Smaller
  <2>4. HistOK' /\ LookupsOK'
    BY <2>1, <2>3 DEF TotInv, HistOK, LookupsOK, ScanOK, ReadOK, NothingRead
  <2>5. QED
    BY <1>1, <2>2, <2>4 DEF TotInv
<1>3. ASSUME NEW r \in Measurers, Measure(r)
      PROVE  TotInv'
  BY <1>1, <1>3, IdleSteps, MeasurerAssumption DEF MeasurerAssumption
<1>4. QED
  BY <1>1, <1>2, <1>3, HistoryTotals, NodeBlockTotals, NodeAnswersTotals,
     TakeBlockTotals, TakeAnswerTotals, TickTotals, IdleSteps, LookInCacheStep,
     ScanOnStep, ScanEndsStep DEF Next

\* Cached totals count every transaction of the blocks handled, and each one
\* once, unless their scan was overtaken and they say so: pages that are read
\* one after another, with other messages between their answers, join into
\* the history they were taken from.
THEOREM TotalsSafe == Spec => []TotalsCurrent
<1>1. TotInv => TotalsCurrent
  <2>1. SUFFICES ASSUME TotInv, NEW i \in DOMAIN totals
                 PROVE  Counts(totals[i])
    BY DEF TotalsCurrent, Counts
  <2>2. totals[i] \in Range(totals)
    BY DEF Range
  <2>3. QED
    BY <2>1, <2>2 DEF TotInv, EntriesOK
<1>2. QED
  BY <1>1, TotInit, TotStep, PTL DEF Spec
=============================================================================
