-------------------------- MODULE NodeClientProofs --------------------------
(***************************************************************************)
(* Why NodeClient passes every connect event on at most once, for any      *)
(* number of blocks, events and sessions.                                  *)
(*                                                                         *)
(* Notifications are delivered in order, so all that onBlock has seen of   *)
(* the events is summed up by one index, p: the last event of which it     *)
(* took a notification.  The hash it remembers is that event's block, what *)
(* it passed on is not after p, and what is still under way is not before. *)
(***************************************************************************)
EXTENDS NodeClient, TLAPS

TypeOK ==
    /\ nodeVer \in Nat
    /\ events \in Seq(Nat) /\ Len(events) <= MaxEvents
    /\ subs \in SUBSET Kinds
    /\ inbox \in Seq(Nat)
    /\ lastBlock \in Nat
    /\ calls \in [1..MaxEvents -> Nat]
    /\ heard \in BOOLEAN

BlockAt(p) == IF p = 0 THEN 0 ELSE events[p]

CallsUpTo(p) ==
    \A e \in 1..MaxEvents : calls[e] <= 1 /\ (calls[e] = 1 => e <= p)

\* What is under way comes in the order of the events, none before p.
InboxFrom(p) ==
    /\ \A i \in 1..Len(inbox) : p <= inbox[i] /\ inbox[i] \in 1..Len(events)
    /\ \A i, j \in 1..Len(inbox) : i <= j => inbox[i] <= inbox[j]

\* A session that has carried an event is registered, and the latest event
\* is the last one under way, or was the last one taken.
UpToDate(p) ==
    heard => /\ "blocks" \in subs
             /\ inbox = <<>> => p = Len(events)
             /\ inbox # <<>> => inbox[Len(inbox)] = Len(events)

SeenUpTo(p) ==
    /\ lastBlock = BlockAt(p)
    /\ CallsUpTo(p)
    /\ InboxFrom(p)
    /\ UpToDate(p)

IInv == TypeOK /\ \E p \in 0..Len(events) : SeenUpTo(p)

\* What the invariant is for.
LEMMA IInvOncePerConnect == IInv => OncePerConnect
<1> SUFFICES ASSUME IInv
             PROVE  OncePerConnect
  OBVIOUS
<1>1. PICK p \in 0..Len(events) : SeenUpTo(p)
  BY DEF IInv
<1>2. \A e \in 1..Len(events) : calls[e] <= 1
  BY <1>1, ClientBounds DEF IInv, TypeOK, SeenUpTo, CallsUpTo
<1>3. ASSUME heard, inbox = <<>>
      PROVE  lastBlock = Latest
  <2>1. p = Len(events) /\ lastBlock = BlockAt(p)
    BY <1>1, <1>3 DEF SeenUpTo, UpToDate
  <2>2. events = <<>> <=> Len(events) = 0
    BY DEF IInv, TypeOK
  <2> QED
    BY <2>1, <2>2 DEF BlockAt, Latest
<1> QED
  BY <1>2, <1>3 DEF OncePerConnect

\* The invariant holds at first, ...
LEMMA InitIInv == Init => IInv
<1> SUFFICES ASSUME Init
             PROVE  IInv
  OBVIOUS
<1> USE ClientBounds
<1>1. TypeOK
  <2>1. /\ events \in Seq(Nat) /\ Len(events) = 0
        /\ inbox \in Seq(Nat)
    BY DEF Init
  <2>2. calls \in [1..MaxEvents -> Nat]
    BY DEF Init
  <2>3. /\ nodeVer \in Nat /\ subs \in SUBSET Kinds
        /\ lastBlock \in Nat /\ heard \in BOOLEAN
    BY DEF Init
  <2>4. Len(events) <= MaxEvents
    BY <2>1
  <2> QED
    BY <2>1, <2>2, <2>3, <2>4 DEF TypeOK
<1>2. SeenUpTo(0)
  BY DEF Init, SeenUpTo, BlockAt, CallsUpTo, InboxFrom, UpToDate
<1> QED
  BY <1>1, <1>2 DEF IInv, Init

\* onBlock takes event k: it becomes the last one seen, and is passed on only
\* if it was not the last one seen before.
LEMMA TakeKeepsIInv ==
    ASSUME IInv, onBlock
    PROVE  IInv'
<1> USE ClientBounds
<1>1. PICK p \in 0..Len(events) : SeenUpTo(p)
  BY DEF IInv
<1>2. /\ inbox # <<>> /\ inbox' = Tail(inbox)
      /\ events' = events /\ subs' = subs /\ heard' = heard
      /\ nodeVer' = nodeVer
  BY DEF onBlock, nodeVars
<1>3. /\ Len(inbox) \in Nat /\ Len(inbox) > 0 /\ Head(inbox) = inbox[1]
      /\ Len(inbox') = Len(inbox) - 1
      /\ \A i \in 1..Len(inbox') : inbox'[i] = inbox[i + 1]
      /\ inbox' \in Seq(Nat)
  BY <1>2 DEF IInv, TypeOK
<1>4. PICK k \in 1..Len(events) : k = Head(inbox) /\ k = inbox[1] /\ p <= k
  BY <1>1, <1>3 DEF SeenUpTo, InboxFrom
<1>5. k \in 1..MaxEvents /\ events[k] \in Nat
  <2>1. /\ events \in Seq(Nat) /\ Len(events) \in Nat
        /\ Len(events) <= MaxEvents
    BY DEF IInv, TypeOK
  <2>2. events[k] \in Nat
    BY <1>4, <2>1
  <2> QED
    BY <1>4, <2>1, <2>2
<1>6. /\ calls' \in [1..MaxEvents -> Nat]
      /\ lastBlock' = events[k]
      /\ CallsUpTo(k)'
  <2>1. CASE events[k] = lastBlock
    <3>1. calls' = calls /\ lastBlock' = lastBlock
      BY <1>4, <2>1 DEF onBlock
    <3>2. calls \in [1..MaxEvents -> Nat]
      BY DEF IInv, TypeOK
    <3>3. \A e \in 1..MaxEvents : calls[e] <= 1 /\ (calls[e] = 1 => e <= k)
      BY <1>1, <1>4 DEF SeenUpTo, CallsUpTo
    <3> QED
      BY <2>1, <3>1, <3>2, <3>3 DEF CallsUpTo
  <2>2. CASE events[k] # lastBlock
    <3>1. /\ calls' = [calls EXCEPT ![k] = @ + 1]
          /\ lastBlock' = events[k]
      BY <1>4, <2>2 DEF onBlock
    <3>2. calls \in [1..MaxEvents -> Nat]
      BY DEF IInv, TypeOK
    <3>3. calls[k] = 0
      <4>1. ASSUME calls[k] = 1
            PROVE  FALSE
        <5>1. k <= p
          BY <1>1, <1>5, <4>1 DEF SeenUpTo, CallsUpTo
        <5>2. k = p
          BY <1>4, <5>1
        <5> QED
          BY <1>1, <1>4, <2>2, <5>2 DEF SeenUpTo, BlockAt
      <4> QED
        BY <1>1, <1>5, <3>2, <4>1 DEF SeenUpTo, CallsUpTo
    <3>4. \A e \in 1..MaxEvents : calls'[e] = IF e = k THEN 1 ELSE calls[e]
      BY <1>5, <3>1, <3>2, <3>3
    <3>5. calls' \in [1..MaxEvents -> Nat]
      BY <1>5, <3>1, <3>2
    <3> QED
      BY <1>1, <1>4, <3>1, <3>2, <3>4, <3>5 DEF SeenUpTo, CallsUpTo
  <2> QED
    BY <2>1, <2>2
<1>7. InboxFrom(k)'
  <2>1. \A i \in 1..Len(inbox') : k <= inbox'[i] /\ inbox'[i] \in 1..Len(events)
    BY <1>1, <1>3, <1>4 DEF SeenUpTo, InboxFrom
  <2>2. ASSUME NEW i \in 1..Len(inbox'), NEW j \in 1..Len(inbox'), i <= j
        PROVE  inbox'[i] <= inbox'[j]
    <3>1. i + 1 \in 1..Len(inbox) /\ j + 1 \in 1..Len(inbox) /\ i + 1 <= j + 1
      BY <1>3, <2>2
    <3>2. inbox[i + 1] <= inbox[j + 1]
      BY <1>1, <3>1 DEF SeenUpTo, InboxFrom
    <3> QED
      BY <1>3, <3>2
  <2> QED
    BY <1>2, <2>1, <2>2 DEF InboxFrom
<1>8. UpToDate(k)'
  <2> SUFFICES ASSUME heard
               PROVE  /\ "blocks" \in subs
                      /\ inbox' = <<>> => k = Len(events)
                      /\ inbox' # <<>> => inbox'[Len(inbox')] = Len(events)
    BY <1>2 DEF UpToDate
  <2>1. "blocks" \in subs /\ inbox[Len(inbox)] = Len(events)
    BY <1>1, <1>2 DEF SeenUpTo, UpToDate
  <2>2. ASSUME inbox' = <<>>
        PROVE  k = Len(events)
    <3>1. Len(inbox) = 1
      BY <1>3, <2>2
    <3> QED
      BY <1>4, <2>1, <3>1
  <2>3. ASSUME inbox' # <<>>
        PROVE  inbox'[Len(inbox')] = Len(events)
    <3>1. Len(inbox') \in 1..Len(inbox')
      BY <1>3, <2>3
    <3>2. inbox'[Len(inbox')] = inbox[Len(inbox') + 1]
      BY <1>3, <3>1
    <3> QED
      BY <1>3, <2>1, <3>2
  <2> QED
    BY <2>1, <2>2, <2>3
<1>9. TypeOK'
  BY <1>2, <1>3, <1>5, <1>6 DEF IInv, TypeOK
<1>10. SeenUpTo(k)'
  BY <1>2, <1>4, <1>6, <1>7, <1>8 DEF SeenUpTo, BlockAt
<1> QED
  BY <1>2, <1>4, <1>9, <1>10 DEF IInv

\* A new event comes after everything seen or under way.
LEMMA ConnectKeepsIInv ==
    ASSUME IInv, NEW b \in 1..MaxVersion, NEW copies \in 1..2,
           NodeBlock(b, copies)
    PROVE  IInv'
<1> USE ClientBounds
<1>1. PICK p \in 0..Len(events) : SeenUpTo(p)
  BY DEF IInv
<1> DEFINE n == Len(events)
<1> DEFINE new == [i \in 1..copies |-> n + 1]
<1>2. /\ n \in Nat /\ n < MaxEvents
      /\ events' = Append(events, b) /\ events' \in Seq(Nat)
      /\ Len(events') = n + 1
      /\ \A e \in 1..n : events'[e] = events[e]
  BY DEF IInv, TypeOK, NodeBlock
<1>3. /\ subs' = subs /\ lastBlock' = lastBlock /\ calls' = calls
      /\ heard' = (heard \/ "blocks" \in subs)
      /\ inbox' = IF "blocks" \in subs THEN inbox \o new ELSE inbox
  BY <1>2 DEF NodeBlock
<1>4. new \in Seq(Nat) /\ Len(new) = copies
      /\ \A i \in 1..copies : new[i] = n + 1
  BY <1>2
<1>5. inbox \in Seq(Nat) /\ nodeVer' \in Nat
  BY DEF IInv, TypeOK, NodeBlock
<1>6. TypeOK'
  <2>1. inbox' \in Seq(Nat)
    BY <1>3, <1>4, <1>5
  <2> QED
    BY <1>2, <1>3, <1>5, <2>1 DEF IInv, TypeOK
<1>7. lastBlock' = BlockAt(p)' /\ CallsUpTo(p)'
  BY <1>1, <1>2, <1>3 DEF SeenUpTo, BlockAt, CallsUpTo
<1>8. CASE "blocks" \notin subs
  <2>1. inbox' = inbox
    BY <1>3, <1>8
  <2>2. InboxFrom(p)'
    BY <1>1, <1>2, <1>5, <2>1 DEF SeenUpTo, InboxFrom
  <2>3. UpToDate(p)'
    BY <1>1, <1>3, <1>8 DEF SeenUpTo, UpToDate
  <2> QED
    BY <1>1, <1>2, <1>6, <1>7, <2>2, <2>3 DEF IInv, SeenUpTo
<1>9. CASE "blocks" \in subs
  <2>1. inbox' = inbox \o new
    BY <1>3, <1>9
  <2>2. /\ Len(inbox') = Len(inbox) + copies /\ Len(inbox) \in Nat
        /\ \A i \in 1..Len(inbox') :
              inbox'[i] = IF i <= Len(inbox) THEN inbox[i] ELSE n + 1
    BY <1>4, <1>5, <2>1
  <2>3. \A i \in 1..Len(inbox) : inbox[i] \in 1..n
    BY <1>1, <1>5 DEF SeenUpTo, InboxFrom
  <2>4. InboxFrom(p)'
    <3>1. \A i \in 1..Len(inbox') : p <= inbox'[i] /\ inbox'[i] \in 1..n + 1
      <4> SUFFICES ASSUME NEW i \in 1..Len(inbox')
                   PROVE  p <= inbox'[i] /\ inbox'[i] \in 1..n + 1
        OBVIOUS
      <4>1. CASE i <= Len(inbox)
        <5>1. i \in 1..Len(inbox)
          BY <2>2, <4>1
        <5>2. p <= inbox[i]
          BY <1>1, <5>1 DEF SeenUpTo, InboxFrom
        <5> QED
          BY <1>2, <2>2, <2>3, <5>1, <5>2
      <4>2. CASE ~(i <= Len(inbox))
        BY <1>2, <2>2, <4>2
      <4> QED
        BY <4>1, <4>2
    <3>2. ASSUME NEW i \in 1..Len(inbox'), NEW j \in 1..Len(inbox'), i <= j
          PROVE  inbox'[i] <= inbox'[j]
      <4>1. CASE j <= Len(inbox)
        <5>1. i \in 1..Len(inbox) /\ j \in 1..Len(inbox)
          BY <2>2, <3>2, <4>1
        <5>2. inbox[i] <= inbox[j]
          BY <1>1, <3>2, <5>1 DEF SeenUpTo, InboxFrom
        <5> QED
          BY <2>2, <5>1, <5>2
      <4>2. CASE ~(j <= Len(inbox))
        BY <1>2, <2>2, <3>1, <4>2
      <4> QED
        BY <4>1, <4>2
    <3>3. \A i \in 1..Len(inbox') : p <= inbox'[i] /\ inbox'[i] \in 1..Len(events')
      BY <1>2, <3>1
    <3> QED
      BY <3>2, <3>3 DEF InboxFrom
  <2>5. UpToDate(p)'
    <3>1. Len(inbox') \in 1..Len(inbox') /\ Len(inbox') > Len(inbox)
      BY <2>2
    <3>2. inbox'[Len(inbox')] = n + 1
      BY <2>2, <3>1
    <3>3. inbox' # <<>>
      BY <2>1, <2>2
    <3> QED
      BY <1>2, <1>3, <1>9, <3>2, <3>3 DEF UpToDate
  <2> QED
    BY <1>1, <1>2, <1>6, <1>7, <2>4, <2>5 DEF IInv, SeenUpTo
<1> QED
  BY <1>8, <1>9

\* A broken session loses the end of what is under way.
LEMMA DropKeepsIInv ==
    ASSUME IInv, Drop
    PROVE  IInv'
<1>1. PICK p \in 0..Len(events) : SeenUpTo(p)
  BY DEF IInv
<1>2. PICK n \in 0..Len(inbox) : inbox' = SubSeq(inbox, 1, n)
  BY DEF Drop
<1>3. /\ events' = events /\ nodeVer' = nodeVer /\ lastBlock' = lastBlock
      /\ calls' = calls /\ subs' = {} /\ heard' = FALSE
  BY DEF Drop, nodeVars
<1>4. /\ inbox \in Seq(Nat) /\ Len(inbox) \in Nat
      /\ Len(inbox') = n /\ inbox' \in Seq(Nat)
      /\ \A i \in 1..n : inbox'[i] = inbox[i]
  BY <1>2 DEF IInv, TypeOK
<1>5. TypeOK'
  BY <1>3, <1>4 DEF IInv, TypeOK
<1>6. InboxFrom(p)'
  <2>1. \A i \in 1..n : p <= inbox[i] /\ inbox[i] \in 1..Len(events)
    BY <1>1, <1>4 DEF SeenUpTo, InboxFrom
  <2>2. ASSUME NEW i \in 1..n, NEW j \in 1..n, i <= j
        PROVE  inbox[i] <= inbox[j]
    <3>1. i \in 1..Len(inbox) /\ j \in 1..Len(inbox)
      BY <1>4
    <3> QED
      BY <1>1, <2>2, <3>1 DEF SeenUpTo, InboxFrom
  <2> QED
    BY <1>3, <1>4, <2>1, <2>2 DEF InboxFrom
<1> QED
  BY <1>1, <1>3, <1>5, <1>6
  DEF IInv, SeenUpTo, BlockAt, CallsUpTo, UpToDate

\* ... and every step keeps it.
LEMMA StepKeepsIInv == IInv /\ [Next]_vars => IInv'
<1> SUFFICES ASSUME IInv, [Next]_vars
             PROVE  IInv'
  OBVIOUS
<1> DEFINE unseen == <<nodeVars, inbox, lastBlock, calls, heard>>
<1>1. ASSUME UNCHANGED unseen, subs' \in SUBSET Kinds, subs \subseteq subs'
      PROVE  IInv'
  BY <1>1 DEF nodeVars, IInv, TypeOK, SeenUpTo, BlockAt, CallsUpTo, InboxFrom,
              UpToDate
<1>2. subs \in SUBSET Kinds
  BY DEF IInv, TypeOK
<1>3. CASE Connect
  BY <1>1, <1>2, <1>3 DEF Connect
<1>4. CASE Drop
  BY <1>4, DropKeepsIInv
<1>5. CASE onBlock
  BY <1>5, TakeKeepsIInv
<1>6. ASSUME NEW b \in 1..MaxVersion, NEW copies \in 1..2, NodeBlock(b, copies)
      PROVE  IInv'
  BY <1>6, ConnectKeepsIInv
<1>7. ASSUME NEW s \in 1..MaxSessions, BecomeReady(s)
      PROVE  IInv'
  BY <1>1, <1>2, <1>7 DEF BecomeReady
<1>8. ASSUME NEW s \in 1..MaxSessions, NEW kind \in Kinds, Register(s, kind)
      PROVE  IInv'
  BY <1>1, <1>2, <1>8 DEF Register
<1>9. ASSUME NEW s \in 1..MaxSessions, NEW kind \in Kinds,
             RegisterFails(s, kind)
      PROVE  IInv'
  BY <1>1, <1>2, <1>9 DEF RegisterFails
<1>10. CASE UNCHANGED vars
  BY <1>1, <1>2, <1>10 DEF vars
<1> QED
  BY <1>3, <1>4, <1>5, <1>6, <1>7, <1>8, <1>9, <1>10 DEF Next

\* OnBlock is called at most once for every connect event, and a session that
\* has carried events leaves the client at the node's last one once they are
\* handled, however often notifications are doubled, lost with a session or
\* bring a block back.
THEOREM BlocksPassedOn == Spec => []OncePerConnect
<1>1. Spec => []IInv
  BY InitIInv, StepKeepsIInv, PTL DEF Spec
<1> QED
  BY <1>1, IInvOncePerConnect, PTL
=============================================================================
