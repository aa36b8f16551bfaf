-------------------------- MODULE WatchPageProofs ---------------------------
(***************************************************************************)
(* That the hub watches what the page watches, for any set of transactions *)
(* and any number of calls, commands and connections.                      *)
(***************************************************************************)
EXTENDS WatchPage, TLAPS

Cmds == [watch : BOOLEAN, tx : Txs]
Says == {None, Asked, Other, "pending", "confirmed"}
Checks == [tx : Txs, says : Says, ours : BOOLEAN]
Views == {"landing", "loading", "pending", "confirmed", Other}
Pages == {p \in [view : Views, tx : Txs \cup {None}, watching : BOOLEAN] :
             p.view = "pending" => p.tx \in Txs}

\* A page of a pending transaction has one, and so has an answer that opens
\* one; commands and checks are of transactions.
Typed ==
    /\ wire \in Seq(Cmds) /\ watched \in SUBSET Txs
    /\ page \in Pages
    /\ search \in [for : Txs \cup {Other, None}, says : Says]
    /\ search.says \in {"pending", "confirmed"} => search.for \in Txs
    /\ checks \in SUBSET Checks

\* A hub knows of no watches of a connection that is not open.
Quiet == sock # "open" => wire = <<>> /\ watched = {}

IInv == Typed /\ Quiet /\ WatchesAgree

-----------------------------------------------------------------------------
(* Playing commands *)

\* No commands leave the watches as they are.
LEMMA PlayedNone ==
    ASSUME NEW ts \in SUBSET Txs
    PROVE  Played(<<>>, ts) = ts
BY DEF Played

\* One more command watches or unwatches its transaction.
LEMMA PlayedAppend ==
    ASSUME NEW w \in Seq(Cmds), NEW c \in Cmds, NEW ts
    PROVE  Played(Append(w, c), ts) =
               IF c.watch THEN Played(w, ts) \cup {c.tx}
               ELSE Played(w, ts) \ {c.tx}
<1> DEFINE v == Append(w, c)
<1> DEFINE n == Len(w) + 1
<1>1. /\ Len(w) \in Nat /\ DOMAIN w = 1..Len(w)
      /\ DOMAIN v = 1..n /\ v[n] = c
      /\ \A i \in 1..Len(w) : v[i] = w[i]
  OBVIOUS
<1>2. \A t \in Txs : t = c.tx => (t \in Played(v, ts) <=> c.watch)
  <2> SUFFICES ASSUME NEW t \in Txs, t = c.tx
               PROVE  t \in Played(v, ts) <=> c.watch
    OBVIOUS
  <2> DEFINE own == {i \in DOMAIN v : v[i].tx = t}
  <2>1. n \in own /\ \A j \in own : j <= n
    BY <1>1
  <2>2. \A i \in own : (\A j \in own : j <= i) => i = n
    BY <1>1, <2>1
  <2> QED
    BY <1>1, <2>1, <2>2 DEF Played
<1>3. \A t \in Txs : t # c.tx => (t \in Played(v, ts) <=> t \in Played(w, ts))
  <2> SUFFICES ASSUME NEW t \in Txs, t # c.tx
               PROVE  t \in Played(v, ts) <=> t \in Played(w, ts)
    OBVIOUS
  <2>1. {i \in DOMAIN v : v[i].tx = t} = {i \in DOMAIN w : w[i].tx = t}
    BY <1>1
  <2> QED
    BY <1>1, <2>1 DEF Played
<1>4. c.tx \in Txs /\ Played(v, ts) \subseteq Txs /\ Played(w, ts) \subseteq Txs
  BY DEF Cmds, Played
<1> QED
  BY <1>2, <1>3, <1>4

\* The hub may take the first command before or after the others come.
LEMMA PlayedTail ==
    ASSUME NEW w \in Seq(Cmds), w # <<>>, NEW ts \in SUBSET Txs
    PROVE  Played(Tail(w), IF Head(w).watch THEN ts \cup {Head(w).tx}
                           ELSE ts \ {Head(w).tx}) = Played(w, ts)
<1> DEFINE c == Head(w)
<1> DEFINE v == Tail(w)
<1> DEFINE us == IF c.watch THEN ts \cup {c.tx} ELSE ts \ {c.tx}
<1>1. /\ Len(w) \in Nat /\ Len(w) > 0 /\ DOMAIN w = 1..Len(w)
      /\ DOMAIN v = 1..Len(w) - 1 /\ w[1] = c
      /\ \A i \in 1..Len(w) - 1 : v[i] = w[i + 1]
  OBVIOUS
<1> SUFFICES ASSUME NEW t \in Txs
             PROVE  t \in Played(v, us) <=> t \in Played(w, ts)
  BY DEF Played
<1> DEFINE mine == {i \in DOMAIN v : v[i].tx = t}
<1> DEFINE own == {i \in DOMAIN w : w[i].tx = t}
<1>2. /\ \A i \in mine : i + 1 \in own /\ v[i] = w[i + 1]
      /\ \A i \in own : i = 1 \/ i - 1 \in mine
      /\ 1 \in own <=> c.tx = t
      /\ own \subseteq 1..Len(w) /\ mine \subseteq 1..Len(w) - 1
  BY <1>1
<1>3. CASE mine = {}
  <2>1. own = IF c.tx = t THEN {1} ELSE {}
    <3> HIDE DEF mine, own, c, v
    <3>1. \A i \in own : i = 1
      BY <1>2, <1>3
    <3> QED
      BY <1>2, <3>1
  <2>2. t \in Played(v, us) <=> t \in us
    BY <1>3 DEF Played
  <2>3. t \in Played(w, ts) <=> IF c.tx = t THEN c.watch ELSE t \in ts
    BY <1>1, <2>1 DEF Played
  <2> QED
    BY <2>2, <2>3
<1>4. CASE mine # {}
  <2>1. own # {}
    BY <1>2, <1>4
  <2>2. ASSUME NEW i \in mine, \A j \in mine : j <= i
        PROVE  i + 1 \in own /\ \A j \in own : j <= i + 1
    <3>1. i + 1 \in own /\ i \in Nat
      BY <1>1, <1>2
    <3>2. \A j \in own : j \in Nat /\ (j = 1 \/ j - 1 <= i)
      BY <1>1, <1>2, <2>2
    <3> QED
      BY <3>1, <3>2
  <2>3. ASSUME NEW i \in own, \A j \in own : j <= i
        PROVE  i - 1 \in mine /\ v[i - 1] = w[i] /\ \A j \in mine : j <= i - 1
    <3>1. PICK k \in mine : TRUE
      BY <1>4
    <3>2. k + 1 \in own /\ k + 1 <= i /\ k \in Nat /\ k > 0 /\ i \in Nat
      BY <1>1, <1>2, <2>3
    <3>3. i - 1 \in mine
      BY <1>2, <3>2
    <3> QED
      BY <1>1, <1>2, <2>3, <3>2, <3>3
  <2>4. t \in Played(v, us) <=>
            \E i \in mine : v[i].watch /\ \A j \in mine : j <= i
    BY <1>4 DEF Played
  <2>5. t \in Played(w, ts) <=>
            \E i \in own : w[i].watch /\ \A j \in own : j <= i
    BY <2>1 DEF Played
  <2> QED
    BY <1>2, <2>2, <2>3, <2>4, <2>5
<1> QED
  BY <1>3, <1>4

\* What a page watches is one transaction or none.
LEMMA WatchesOne ==
    ASSUME NEW p \in Pages
    PROVE  Watches(p) = {} \/ \E t \in Txs : Watches(p) = {t}
BY DEF Pages, Watches

\* Concatenation with one element is Append.
LEMMA OneMore ==
    ASSUME NEW w \in Seq(Cmds), NEW c \in Cmds
    PROVE  w \o <<c>> = Append(w, c) /\ <<c>> \in Seq(Cmds)
OBVIOUS

\* The command to watch what a page watches, after those in w.
LEMMA PlayedWatch ==
    ASSUME NEW w \in Seq(Cmds), NEW ts, NEW p \in Pages
    PROVE  /\ CommandsFor(TRUE, Watches(p)) \in Seq(Cmds)
           /\ w \o CommandsFor(TRUE, Watches(p)) \in Seq(Cmds)
           /\ Played(w \o CommandsFor(TRUE, Watches(p)), ts) =
                  Played(w, ts) \cup Watches(p)
<1>1. CASE Watches(p) = {}
  <2>1. CommandsFor(TRUE, Watches(p)) = <<>> /\ w \o <<>> = w
    BY <1>1 DEF CommandsFor
  <2>2. Played(w, ts) \cup {} = Played(w, ts) /\ <<>> \in Seq(Cmds)
    OBVIOUS
  <2> QED
    BY <1>1, <2>1, <2>2, Zenon
<1>2. ASSUME NEW t \in Txs, Watches(p) = {t}
      PROVE  /\ CommandsFor(TRUE, {t}) \in Seq(Cmds)
             /\ w \o CommandsFor(TRUE, {t}) \in Seq(Cmds)
             /\ Played(w \o CommandsFor(TRUE, {t}), ts) = Played(w, ts) \cup {t}
  <2>1. PICK c \in Cmds : c = Command(TRUE, t)
    BY DEF Command, Cmds
  <2>2. c.watch = TRUE /\ c.tx = t
    BY <2>1 DEF Command
  <2>3. CommandsFor(TRUE, {t}) = <<c>>
    BY <2>1 DEF CommandsFor
  <2>4. /\ w \o <<c>> = Append(w, c) /\ Append(w, c) \in Seq(Cmds)
        /\ <<c>> \in Seq(Cmds)
    BY OneMore
  <2>5. Played(Append(w, c), ts) = Played(w, ts) \cup {t}
    BY <2>2, PlayedAppend
  <2> QED
    BY <2>3, <2>4, <2>5, Zenon
<1> QED
  BY <1>1, <1>2, WatchesOne

\* The command to unwatch it.
LEMMA PlayedUnwatch ==
    ASSUME NEW w \in Seq(Cmds), NEW ts, NEW p \in Pages
    PROVE  /\ CommandsFor(FALSE, Watches(p)) \in Seq(Cmds)
           /\ w \o CommandsFor(FALSE, Watches(p)) \in Seq(Cmds)
           /\ Played(w \o CommandsFor(FALSE, Watches(p)), ts) =
                  Played(w, ts) \ Watches(p)
<1>1. CASE Watches(p) = {}
  <2>1. CommandsFor(FALSE, Watches(p)) = <<>> /\ w \o <<>> = w
    BY <1>1 DEF CommandsFor
  <2>2. Played(w, ts) \ {} = Played(w, ts) /\ <<>> \in Seq(Cmds)
    OBVIOUS
  <2> QED
    BY <1>1, <2>1, <2>2, Zenon
<1>2. ASSUME NEW t \in Txs, Watches(p) = {t}
      PROVE  /\ CommandsFor(FALSE, {t}) \in Seq(Cmds)
             /\ w \o CommandsFor(FALSE, {t}) \in Seq(Cmds)
             /\ Played(w \o CommandsFor(FALSE, {t}), ts) = Played(w, ts) \ {t}
  <2>1. PICK c \in Cmds : c = Command(FALSE, t)
    BY DEF Command, Cmds
  <2>2. c.watch = FALSE /\ c.tx = t
    BY <2>1 DEF Command
  <2>3. CommandsFor(FALSE, {t}) = <<c>>
    BY <2>1 DEF CommandsFor
  <2>4. /\ w \o <<c>> = Append(w, c) /\ Append(w, c) \in Seq(Cmds)
        /\ <<c>> \in Seq(Cmds)
    BY OneMore
  <2>5. Played(Append(w, c), ts) = Played(w, ts) \ {t}
    BY <2>2, PlayedAppend
  <2> QED
    BY <2>3, <2>4, <2>5, Zenon
<1> QED
  BY <1>1, <1>2, WatchesOne

\* The effect's commands lead from what the old page watches to what the new
\* one does.
LEMMA PlayedCommands ==
    ASSUME NEW w \in Seq(Cmds), NEW ts, NEW p \in Pages, NEW q \in Pages,
           Played(w, ts) = Watches(p)
    PROVE  /\ w \o Commands(Watches(p), Watches(q)) \in Seq(Cmds)
           /\ Played(w \o Commands(Watches(p), Watches(q)), ts) = Watches(q)
<1> DEFINE old == Watches(p)
<1> DEFINE new == Watches(q)
<1>1. CASE old = new
  <2>1. w \o <<>> = w
    OBVIOUS
  <2> QED
    BY <1>1, <2>1 DEF Commands
<1>2. CASE old # new
  <2>1. PICK a \in Seq(Cmds) :
            /\ a = CommandsFor(FALSE, old) /\ w \o a \in Seq(Cmds)
            /\ Played(w \o a, ts) = {}
    <3>1. Played(w \o CommandsFor(FALSE, old), ts) = Played(w, ts) \ old
      BY PlayedUnwatch
    <3>2. Played(w, ts) \ old = {}
      OBVIOUS
    <3> QED
      BY <3>1, <3>2, PlayedUnwatch, Zenon
  <2>2. PICK b \in Seq(Cmds) :
            /\ b = CommandsFor(TRUE, new) /\ (w \o a) \o b \in Seq(Cmds)
            /\ Played((w \o a) \o b, ts) = new
    <3> DEFINE v == w \o a
    <3>1. v \in Seq(Cmds) /\ Played(v, ts) = {}
      BY <2>1
    <3> HIDE DEF v
    <3>2. Played(v \o CommandsFor(TRUE, new), ts) = Played(v, ts) \cup new
      BY <3>1, PlayedWatch
    <3>3. Played(v, ts) \cup new = new
      BY <3>1
    <3>4. \E b \in Seq(Cmds) :
            /\ b = CommandsFor(TRUE, new) /\ v \o b \in Seq(Cmds)
            /\ Played(v \o b, ts) = new
      BY <3>1, <3>2, <3>3, PlayedWatch, Zenon
    <3> QED
      BY <3>4 DEF v
  <2>3. w \o (a \o b) = (w \o a) \o b
    OBVIOUS
  <2> QED
    BY <1>2, <2>1, <2>2, <2>3 DEF Commands
<1> QED
  BY <1>1, <1>2

-----------------------------------------------------------------------------
(* The invariant *)

\* The invariant holds at first, ...
LEMMA InitIInv == Init => IInv
<1> SUFFICES ASSUME Init
             PROVE  IInv
  OBVIOUS
<1>1. /\ wire = <<>> /\ watched = {} /\ checks = {}
      /\ sock = "opening" /\ page = Landing /\ search = NoSearch
  BY DEF Init
<1>2. Landing \in Pages
  BY DEF Landing, Pages, Views, Other
<1>3. /\ NoSearch \in [for : Txs \cup {Other, None}, says : Says]
      /\ NoSearch.says \notin {"pending", "confirmed"}
  BY DEF NoSearch, Says, None
<1> QED
  BY <1>1, <1>2, <1>3 DEF IInv, Typed, Quiet, WatchesAgree

\* A step that leaves the watches of the page and of the hub alone.
LEMMA Apart ==
    ASSUME IInv, UNCHANGED <<sock, wire, watched, page>>,
           search' \in [for : Txs \cup {Other, None}, says : Says],
           search'.says \in {"pending", "confirmed"} => search'.for \in Txs,
           checks' \in SUBSET Checks
    PROVE  IInv'
BY DEF IInv, Typed, Quiet, WatchesAgree, Played, Watches

\* Another page: the commands make up for what its watches differ in.
LEMMA Shown ==
    ASSUME IInv, NEW p \in Pages, NEW calls \in SUBSET Checks, Show(p, calls),
           UNCHANGED <<sock, watched>>,
           search' \in [for : Txs \cup {Other, None}, says : Says],
           search'.says \in {"pending", "confirmed"} => search'.for \in Txs
    PROVE  IInv'
<1>1. page' = p /\ page \in Pages /\ wire \in Seq(Cmds)
  BY DEF Show, IInv, Typed
<1>2. checks' \in SUBSET Checks
  <2>1. \A c \in Checks : [c EXCEPT !.ours = FALSE] \in Checks
    BY DEF Checks
  <2>2. CASE p.view = "pending"
    BY <2>2 DEF Show
  <2>3. CASE p.view # "pending"
    BY <2>1, <2>3 DEF Show
  <2> QED
    BY <2>2, <2>3
<1>3. CASE sock = "open"
  <2>1. Played(wire, watched) = Watches(page)
    BY <1>3 DEF IInv, WatchesAgree
  <2>2. wire' = wire \o Commands(Watches(page), Watches(p))
    BY <1>3 DEF Show
  <2>3. wire' \in Seq(Cmds) /\ Played(wire', watched) = Watches(p)
    BY <1>1, <2>1, <2>2, PlayedCommands
  <2>4. Watches(page)' = Watches(p) /\ Played(wire, watched)' = Played(wire', watched)
    BY <1>1 DEF Watches, Played
  <2> QED
    BY <1>1, <1>2, <1>3, <2>3, <2>4 DEF IInv, Typed, Quiet, WatchesAgree
<1>4. CASE sock # "open"
  <2>1. wire' = wire
    BY <1>4 DEF Show
  <2> QED
    BY <1>1, <1>2, <1>4, <2>1 DEF IInv, Typed, Quiet, WatchesAgree
<1> QED
  BY <1>3, <1>4

\* A check that is sent is one of those there can be.
LEMMA ConfirmTyped ==
    ASSUME IInv, NEW t \in Txs, Confirm(t)
    PROVE  checks' \in SUBSET Checks
<1>1. [tx |-> t, says |-> Asked, ours |-> TRUE] \in Checks
  BY DEF Checks, Says
<1> QED
  BY <1>1 DEF Confirm, IInv, Typed

\* The pages the steps show.
LEMMA PagesShown ==
    ASSUME IInv
    PROVE  /\ Landing \in Pages
           /\ [Landing EXCEPT !.view = "loading"] \in Pages
           /\ [Landing EXCEPT !.view = Other] \in Pages
           /\ page.view = "pending" =>
                  [page EXCEPT !.watching = ~@] \in Pages
           /\ \A t \in Txs : \A status \in Says : Updated(t, status) \in Pages
           /\ search.says \in {"pending", "confirmed"} =>
                  [page EXCEPT !.view = search.says, !.tx = search.for] \in Pages
<1>1. page \in Pages /\ (search.says \in {"pending", "confirmed"} => search.for \in Txs)
  BY DEF IInv, Typed
<1>2. /\ Landing \in Pages
      /\ [Landing EXCEPT !.view = "loading"] \in Pages
      /\ [Landing EXCEPT !.view = Other] \in Pages
  BY DEF Landing, Pages, Views, Other
<1>3. page.view = "pending" => [page EXCEPT !.watching = ~@] \in Pages
  BY <1>1 DEF Pages
<1>4. ASSUME NEW t \in Txs, NEW status \in Says
      PROVE  Updated(t, status) \in Pages
  <2>1. CASE status = "confirmed"
    BY <2>1 DEF Updated, Pages, Views
  <2>2. CASE status # "confirmed"
    BY <1>1, <2>2 DEF Updated, Pages
  <2> QED
    BY <2>1, <2>2
<1>5. search.says \in {"pending", "confirmed"} =>
          [page EXCEPT !.view = search.says, !.tx = search.for] \in Pages
  BY <1>1 DEF Pages, Views
<1> QED
  BY <1>2, <1>3, <1>4, <1>5

\* ... and every step keeps it.
LEMMA StepKeepsIInv == IInv /\ [Next]_vars => IInv'
<1> SUFFICES ASSUME IInv, [Next]_vars
             PROVE  IInv'
  OBVIOUS
<1>0. /\ search \in [for : Txs \cup {Other, None}, says : Says]
      /\ search.says \in {"pending", "confirmed"} => search.for \in Txs
      /\ checks \in SUBSET Checks
      /\ wire \in Seq(Cmds) /\ watched \in SUBSET Txs /\ page \in Pages
  BY DEF IInv, Typed
<1>1. CASE GoHome
  BY <1>0, <1>1, Shown, PagesShown DEF GoHome, hub
<1>2. CASE ToggleWatch
  BY <1>0, <1>2, Shown, PagesShown DEF ToggleWatch, hub
<1>3. CASE SearchAnswered
  <2>1. PICK answer \in {Other} \cup {Status(t) : t \in Txs \cap {search.for}} :
            search' = [search EXCEPT !.says = answer]
    BY <1>3 DEF SearchAnswered
  <2>2. \/ answer = Other
        \/ answer \in {"pending", "confirmed"} /\ search.for \in Txs
    <3>1. \A t \in Txs : Status(t) \in {"pending", "confirmed"}
      BY DEF Status
    <3> QED
      BY <3>1
  <2>3. /\ search' \in [for : Txs \cup {Other, None}, says : Says]
        /\ search'.says \in {"pending", "confirmed"} => search'.for \in Txs
    BY <1>0, <2>1, <2>2 DEF Says, Other
  <2> QED
    BY <1>0, <1>3, <2>3, Apart DEF SearchAnswered, hub
<1>4. CASE SearchShown
  <2>1. /\ NoSearch \in [for : Txs \cup {Other, None}, says : Says]
        /\ NoSearch.says \notin {"pending", "confirmed"}
    BY DEF NoSearch, Says, None
  <2>2. search' = NoSearch /\ UNCHANGED <<sock, watched>>
    BY <1>4 DEF SearchShown, hub
  <2>3. CASE search.says = Other
    BY <1>0, <1>4, <2>1, <2>2, <2>3, Shown, PagesShown DEF SearchShown
  <2>4. CASE search.says # Other
    <3>1. search.says \in {"pending", "confirmed"}
      BY <1>0, <1>4, <2>4 DEF SearchShown, Says
    <3> QED
      BY <1>0, <1>4, <2>1, <2>2, <2>4, <3>1, Shown, PagesShown DEF SearchShown
  <2> QED
    BY <2>3, <2>4
<1>5. CASE OnOpen
  <2>1. wire = <<>> /\ watched = {} /\ wire \in Seq(Cmds)
    BY <1>5 DEF OnOpen, IInv, Quiet, Typed
  <2>2. /\ CommandsFor(TRUE, Watches(page)) \in Seq(Cmds)
        /\ wire \o CommandsFor(TRUE, Watches(page)) = wire'
    <3>1. CommandsFor(TRUE, Watches(page)) \in Seq(Cmds)
      BY <1>0, PlayedWatch
    <3>2. wire' = CommandsFor(TRUE, Watches(page))
      BY <1>5 DEF OnOpen
    <3>3. PICK a \in Seq(Cmds) : a = CommandsFor(TRUE, Watches(page))
      BY <3>1
    <3>4. <<>> \o a = a
      OBVIOUS
    <3> QED
      BY <2>1, <3>2, <3>3, <3>4
  <2>3. Played(wire \o CommandsFor(TRUE, Watches(page)), watched) =
            Played(wire, watched) \cup Watches(page)
    BY <1>0, PlayedWatch
  <2>4. Played(wire, watched) = {}
    BY <2>1, PlayedNone
  <2>5. Played(wire', watched) = Watches(page)
    BY <2>2, <2>3, <2>4
  <2>6. /\ wire' \in Seq(Cmds)
        /\ UNCHANGED <<watched, page, search, checks>> /\ sock' = "open"
    BY <1>5, <2>2 DEF OnOpen, hub
  <2>7. Played(wire, watched)' = Watches(page)'
    BY <2>5, <2>6 DEF Played, Watches
  <2> QED
    BY <1>0, <2>6, <2>7 DEF IInv, Typed, Quiet, WatchesAgree
<1>6. CASE Break
  BY <1>6 DEF Break, IInv, Typed, Quiet, WatchesAgree
<1>7. CASE OnClose
  BY <1>7 DEF OnClose, hub, IInv, Typed, Quiet, WatchesAgree
<1>8. CASE Reconnect
  BY <1>8 DEF Reconnect, hub, IInv, Typed, Quiet, WatchesAgree
<1>9. CASE Poll
  <2>1. PICK t \in Watches(page) : Confirm(t)
    BY <1>9 DEF Poll
  <2>2. t \in Txs
    BY <1>0, WatchesOne
  <2> QED
    BY <1>0, <1>9, <2>1, <2>2, ConfirmTyped, Apart DEF Poll, hub
<1>10. CASE TakeCommand
  <2>1. /\ wire # <<>> /\ wire' = Tail(wire)
        /\ watched' = IF Head(wire).watch THEN watched \cup {Head(wire).tx}
                      ELSE watched \ {Head(wire).tx}
        /\ UNCHANGED <<sock, page, search, checks>>
    BY <1>10 DEF TakeCommand
  <2>2. Head(wire) \in Cmds /\ wire' \in Seq(Cmds)
    BY <1>0, <2>1
  <2>3. watched' \in SUBSET Txs
    BY <1>0, <2>1, <2>2 DEF Cmds
  <2>4. Played(wire', watched') = Played(wire, watched)
    BY <1>0, <2>1, PlayedTail
  <2>5. sock = "open"
    BY <2>1 DEF IInv, Quiet
  <2>6. Played(wire, watched)' = Watches(page)'
    BY <2>1, <2>4, <2>5 DEF IInv, WatchesAgree, Played, Watches
  <2> QED
    BY <1>0, <2>1, <2>2, <2>3, <2>5, <2>6 DEF IInv, Typed, Quiet, WatchesAgree
<1>11. CASE PushAll
  BY <1>0, <1>11, Apart DEF PushAll
<1>12. ASSUME NEW q \in Txs \cup {Other}, Search(q)
       PROVE  IInv'
  <2>1. /\ search' \in [for : Txs \cup {Other, None}, says : Says]
        /\ search'.says \notin {"pending", "confirmed"}
    BY <1>12 DEF Search, Says, Asked
  <2> QED
    BY <1>0, <1>12, <2>1, Shown, PagesShown DEF Search, hub
<1>13. ASSUME NEW c \in checks,
              CheckAnswered(c) \/ CheckFails(c) \/ CheckTaken(c)
       PROVE  IInv'
  <2>1. c \in Checks
    BY <1>0
  <2>2. CASE CheckAnswered(c)
    <3>1. [c EXCEPT !.says = Status(c.tx)] \in Checks
      BY <2>1 DEF Checks, Status, Says
    <3> QED
      BY <1>0, <2>2, <3>1, Apart DEF CheckAnswered, hub
  <2>3. CASE CheckFails(c)
    BY <1>0, <2>3, Apart DEF CheckFails, hub
  <2>4. CASE CheckTaken(c)
    <3>1. Updated(c.tx, c.says) \in Pages
      BY <2>1, PagesShown DEF Checks
    <3>2. checks \ {c} \in SUBSET Checks
      BY <1>0
    <3> QED
      BY <1>0, <2>4, <3>1, <3>2, Shown DEF CheckTaken, hub
  <2> QED
    BY <1>13, <2>2, <2>3, <2>4
<1>14. ASSUME NEW p \in pushes, Delivered(p)
       PROVE  IInv'
  <2>1. checks' \in SUBSET Checks
    <3>1. CASE p.says = "confirmed" /\ p.tx \in Watches(page)
      <4>1. p.tx \in Txs
        BY <1>0, <3>1, WatchesOne
      <4> QED
        BY <1>14, <3>1, <4>1, ConfirmTyped DEF Delivered
    <3>2. CASE ~(p.says = "confirmed" /\ p.tx \in Watches(page))
      BY <1>0, <1>14, <3>2 DEF Delivered
    <3> QED
      BY <3>1, <3>2
  <2> QED
    BY <1>0, <1>14, <2>1, Apart DEF Delivered
<1>15. ASSUME NEW t \in Txs, NodeBlock(t) \/ Fetched(t) \/ FetchFails(t)
       PROVE  IInv'
  BY <1>0, <1>15, Apart DEF NodeBlock, Fetched, FetchFails, hub
<1>16. CASE UNCHANGED vars
  BY <1>0, <1>16, Apart DEF vars, hub
<1> QED
  BY <1>1, <1>2, <1>3, <1>4, <1>5, <1>6, <1>7, <1>8, <1>9, <1>10, <1>11,
     <1>12, <1>13, <1>14, <1>15, <1>16 DEF Next

\* However pages change and connections break, an open connection serves, or
\* is about to serve, exactly what its page watches (ws.ts, useWatchTx.ts).
THEOREM WatchesSafe == Spec => []WatchesAgree
<1>1. Spec => []IInv
  BY InitIInv, StepKeepsIInv, PTL DEF Spec
<1>2. IInv => WatchesAgree
  BY DEF IInv
<1> QED
  BY <1>1, <1>2, PTL
=============================================================================
