----------------------------- MODULE PanelProofs ----------------------------
(***************************************************************************)
(* Proofs about the two halves of the web panel: Panel, what a page shows  *)
(* of an instance, for any number of changes, reports, lists and faults,   *)
(* and ConfigEditor, what an administrator edits and saves, for any texts, *)
(* hosts, services, old configurations and edits.                          *)
(*                                                                         *)
(* A panel that is behind will be told, by a message on its way or by a    *)
(* list; but a list may be older than the socket.  What is inductive is    *)
(* that an old one, answered before the connection, has a better one asked *)
(* for after it (Behind): if the old one comes last, it is seen to be      *)
(* late, and if it comes first, the better one is still to come.           *)
(*                                                                         *)
(* Of the editor, the operators are the hard part: the panel drops         *)
(* spellings of a host in a loop, the agent collects labels in a set.      *)
(* What the loop keeps is shown by induction over a set of numbers, the    *)
(* rest case by case: what a normal form keeps of a service, and what      *)
(* validateConfig finding nothing says of one.                             *)
(***************************************************************************)
EXTENDS Panel, ConfigEditor, SequenceTheorems, WellFoundedInduction, TLAPS

(***************************************************************************)
(* Panel.                                                                  *)
(***************************************************************************)
Message == [v : Nat, here : BOOLEAN]

List == [at : {"asked", "read", "answered"}, rep : Reports, v : Nat, here : BOOLEAN,
         late : BOOLEAN]

PanelTypes ==
  /\ SocketTypeOK
  /\ record \in [v : 0..MaxChanges, here : BOOLEAN] /\ report \in 0..MaxReports
  /\ down \in Seq(Message) /\ up = <<>>
  /\ lists \in Seq(List) /\ Len(lists) <= MaxLists
  /\ loading \in BOOLEAN /\ loadError \in BOOLEAN /\ overtaken \in BOOLEAN
  /\ loading => lists # <<>>
  /\ view \in [v : Nat, here : BOOLEAN, rep : Reports]
  /\ seen \in Nat

\* A browser without a connection, and a hub without the browser, have
\* nothing on its way.
SocketInv ==
  /\ conn = "closed" => ~accepted
  /\ conn # "open" /\ ~accepted => down = <<>>

\* l tells of the record as it is, if it is as new as the record.
InStepWith(l, r) == l.v <= r.v /\ (l.v = r.v => l.here = r.here)

\* Nothing is newer than the record, and the last message tells of it as it is.
InStep ==
  /\ \A k \in DOMAIN down : InStepWith(down[k], record)
  /\ \A k \in DOMAIN lists : /\ lists[k].v <= record.v
                             /\ lists[k].at = "answered" => InStepWith(lists[k], record)
  /\ view.v <= seen /\ seen <= record.v
  /\ accepted /\ down # <<>> => down[Len(down)] = InstanceMessage(record)

\* Only an instance that is gone is said to be.
GoneIsGone ==
  /\ \A k \in DOMAIN down : ~down[k].here => ~record.here
  /\ \A k \in DOMAIN lists : lists[k].at = "answered" /\ ~lists[k].here => ~record.here
  /\ NotFoundIsTrue

\* A list that will bring the record, and one that can no longer.
Good(l, v) == ~l.late /\ (l.at = "answered" => l.v = v)

Stale(l, v) == ~l.late /\ l.at = "answered" /\ l.v # v

GoodIn(q, v) == \E k \in DOMAIN q : Good(q[k], v)

BetterComes(q, v) ==
  \A j \in DOMAIN q : Stale(q[j], v) => \E k \in DOMAIN q : k > j /\ Good(q[k], v)

\* The browser has read all the hub sent it.
Caught == conn = "open" /\ accepted /\ down = <<>>

Behind == Caught /\ seen # record.v => BetterComes(lists, record.v)

Current == view.v = record.v /\ view.here = record.here

Told == Caught /\ ~loadError /\ ~overtaken => Current \/ GoodIn(lists, record.v)

IInv == PanelTypes /\ SocketInv /\ InStep /\ GoneIsGone /\ Behind /\ Told

USE FaultsAssumption, OwnAssumption, BoundsAssumption

(***************************************************************************)
(* The lists on their way.                                                 *)
(***************************************************************************)
\* List i of those that are left when list k is back was list Before(i, k).
Before(i, k) == IF i < k THEN i ELSE i + 1

\* A list that is late is a list still.
LEMMA LateIs ==
  ASSUME NEW l \in List, NEW b \in BOOLEAN
  PROVE  /\ [l EXCEPT !.late = @ \/ b] \in List
         /\ [l EXCEPT !.late = @ \/ b].at = l.at
         /\ [l EXCEPT !.late = @ \/ b].v = l.v
         /\ [l EXCEPT !.late = @ \/ b].here = l.here
         /\ [l EXCEPT !.late = @ \/ b].late <=> l.late \/ b
<1>1. l.late \in BOOLEAN /\ (l.late \/ b) \in BOOLEAN
  BY DEF List
<1> QED
  BY <1>1 DEF List

LEMMA ReturnedIs ==
  ASSUME lists \in Seq(List), NEW k \in DOMAIN lists
  PROVE  /\ Returned(k) \in Seq(List)
         /\ Len(Returned(k)) = Len(lists) - 1
         /\ \A i \in 1..Len(Returned(k)) :
               /\ Before(i, k) \in DOMAIN lists
               /\ Returned(k)[i] = [lists[Before(i, k)] EXCEPT !.late = @ \/ i < k]
<1> DEFINE m == [j \in DOMAIN lists |-> [lists[j] EXCEPT !.late = @ \/ j < k]]
           a == SubSeq(m, 1, k-1)
           b == SubSeq(m, k+1, Len(m))
<1>1. Len(lists) \in Nat /\ DOMAIN lists = 1..Len(lists) /\ k \in 1..Len(lists)
  OBVIOUS
<1>2. ASSUME NEW j \in 1..Len(lists)
      PROVE  [lists[j] EXCEPT !.late = @ \/ j < k] \in List
  <2>1. lists[j] \in List
    BY <1>1
  <2>2. (j < k) \in BOOLEAN
    OBVIOUS
  <2> QED
    BY <2>1, <2>2, LateIs
<1>3. m \in Seq(List) /\ Len(m) = Len(lists)
  BY <1>1, <1>2
<1>4. \A j \in 1..Len(lists) : m[j] = [lists[j] EXCEPT !.late = @ \/ j < k]
  BY <1>1
<1>5. Returned(k) = a \o b
  BY DEF Returned, RemoveAt
<1> HIDE DEF m
<1>6. a \in Seq(List) /\ Len(a) = k - 1 /\ \A i \in 1..k-1 : a[i] = m[i]
  BY <1>1, <1>3
<1>7. /\ b \in Seq(List) /\ Len(b) = Len(lists) - k
      /\ \A i \in 1..Len(lists)-k : b[i] = m[k+i]
  BY <1>1, <1>3
<1> HIDE DEF a, b
<1>8. /\ Returned(k) \in Seq(List) /\ Len(Returned(k)) = Len(lists) - 1
      /\ \A i \in 1..Len(lists)-1 :
            Returned(k)[i] = IF i <= k - 1 THEN a[i] ELSE b[i - (k - 1)]
  <2> DEFINE c == a \o b
  <2>1. /\ c \in Seq(List) /\ Len(c) = Len(a) + Len(b)
        /\ \A i \in 1..Len(a)+Len(b) : c[i] = IF i <= Len(a) THEN a[i] ELSE b[i - Len(a)]
    <3>1. a \in Seq(List) /\ b \in Seq(List)
      BY <1>6, <1>7
    <3> QED
      BY <3>1, ConcatProperties
  <2>2. (k - 1) + (Len(lists) - k) = Len(lists) - 1
    BY <1>1
  <2> HIDE DEF c
  <2>3. Returned(k) = c
    BY <1>5 DEF c
  <2> QED
    BY <1>6, <1>7, <2>1, <2>2, <2>3
<1>9. ASSUME NEW i \in 1..Len(lists)-1
      PROVE  Before(i, k) \in 1..Len(lists) /\ Returned(k)[i] = m[Before(i, k)]
  <2>1. CASE i < k
    BY <1>1, <1>6, <1>8, <2>1 DEF Before
  <2>2. CASE ~(i < k)
    <3>1. i - (k - 1) \in 1..Len(lists)-k /\ k + (i - (k - 1)) = i + 1
      BY <1>1, <2>2
    <3> QED
      BY <1>1, <1>7, <1>8, <2>2, <3>1 DEF Before
  <2> QED
    BY <2>1, <2>2
<1>10. \A i \in 1..Len(lists)-1 : Before(i, k) < k <=> i < k
  BY <1>1 DEF Before
<1>11. ASSUME NEW i \in 1..Len(lists)-1
       PROVE  Returned(k)[i] = [lists[Before(i, k)] EXCEPT !.late = @ \/ i < k]
  BY <1>4, <1>9, <1>10
<1> QED
  BY <1>1, <1>8, <1>9, <1>11

\* What is left of the lists is what it was, and late if the one that is back
\* was asked for after it.
LEMMA ReturnedKeeps ==
  ASSUME lists \in Seq(List), NEW k \in DOMAIN lists, NEW i \in DOMAIN Returned(k)
  PROVE  /\ Before(i, k) \in DOMAIN lists
         /\ Returned(k)[i].at = lists[Before(i, k)].at
         /\ Returned(k)[i].v = lists[Before(i, k)].v
         /\ Returned(k)[i].here = lists[Before(i, k)].here
         /\ Returned(k)[i].late <=> lists[Before(i, k)].late \/ i < k
<1>1. /\ Returned(k) \in Seq(List)
      /\ \A j \in 1..Len(Returned(k)) :
               /\ Before(j, k) \in DOMAIN lists
               /\ Returned(k)[j] = [lists[Before(j, k)] EXCEPT !.late = @ \/ j < k]
  BY ReturnedIs
<1>2. DOMAIN Returned(k) = 1..Len(Returned(k))
  BY <1>1
<1> DEFINE l == lists[Before(i, k)]
           b == i < k
<1>3. Before(i, k) \in DOMAIN lists /\ Returned(k)[i] = [l EXCEPT !.late = @ \/ b]
  BY <1>1, <1>2
<1>4. l \in List /\ b \in BOOLEAN
  BY <1>3
<1> HIDE DEF l, b
<1>5. /\ [l EXCEPT !.late = @ \/ b].at = l.at
      /\ [l EXCEPT !.late = @ \/ b].v = l.v
      /\ [l EXCEPT !.late = @ \/ b].here = l.here
      /\ [l EXCEPT !.late = @ \/ b].late <=> l.late \/ b
  BY <1>4 DEF List
<1> QED
  BY <1>3, <1>5 DEF l, b

LEMMA ReturnedBetterComes ==
  ASSUME lists \in Seq(List), NEW k \in DOMAIN lists, NEW v, BetterComes(lists, v)
  PROVE  BetterComes(Returned(k), v)
<1> DEFINE q == Returned(k)
<1>1. /\ q \in Seq(List) /\ Len(q) = Len(lists) - 1 /\ DOMAIN q = 1..Len(q)
      /\ Len(lists) \in Nat /\ DOMAIN lists = 1..Len(lists) /\ k \in 1..Len(lists)
  BY ReturnedIs
<1> SUFFICES ASSUME NEW j \in DOMAIN q, Stale(q[j], v)
             PROVE  \E i \in DOMAIN q : i > j /\ Good(q[i], v)
  BY DEF BetterComes
<1>2. j >= k /\ Before(j, k) = j + 1 /\ j + 1 \in DOMAIN lists /\ Stale(lists[j+1], v)
  <2>1. /\ Before(j, k) \in DOMAIN lists
        /\ q[j].at = lists[Before(j, k)].at
        /\ q[j].v = lists[Before(j, k)].v
        /\ q[j].late <=> lists[Before(j, k)].late \/ j < k
    BY ReturnedKeeps
  <2>2. ~(j < k) /\ Stale(lists[Before(j, k)], v)
    BY <2>1 DEF Stale
  <2>3. Before(j, k) = j + 1 /\ j >= k
    BY <1>1, <2>2 DEF Before
  <2> QED
    BY <2>1, <2>2, <2>3
<1>3. PICK g \in DOMAIN lists : g > j + 1 /\ Good(lists[g], v)
  BY <1>2 DEF BetterComes
<1>4. g - 1 \in DOMAIN q /\ g - 1 > j /\ Before(g - 1, k) = g /\ ~(g - 1 < k)
  BY <1>1, <1>2, <1>3 DEF Before
<1>5. /\ q[g-1].at = lists[g].at /\ q[g-1].v = lists[g].v
      /\ q[g-1].late <=> lists[g].late
  <2>1. /\ q[g-1].at = lists[Before(g-1, k)].at
        /\ q[g-1].v = lists[Before(g-1, k)].v
        /\ q[g-1].late <=> lists[Before(g-1, k)].late \/ g-1 < k
    BY <1>4, ReturnedKeeps
  <2> QED
    BY <1>4, <2>1
<1>6. Good(q[g-1], v)
  BY <1>3, <1>5 DEF Good
<1> QED
  BY <1>4, <1>6

\* A new list is good, and the last.
LEMMA AskedIsGood ==
  ASSUME NEW q \in Seq(List), NEW v
  PROVE  /\ Append(q, Asked) \in Seq(List)
         /\ Len(Append(q, Asked)) = Len(q) + 1
         /\ BetterComes(Append(q, Asked), v)
         /\ GoodIn(Append(q, Asked), v)
<1> DEFINE p == Append(q, Asked)
<1>1. Asked \in List
  BY DEF Asked, List, Reports
<1>2. /\ p \in Seq(List) /\ Len(q) \in Nat /\ Len(p) = Len(q) + 1 /\ DOMAIN p = 1..Len(p)
      /\ p[Len(p)] = Asked
  BY <1>1
<1>3. Good(p[Len(p)], v) /\ Len(p) \in DOMAIN p
  BY <1>2 DEF Good, Asked
<1>4. \A j \in DOMAIN p : Stale(p[j], v) => j < Len(p)
  BY <1>2, <1>3 DEF Stale, Good
<1> QED
  BY <1>2, <1>3, <1>4 DEF BetterComes, GoodIn

\* A list that is read stays good and does not go stale.
LEMMA ReadIsGood ==
  ASSUME NEW q \in Seq(List), NEW k \in DOMAIN q, NEW l, NEW v,
         Good(q[k], v) => Good(l, v), Stale(l, v) => Stale(q[k], v)
  PROVE  /\ BetterComes(q, v) => BetterComes([q EXCEPT ![k] = l], v)
         /\ GoodIn(q, v) => GoodIn([q EXCEPT ![k] = l], v)
BY DEF BetterComes, GoodIn

\* A good list that was asked for after the one that is back is still to come.
LEMMA ReturnedIsGood ==
  ASSUME lists \in Seq(List), NEW k \in DOMAIN lists, NEW v,
         NEW g \in DOMAIN lists, g > k, Good(lists[g], v)
  PROVE  GoodIn(Returned(k), v)
<1> DEFINE q == Returned(k)
<1>1. /\ q \in Seq(List) /\ Len(q) = Len(lists) - 1 /\ DOMAIN q = 1..Len(q)
      /\ Len(lists) \in Nat /\ DOMAIN lists = 1..Len(lists) /\ k \in 1..Len(lists)
  BY ReturnedIs
<1>2. g - 1 \in DOMAIN q /\ Before(g - 1, k) = g /\ ~(g - 1 < k)
  BY <1>1 DEF Before
<1>3. /\ q[g-1].at = lists[Before(g-1, k)].at
      /\ q[g-1].v = lists[Before(g-1, k)].v
      /\ q[g-1].late <=> lists[Before(g-1, k)].late \/ g-1 < k
  BY <1>2, ReturnedKeeps
<1>4. Good(q[g-1], v)
  BY <1>2, <1>3 DEF Good
<1> QED
  BY <1>2, <1>4 DEF GoodIn

(***************************************************************************)
(* The steps.                                                              *)
(***************************************************************************)
\* What is on its way has its type.
LEMMA OnTheWay ==
  ASSUME PanelTypes
  PROVE  /\ Len(lists) \in Nat /\ DOMAIN lists = 1..Len(lists)
         /\ Len(down) \in Nat /\ DOMAIN down = 1..Len(down)
         /\ \A k \in DOMAIN lists : /\ lists[k] \in List
                                    /\ lists[k].v \in Nat /\ lists[k].here \in BOOLEAN
                                    /\ lists[k].rep \in Reports /\ lists[k].late \in BOOLEAN
         /\ \A k \in DOMAIN down : down[k].v \in Nat /\ down[k].here \in BOOLEAN
<1>1. lists \in Seq(List) /\ down \in Seq(Message)
  BY DEF PanelTypes
<1>2. /\ \A k \in DOMAIN lists : lists[k] \in List
      /\ \A k \in DOMAIN down : down[k] \in Message
  BY <1>1
<1>3. \A l \in List : /\ l.v \in Nat /\ l.here \in BOOLEAN
                       /\ l.rep \in Reports /\ l.late \in BOOLEAN
  BY DEF List
<1>4. \A m \in Message : m.v \in Nat /\ m.here \in BOOLEAN
  BY DEF Message
<1> QED
  BY <1>1, <1>2, <1>3, <1>4

LEMMA InitIInv == Init => IInv
<1> SUFFICES ASSUME Init
             PROVE  IInv
  OBVIOUS
<1>1. Asked \in List
  BY DEF Asked, List, Reports
<1>2. /\ lists = <<Asked>> /\ lists \in Seq(List) /\ Len(lists) = 1 /\ lists # <<>>
      /\ DOMAIN lists = {1} /\ lists[1] = Asked
  BY <1>1 DEF Init
<1>3. Asked.at = "asked" /\ Asked.v = 0
  BY DEF Asked
<1>4. down = <<>> /\ up = <<>> /\ down \in Seq(Message) /\ DOMAIN down = {}
  BY DEF Init, SocketInit
<1>5. PanelTypes
  <2>1. Own \in Reports /\ Len(lists) <= MaxLists
    BY <1>2 DEF Reports
  <2>2. view \in [v : Nat, here : BOOLEAN, rep : Reports]
    BY <2>1 DEF Init
  <2>3. record \in [v : 0..MaxChanges, here : BOOLEAN] /\ report \in 0..MaxReports
    BY DEF Init
  <2>4. SocketTypeOK
    <3>1. 0 \in 0..MaxFaults
      BY FaultsAssumption
    <3> QED
      BY <3>1 DEF Init, SocketInit, SocketTypeOK
  <2> QED
    BY <1>2, <1>4, <2>1, <2>2, <2>3, <2>4 DEF Init, PanelTypes
<1>6. SocketInv
  BY DEF Init, SocketInit, SocketInv
<1>7. InStep
  BY <1>2, <1>3, <1>4 DEF Init, InStep
<1>8. GoneIsGone
  BY <1>2, <1>3, <1>4 DEF Init, GoneIsGone, NotFoundIsTrue
<1>9. Behind /\ Told
  BY DEF Init, SocketInit, Behind, Told, Caught
<1> QED
  BY <1>5, <1>6, <1>7, <1>8, <1>9 DEF IInv

\* A change of the record is broadcast: a browser that had read everything
\* has not.
LEMMA ChangeKeeps ==
  ASSUME IInv, Edit \/ RemoveInstance
  PROVE  IInv'
<1> DEFINE m == InstanceMessage(record')
<1>1. /\ record.here /\ record.v \in 0..MaxChanges
      /\ record' \in [v : 0..MaxChanges, here : BOOLEAN] /\ record'.v = record.v + 1
      /\ down' = IF accepted THEN Append(down, m) ELSE down
      /\ UNCHANGED <<report, lists, viewVars, accepted, up, conn, faults>>
  <2>1. record \in [v : 0..MaxChanges, here : BOOLEAN]
    BY DEF IInv, PanelTypes
  <2>2. CASE Edit
    BY <2>1, <2>2 DEF Edit, Broadcast
  <2>3. CASE RemoveInstance
    BY <2>1, <2>3 DEF RemoveInstance, Broadcast
  <2> QED
    BY <2>2, <2>3
<1>2. /\ m \in Message /\ m.v = record'.v /\ m.here = record'.here
  BY <1>1 DEF InstanceMessage, Message
<1>3. down \in Seq(Message) /\ Len(down) \in Nat /\ DOMAIN down = 1..Len(down)
  BY DEF IInv, PanelTypes
<1> HIDE DEF m
<1>4. /\ down' \in Seq(Message)
      /\ accepted => down' # <<>> /\ down'[Len(down')] = m
      /\ \A k \in DOMAIN down' : (k \in DOMAIN down /\ down'[k] = down[k]) \/ down'[k] = m
  <2>1. CASE accepted
    <3> DEFINE d == Append(down, m)
    <3>1. /\ d \in Seq(Message) /\ Len(d) = Len(down) + 1 /\ d[Len(d)] = m
          /\ DOMAIN d = 1..Len(d) /\ \A k \in 1..Len(down) : d[k] = down[k]
      BY <1>2, <1>3
    <3>2. d # <<>>
      BY <1>3, <3>1
    <3>3. \A k \in 1..Len(d) : k \in 1..Len(down) \/ k = Len(d)
      BY <1>3, <3>1
    <3>4. down' = d
      BY <1>1, <2>1
    <3> HIDE DEF d
    <3> QED
      BY <1>3, <3>1, <3>2, <3>3, <3>4
  <2>2. CASE ~accepted
    BY <1>1, <1>3, <2>2
  <2> QED
    BY <2>1, <2>2
<1>5. PanelTypes'
  BY <1>1, <1>4 DEF IInv, PanelTypes, SocketTypeOK, viewVars
<1>6. SocketInv'
  BY <1>1 DEF IInv, SocketInv
<1>7. InStep'
  <2>1. \A k \in DOMAIN down' : InStepWith(down'[k], record')
    <3> SUFFICES ASSUME NEW k \in DOMAIN down'
                 PROVE  InStepWith(down'[k], record')
      OBVIOUS
    <3>1. CASE k \in DOMAIN down /\ down'[k] = down[k]
      <4>1. InStepWith(down[k], record) /\ down[k].v \in Nat
        BY <3>1, OnTheWay DEF IInv, InStep
      <4> QED
        BY <1>1, <3>1, <4>1 DEF InStepWith
    <3>2. CASE down'[k] = m
      BY <1>1, <1>2, <3>2 DEF InStepWith
    <3> QED
      BY <1>4, <3>1, <3>2
  <2>2. \A k \in DOMAIN lists : /\ lists[k].v <= record'.v
                                /\ lists[k].at = "answered" => InStepWith(lists[k], record')
    <3> SUFFICES ASSUME NEW k \in DOMAIN lists
                 PROVE  lists[k].v <= record'.v /\ InStepWith(lists[k], record')
      OBVIOUS
    <3>1. lists[k].v <= record.v /\ lists[k].v \in Nat
      BY OnTheWay DEF IInv, InStep
    <3> QED
      BY <1>1, <3>1 DEF InStepWith
  <2>3. view.v <= seen /\ seen <= record'.v
    BY <1>1 DEF IInv, InStep, PanelTypes
  <2>4. accepted => down'[Len(down')] = InstanceMessage(record')
    BY <1>4 DEF m
  <2> QED
    BY <1>1, <2>1, <2>2, <2>3, <2>4 DEF InStep, viewVars, InstanceMessage
<1>8. GoneIsGone'
  <2>1. \A k \in DOMAIN down' : ~down'[k].here => ~record'.here
    BY <1>1, <1>2, <1>4 DEF IInv, GoneIsGone
  <2>2. \A k \in DOMAIN lists : lists[k].at = "answered" => lists[k].here
    BY <1>1 DEF IInv, GoneIsGone
  <2>3. view.here \/ loading \/ loadError
    BY <1>1 DEF IInv, GoneIsGone, NotFoundIsTrue
  <2> QED
    BY <1>1, <2>1, <2>2, <2>3 DEF GoneIsGone, NotFoundIsTrue, viewVars
<1>9. Behind' /\ Told'
  BY <1>1, <1>4 DEF Behind, Told, Caught
<1> QED
  BY <1>5, <1>6, <1>7, <1>8, <1>9 DEF IInv

LEMMA AgentReportsKeeps ==
  ASSUME IInv, AgentReports
  PROVE  IInv'
<1>1. /\ report' \in 0..MaxReports
      /\ UNCHANGED <<record, lists, viewVars, wireVars, faults>>
  BY DEF IInv, PanelTypes, AgentReports
<1> USE <1>1 DEF viewVars, wireVars
<1>2. PanelTypes'
  BY DEF IInv, PanelTypes, SocketTypeOK
<1>3. SocketInv' /\ InStep' /\ GoneIsGone'
  BY DEF IInv, SocketInv, InStep, InStepWith, GoneIsGone, NotFoundIsTrue, InstanceMessage
<1>4. Behind' /\ Told'
  BY DEF IInv, Behind, Told, Caught, Current, BetterComes, GoodIn
<1> QED
  BY <1>2, <1>3, <1>4 DEF IInv

\* A read of a list: what it answers is the record as it is.
LEMMA ReadKeeps ==
  ASSUME IInv, NEW k \in DOMAIN lists, NEW l \in List,
         lists' = [lists EXCEPT ![k] = l],
         Good(lists[k], record.v) => Good(l, record.v),
         Stale(l, record.v) => Stale(lists[k], record.v),
         l.v <= record.v,
         l.at = "answered" => InStepWith(l, record) /\ (~l.here => ~record.here),
         faults' \in 0..MaxFaults,
         UNCHANGED <<hubVars, viewVars, wireVars>>
  PROVE  IInv'
<1>1. /\ UNCHANGED <<record, report, view, loading, loadError, seen, overtaken,
                     accepted, down, up, conn>>
  BY DEF hubVars, viewVars, wireVars
<1>2. /\ lists \in Seq(List) /\ DOMAIN lists = 1..Len(lists) /\ Len(lists) \in Nat
  BY OnTheWay DEF IInv, PanelTypes
<1>3. /\ lists' \in Seq(List) /\ Len(lists') = Len(lists) /\ DOMAIN lists' = DOMAIN lists
      /\ \A j \in DOMAIN lists : lists'[j] = IF j = k THEN l ELSE lists[j]
  BY <1>2
<1>4. lists # <<>> => lists' # <<>>
  BY <1>2, <1>3
<1>5. PanelTypes'
  BY <1>1, <1>3, <1>4 DEF IInv, PanelTypes, SocketTypeOK
<1>6. SocketInv'
  BY <1>1 DEF IInv, SocketInv
<1>7. InStep'
  <2>1. \A j \in DOMAIN lists' : /\ lists'[j].v <= record.v
                                 /\ lists'[j].at = "answered" => InStepWith(lists'[j], record)
    BY <1>3 DEF IInv, InStep
  <2>2. /\ \A j \in DOMAIN down : InStepWith(down[j], record)
        /\ view.v <= seen /\ seen <= record.v
        /\ accepted /\ down # <<>> => down[Len(down)] = InstanceMessage(record)
    BY DEF IInv, InStep
  <2> QED
    BY <1>1, <2>1, <2>2 DEF InStep, InStepWith, InstanceMessage
<1>8. GoneIsGone'
  BY <1>1, <1>3 DEF IInv, GoneIsGone, NotFoundIsTrue
<1>9. /\ BetterComes(lists, record.v) => BetterComes(lists', record.v)
      /\ GoodIn(lists, record.v) => GoodIn(lists', record.v)
  <2> DEFINE p == [lists EXCEPT ![k] = l]
  <2>1. /\ BetterComes(lists, record.v) => BetterComes(p, record.v)
        /\ GoodIn(lists, record.v) => GoodIn(p, record.v)
    BY <1>2, ReadIsGood
  <2>2. lists' = p
    OBVIOUS
  <2> HIDE DEF p
  <2> QED
    BY <2>1, <2>2
<1>10. Behind'
  <2>1. Caught /\ seen # record.v => BetterComes(lists', record.v)
    BY <1>9 DEF IInv, Behind
  <2> QED
    BY <1>1, <2>1 DEF Behind, Caught
<1>11. Told'
  <2>1. Caught /\ ~loadError /\ ~overtaken => Current \/ GoodIn(lists', record.v)
    BY <1>9 DEF IInv, Told
  <2> QED
    BY <1>1, <2>1 DEF Told, Caught, Current
<1> QED
  BY <1>5, <1>6, <1>7, <1>8, <1>10, <1>11 DEF IInv

LEMMA FaultCounts ==
  ASSUME SocketTypeOK, Fault
  PROVE  faults' \in 0..MaxFaults
BY DEF SocketTypeOK, Fault

LEMMA ReadReportsKeeps ==
  ASSUME IInv, NEW k \in 1..MaxLists, ReadReports(k)
  PROVE  IInv'
<1>1. k \in DOMAIN lists /\ lists[k].at = "asked" /\ lists[k] \in List
      /\ UNCHANGED <<hubVars, viewVars, wireVars>>
  BY OnTheWay DEF IInv, ReadReports
<1>2. lists[k].v <= record.v /\ report \in Reports
  BY <1>1 DEF IInv, InStep, PanelTypes, Reports
<1>3. PICK l \in {[lists[k] EXCEPT !.at = "read", !.rep = report],
                  [lists[k] EXCEPT !.at = "read"]} :
         lists' = [lists EXCEPT ![k] = l] /\ faults' \in 0..MaxFaults
  <2>1. CASE /\ Goto(k, [lists[k] EXCEPT !.at = "read", !.rep = report])
             /\ UNCHANGED faults
    BY <2>1 DEF Goto, IInv, PanelTypes, SocketTypeOK
  <2>2. CASE Goto(k, [lists[k] EXCEPT !.at = "read"]) /\ Fault
    BY <2>2, FaultCounts DEF Goto, IInv, PanelTypes
  <2> QED
    BY <2>1, <2>2 DEF ReadReports
<1>4. /\ l \in List /\ l.at = "read" /\ l.v = lists[k].v /\ l.late = lists[k].late
  BY <1>1, <1>2, <1>3 DEF List
<1>5. /\ Good(lists[k], record.v) => Good(l, record.v)
      /\ Stale(l, record.v) => Stale(lists[k], record.v)
  BY <1>4 DEF Good, Stale
<1> QED
  BY <1>1, <1>2, <1>3, <1>4, <1>5, ReadKeeps

LEMMA ReadRecordsKeeps ==
  ASSUME IInv, NEW k \in 1..MaxLists, ReadRecords(k)
  PROVE  IInv'
<1> DEFINE l == [lists[k] EXCEPT !.at = "answered", !.v = record.v, !.here = record.here]
<1>1. k \in DOMAIN lists /\ lists[k].at = "read" /\ lists[k] \in List
      /\ lists' = [lists EXCEPT ![k] = l]
      /\ UNCHANGED <<hubVars, viewVars, wireVars, faults>>
  BY OnTheWay DEF IInv, ReadRecords, Goto
<1>2. record.v \in Nat /\ record.here \in BOOLEAN
  BY DEF IInv, PanelTypes
<1>3. /\ l \in List /\ l.at = "answered" /\ l.v = record.v /\ l.here = record.here
      /\ l.late = lists[k].late
  BY <1>1, <1>2 DEF List
<1>4. faults' \in 0..MaxFaults
  BY <1>1 DEF IInv, PanelTypes, SocketTypeOK
<1> HIDE DEF l
<1>5. /\ Good(lists[k], record.v) => Good(l, record.v)
      /\ Stale(l, record.v) => Stale(lists[k], record.v)
  BY <1>3 DEF Good, Stale
<1>6. l.v <= record.v /\ InStepWith(l, record) /\ (~l.here => ~record.here)
  BY <1>2, <1>3 DEF InStepWith
<1> QED
  BY <1>1, <1>3, <1>4, <1>5, <1>6, ReadKeeps

\* What remains when a list is back, whether it is applied or not.
LEMMA RemainingKeeps ==
  ASSUME IInv, NEW k \in DOMAIN lists, lists' = Returned(k), UNCHANGED record
  PROVE  /\ lists' \in Seq(List) /\ Len(lists') <= MaxLists
         /\ \A j \in DOMAIN lists' :
               /\ lists'[j].v <= record.v
               /\ lists'[j].at = "answered" => InStepWith(lists'[j], record)
               /\ lists'[j].at = "answered" /\ ~lists'[j].here => ~record.here
         /\ BetterComes(lists, record.v) => BetterComes(lists', record.v)
<1>1. lists \in Seq(List) /\ Len(lists) \in Nat /\ Len(lists) <= MaxLists
  BY OnTheWay DEF IInv, PanelTypes
<1>2. lists' \in Seq(List) /\ Len(lists') = Len(lists) - 1
  BY <1>1, ReturnedIs
<1>3. ASSUME NEW j \in DOMAIN lists'
      PROVE  /\ lists'[j].v <= record.v
             /\ lists'[j].at = "answered" => InStepWith(lists'[j], record)
             /\ lists'[j].at = "answered" /\ ~lists'[j].here => ~record.here
  <2> DEFINE l == lists[Before(j, k)]
             q == Returned(k)
  <2>1. j \in DOMAIN q /\ lists' = q
    OBVIOUS
  <2>2. /\ Before(j, k) \in DOMAIN lists
        /\ q[j].at = l.at /\ q[j].v = l.v /\ q[j].here = l.here
    BY <1>1, <2>1, ReturnedKeeps
  <2>3. /\ l.v <= record.v
        /\ l.at = "answered" => InStepWith(l, record)
        /\ l.at = "answered" /\ ~l.here => ~record.here
    BY <2>2 DEF IInv, InStep, GoneIsGone
  <2> HIDE DEF l, q
  <2> QED
    BY <2>1, <2>2, <2>3 DEF InStepWith
<1>4. BetterComes(lists, record.v) => BetterComes(Returned(k), record.v)
  BY <1>1, ReturnedBetterComes
<1> QED
  BY <1>1, <1>2, <1>3, <1>4, BoundsAssumption

\* A list that is back is the record, or was late, or a better one remains.
LEMMA ListArrivesKeeps ==
  ASSUME IInv, NEW k \in 1..MaxLists, ListArrives(k)
  PROVE  IInv'
<1> DEFINE l == lists[k]
<1>1. /\ k \in DOMAIN lists /\ l.at = "answered"
      /\ view' = [v |-> l.v, here |-> l.here, rep |-> l.rep]
      /\ overtaken' = (l.late \/ l.v < seen)
      /\ seen' = Newest(seen, l.v)
      /\ lists' = Returned(k) /\ loading' = FALSE /\ loadError' = FALSE
      /\ UNCHANGED <<record, report, accepted, down, up, conn, faults>>
  BY DEF ListArrives, hubVars, wireVars
<1>2. l.v \in Nat /\ l.here \in BOOLEAN /\ l.rep \in Reports /\ l.late \in BOOLEAN
  BY <1>1, OnTheWay DEF IInv
<1>3. /\ l.v <= record.v /\ InStepWith(l, record) /\ (~l.here => ~record.here)
  BY <1>1 DEF IInv, InStep, GoneIsGone
<1>4. record.v \in Nat /\ seen \in Nat /\ seen <= record.v
  BY DEF IInv, PanelTypes, InStep
<1>5. /\ lists' \in Seq(List) /\ Len(lists') <= MaxLists
      /\ \A j \in DOMAIN lists' :
            /\ lists'[j].v <= record.v
            /\ lists'[j].at = "answered" => InStepWith(lists'[j], record)
            /\ lists'[j].at = "answered" /\ ~lists'[j].here => ~record.here
      /\ BetterComes(lists, record.v) => BetterComes(lists', record.v)
  BY <1>1, RemainingKeeps
<1>6. seen' \in Nat /\ seen <= seen' /\ l.v <= seen' /\ seen' <= record.v
  BY <1>1, <1>2, <1>3, <1>4 DEF Newest
<1>7. Stale(l, record.v) /\ BetterComes(lists, record.v) => GoodIn(lists', record.v)
  <2> SUFFICES ASSUME Stale(l, record.v), BetterComes(lists, record.v)
               PROVE  GoodIn(lists', record.v)
    OBVIOUS
  <2>1. PICK g \in DOMAIN lists : g > k /\ Good(lists[g], record.v)
    BY <1>1 DEF BetterComes
  <2>2. lists \in Seq(List)
    BY DEF IInv, PanelTypes
  <2>3. GoodIn(Returned(k), record.v)
    BY <1>1, <2>1, <2>2, ReturnedIsGood
  <2> QED
    BY <1>1, <2>3
<1> HIDE DEF l
<1>8. view'.v = l.v /\ view'.here = l.here /\ view' \in [v : Nat, here : BOOLEAN, rep : Reports]
  BY <1>1, <1>2
<1>9. PanelTypes'
  <2>1. overtaken' \in BOOLEAN
    BY <1>1
  <2> QED
    BY <1>1, <1>5, <1>6, <1>8, <2>1 DEF IInv, PanelTypes, SocketTypeOK
<1>10. SocketInv'
  BY <1>1 DEF IInv, SocketInv
<1>11. InStep'
  <2>1. /\ \A j \in DOMAIN down : InStepWith(down[j], record)
        /\ accepted /\ down # <<>> => down[Len(down)] = InstanceMessage(record)
    BY DEF IInv, InStep
  <2> QED
    BY <1>1, <1>5, <1>6, <1>8, <2>1 DEF InStep, InStepWith, InstanceMessage
<1>12. GoneIsGone'
  <2>1. \A j \in DOMAIN down : ~down[j].here => ~record.here
    BY DEF IInv, GoneIsGone
  <2> QED
    BY <1>1, <1>3, <1>5, <1>8, <2>1 DEF GoneIsGone, NotFoundIsTrue
<1>13. Behind'
  <2>1. Caught /\ seen' # record.v => seen # record.v
    BY <1>4, <1>6
  <2>2. Caught /\ seen' # record.v => BetterComes(lists', record.v)
    BY <1>5, <2>1 DEF IInv, Behind
  <2> QED
    BY <1>1, <2>2 DEF Behind, Caught
<1>14. Told'
  <2> SUFFICES ASSUME Caught, ~overtaken'
               PROVE  Current' \/ GoodIn(lists', record.v)
    BY <1>1 DEF Told, Caught
  <2>1. ~l.late /\ ~(l.v < seen)
    BY <1>1
  <2>2. CASE l.v = record.v
    BY <1>1, <1>3, <1>8, <2>2 DEF Current, InStepWith
  <2>3. CASE l.v # record.v
    <3>1. seen # record.v /\ Stale(l, record.v)
      BY <1>1, <1>2, <1>3, <1>4, <2>1, <2>3 DEF Stale, l
    <3> QED
      BY <1>7, <3>1 DEF IInv, Behind
  <2> QED
    BY <2>2, <2>3
<1> QED
  BY <1>9, <1>10, <1>11, <1>12, <1>13, <1>14 DEF IInv

\* A list that fails shows its error.
LEMMA ListFailsKeeps ==
  ASSUME IInv, NEW k \in 1..MaxLists, ListFails(k)
  PROVE  IInv'
<1>1. /\ k \in DOMAIN lists /\ lists' = Returned(k) /\ Fault
      /\ loading' = FALSE /\ loadError' = TRUE
      /\ UNCHANGED <<record, report, view, seen, overtaken, accepted, down, up, conn>>
  BY DEF ListFails, hubVars, wireVars
<1>2. /\ lists' \in Seq(List) /\ Len(lists') <= MaxLists
      /\ \A j \in DOMAIN lists' :
            /\ lists'[j].v <= record.v
            /\ lists'[j].at = "answered" => InStepWith(lists'[j], record)
            /\ lists'[j].at = "answered" /\ ~lists'[j].here => ~record.here
      /\ BetterComes(lists, record.v) => BetterComes(lists', record.v)
  BY <1>1, RemainingKeeps
<1>3. PanelTypes'
  <2>1. faults' \in 0..MaxFaults
    BY <1>1, FaultCounts DEF IInv, PanelTypes
  <2> QED
    BY <1>1, <1>2, <2>1 DEF IInv, PanelTypes, SocketTypeOK
<1>4. SocketInv'
  BY <1>1 DEF IInv, SocketInv
<1>5. InStep'
  BY <1>1, <1>2 DEF IInv, InStep, InStepWith, InstanceMessage
<1>6. GoneIsGone'
  BY <1>1, <1>2 DEF IInv, GoneIsGone, NotFoundIsTrue
<1>7. Behind'
  BY <1>1, <1>2 DEF IInv, Behind, Caught
<1>8. Told'
  BY <1>1 DEF Told
<1> QED
  BY <1>3, <1>4, <1>5, <1>6, <1>7, <1>8 DEF IInv

\* A list that is asked for is in the record's step, and will bring it.
LEMMA AskedKeeps ==
  ASSUME IInv, lists' = Append(lists, Asked), Len(lists) < MaxLists,
         UNCHANGED <<hubVars, viewVars, accepted, down, faults>>, up' = <<>>,
         conn' \in {"connecting", "open", "closed"},
         conn' = conn \/ (accepted /\ conn' = "open")
  PROVE  IInv'
<1>1. /\ UNCHANGED <<record, report, view, loading, loadError, seen, overtaken,
                     accepted, down, faults>>
  BY DEF hubVars, viewVars
<1>2. lists \in Seq(List) /\ Len(lists) \in Nat /\ DOMAIN lists = 1..Len(lists)
  BY OnTheWay DEF IInv, PanelTypes
<1>3. /\ lists' \in Seq(List) /\ Len(lists') = Len(lists) + 1
      /\ BetterComes(lists', record.v) /\ GoodIn(lists', record.v)
  BY <1>2, AskedIsGood
<1>4. ASSUME NEW j \in DOMAIN lists'
      PROVE  (j \in DOMAIN lists /\ lists'[j] = lists[j]) \/ lists'[j] = Asked
  <2>1. j \in 1..Len(lists) + 1
    BY <1>3
  <2>2. CASE j \in 1..Len(lists)
    BY <1>2, <2>2
  <2>3. CASE j = Len(lists) + 1
    BY <1>2, <2>3
  <2> QED
    BY <1>2, <2>1, <2>2, <2>3
<1>5. Asked.v = 0 /\ Asked.at = "asked" /\ record.v \in Nat
  BY DEF IInv, PanelTypes, Asked
<1>6. PanelTypes'
  <2>1. Len(lists') <= MaxLists /\ lists' # <<>>
    BY <1>2, <1>3, BoundsAssumption
  <2> QED
    BY <1>1, <1>3, <2>1 DEF IInv, PanelTypes, SocketTypeOK
<1>7. SocketInv'
  BY <1>1 DEF IInv, SocketInv
<1>8. InStep'
  <2>1. \A j \in DOMAIN lists' : /\ lists'[j].v <= record.v
                                 /\ lists'[j].at = "answered" => InStepWith(lists'[j], record)
    BY <1>4, <1>5 DEF IInv, InStep
  <2> QED
    BY <1>1, <2>1 DEF IInv, InStep, InStepWith, InstanceMessage
<1>9. GoneIsGone'
  BY <1>1, <1>4, <1>5 DEF IInv, GoneIsGone, NotFoundIsTrue
<1>10. Behind' /\ Told'
  BY <1>1, <1>3 DEF Behind, Told
<1> QED
  BY <1>6, <1>7, <1>8, <1>9, <1>10 DEF IInv

LEMMA PollKeeps ==
  ASSUME IInv, Poll
  PROVE  IInv'
<1>1. Len(lists) < MaxLists
  BY OnTheWay, BoundsAssumption DEF IInv, Poll
<1>2. UNCHANGED <<accepted, down, up, conn, faults>> /\ up = <<>>
  BY DEF IInv, PanelTypes, Poll, wireVars
<1> QED
  BY <1>1, <1>2, AskedKeeps DEF IInv, PanelTypes, SocketTypeOK, Poll

LEMMA OnOpenKeeps ==
  ASSUME IInv, OnOpen
  PROVE  IInv'
<1>1. /\ lists' = Append(lists, Asked) /\ Len(lists) < MaxLists
      /\ accepted /\ conn' = "open" /\ up' = up \o <<>>
      /\ UNCHANGED <<hubVars, viewVars, accepted, down, faults>>
  BY DEF OnOpen, Opened
<1>2. up' = <<>>
  <2>1. up = <<>>
    BY DEF IInv, PanelTypes
  <2> QED
    BY <1>1, <2>1
<1> QED
  BY <1>1, <1>2, AskedKeeps

\* The last message tells of the record as it is.
LEMMA OnMessageKeeps ==
  ASSUME IInv, OnMessage
  PROVE  IInv'
<1> DEFINE m == Head(down)
<1>1. /\ conn = "open" /\ down # <<>> /\ down' = Tail(down)
      /\ view' = [v |-> m.v, here |-> m.here, rep |-> Own]
      /\ seen' = Newest(seen, m.v) /\ overtaken' = FALSE
      /\ UNCHANGED <<record, report, lists, loading, loadError, accepted, up, conn, faults>>
  BY DEF OnMessage, hubVars
<1>2. down \in Seq(Message) /\ Len(down) \in Nat /\ DOMAIN down = 1..Len(down)
  BY OnTheWay DEF IInv, PanelTypes
<1>3. /\ down' \in Seq(Message) /\ Len(down') = Len(down) - 1 /\ m = down[1]
      /\ 1 \in DOMAIN down
      /\ \A j \in DOMAIN down' : j + 1 \in DOMAIN down /\ down'[j] = down[j+1]
  <2> DEFINE d == Tail(down)
  <2>1. /\ d \in Seq(Message) /\ Len(d) = Len(down) - 1 /\ DOMAIN d = 1..Len(d)
        /\ \A j \in 1..Len(down) - 1 : d[j] = down[j+1]
    BY <1>1, <1>2
  <2>2. Len(down) # 0
    BY <1>1, <1>2
  <2>3. m = down[1]
    BY <1>1, <1>2
  <2>4. down' = d
    BY <1>1
  <2> HIDE DEF d, m
  <2>5. Len(down) - 1 \in Nat /\ \A j \in 1..Len(down) - 1 : j + 1 \in 1..Len(down)
    BY <1>2, <2>2
  <2>6. 1 \in DOMAIN down /\ DOMAIN d = 1..Len(down) - 1
    BY <1>2, <2>1, <2>2
  <2>7. \A j \in DOMAIN d : j + 1 \in DOMAIN down /\ d[j] = down[j+1]
    BY <1>2, <2>1, <2>5, <2>6
  <2> QED
    BY <2>1, <2>3, <2>4, <2>6, <2>7
<1>4. /\ down' # <<>> => Len(down') \in DOMAIN down' /\ down'[Len(down')] = down[Len(down)]
      /\ down' = <<>> => Len(down) = 1
  <2>1. Len(down') \in Nat /\ DOMAIN down' = 1..Len(down')
    BY <1>3
  <2>2. down' # <<>> => Len(down') # 0
    BY <1>3
  <2>3. down' = <<>> => Len(down') = 0
    OBVIOUS
  <2> QED
    BY <1>2, <1>3, <2>1, <2>2, <2>3
<1>5. m.v \in Nat /\ m.here \in BOOLEAN
  BY <1>3, OnTheWay DEF IInv
<1>6. InStepWith(m, record) /\ (~m.here => ~record.here)
  BY <1>3 DEF IInv, InStep, GoneIsGone
<1> HIDE DEF m
<1>7. record.v \in Nat /\ seen \in Nat /\ seen <= record.v
  BY DEF IInv, PanelTypes, InStep
<1>8. seen' \in Nat /\ m.v <= seen' /\ seen' <= record.v /\ (m.v = record.v => seen' = record.v)
  BY <1>1, <1>5, <1>6, <1>7 DEF Newest, InStepWith
<1>9. /\ view'.v = m.v /\ view'.here = m.here
      /\ view' \in [v : Nat, here : BOOLEAN, rep : Reports]
  BY <1>1, <1>5 DEF Reports
<1>10. accepted /\ down' = <<>> => m.v = record.v /\ m.here = record.here
  BY <1>1, <1>3, <1>4 DEF IInv, InStep, InstanceMessage
<1>11. PanelTypes'
  BY <1>1, <1>3, <1>8, <1>9 DEF IInv, PanelTypes, SocketTypeOK
<1>12. SocketInv'
  BY <1>1 DEF IInv, SocketInv
<1>13. InStep'
  <2>1. \A j \in DOMAIN down' : InStepWith(down'[j], record)
    BY <1>3 DEF IInv, InStep
  <2>2. accepted /\ down' # <<>> => down'[Len(down')] = InstanceMessage(record)
    BY <1>1, <1>4 DEF IInv, InStep
  <2>3. \A j \in DOMAIN lists : /\ lists[j].v <= record.v
                                /\ lists[j].at = "answered" => InStepWith(lists[j], record)
    BY DEF IInv, InStep
  <2> QED
    BY <1>1, <1>8, <1>9, <2>1, <2>2, <2>3 DEF InStep, InStepWith, InstanceMessage
<1>14. GoneIsGone'
  BY <1>1, <1>3, <1>6, <1>9 DEF IInv, GoneIsGone, NotFoundIsTrue
<1>15. Behind' /\ Told'
  BY <1>1, <1>8, <1>9, <1>10 DEF Behind, Told, Caught, Current
<1> QED
  BY <1>11, <1>12, <1>13, <1>14, <1>15 DEF IInv

\* A step of the connection that leaves the browser without it, or without a
\* frame it did not have.
LEMMA SocketKeeps ==
  ASSUME IInv, SocketTypeOK', SocketInv', ~Caught', up' = <<>>,
         down' \in Seq(Message), \A j \in DOMAIN down' : j \in DOMAIN down /\ down'[j] = down[j],
         accepted' => down' = <<>>,
         UNCHANGED <<hubVars, lists, viewVars>>
  PROVE  IInv'
<1>1. UNCHANGED <<record, report, lists, view, loading, loadError, seen, overtaken>>
  BY DEF hubVars, viewVars
<1>2. PanelTypes'
  BY <1>1 DEF IInv, PanelTypes
<1>3. InStep'
  <2>1. \A j \in DOMAIN down' : InStepWith(down'[j], record)
    BY DEF IInv, InStep
  <2> QED
    BY <1>1, <2>1 DEF IInv, InStep, InStepWith, InstanceMessage
<1>4. GoneIsGone'
  BY <1>1 DEF IInv, GoneIsGone, NotFoundIsTrue
<1>5. Behind' /\ Told'
  BY DEF Behind, Told
<1> QED
  BY <1>2, <1>3, <1>4, <1>5 DEF IInv

LEMMA LoseKeeps ==
  ASSUME IInv, Lose
  PROVE  IInv'
<1>1. /\ conn # "closed" /\ accepted' = FALSE /\ up' = <<>> /\ Fault
      /\ UNCHANGED <<hubVars, lists, viewVars>>
  BY DEF Lose, Lost
<1>2. down \in Seq(Message) /\ Len(down) \in Nat
  BY OnTheWay DEF IInv, PanelTypes
<1>3. /\ down' \in Seq(Message)
      /\ \A j \in DOMAIN down' : j \in DOMAIN down /\ down'[j] = down[j]
      /\ conn' = (IF conn = "open" THEN conn ELSE "closed")
      /\ conn # "open" => down' = <<>>
  <2>1. CASE conn = "open"
    <3>1. PICK n \in 0..Len(down) : down' = SubSeq(down, 1, n)
      BY <2>1 DEF Lose, Lost
    <3> DEFINE d == SubSeq(down, 1, n)
    <3>2. /\ d \in Seq(Message) /\ DOMAIN d = 1..n /\ \A j \in 1..n : d[j] = down[j]
      BY <1>2
    <3>3. 1..n \subseteq DOMAIN down
      BY <1>2
    <3>4. down' = d /\ conn' = conn
      BY <2>1, <3>1 DEF Lose, Lost
    <3> HIDE DEF d
    <3> QED
      BY <2>1, <3>2, <3>3, <3>4
  <2>2. CASE conn # "open"
    <3>1. down' = <<>> /\ conn' = "closed"
      BY <2>2 DEF Lose, Lost
    <3> QED
      BY <2>2, <3>1
  <2> QED
    BY <2>1, <2>2
<1>4. SocketTypeOK'
  BY <1>1, <1>3, FaultCounts DEF IInv, PanelTypes, SocketTypeOK
<1>5. SocketInv' /\ ~Caught'
  BY <1>1, <1>3 DEF SocketInv, Caught
<1> QED
  BY <1>1, <1>3, <1>4, <1>5, SocketKeeps

LEMMA ConnectionKeeps ==
  ASSUME IInv, Accept \/ OnClose \/ Reconnect
  PROVE  IInv'
<1>1. /\ UNCHANGED <<hubVars, lists, viewVars, down, up, faults>>
      /\ down \in Seq(Message) /\ up = <<>>
  BY DEF IInv, PanelTypes, Accept, AcceptBrowser, OnClose, Closed, Reconnect, Retried
<1>2. SocketTypeOK'
  BY DEF IInv, PanelTypes, SocketTypeOK, Accept, AcceptBrowser, OnClose, Closed, Reconnect,
         Retried
<1>3. SocketInv' /\ ~Caught' /\ (accepted' => down' = <<>>)
  BY DEF IInv, SocketInv, Caught, Accept, AcceptBrowser, OnClose, Closed, Reconnect, Retried
<1> QED
  BY <1>1, <1>2, <1>3, SocketKeeps

LEMMA NextIInv == IInv /\ [Next]_vars => IInv'
<1> SUFFICES ASSUME IInv, [Next]_vars
             PROVE  IInv'
  OBVIOUS
<1>1. CASE Edit \/ RemoveInstance \/ AgentReports
  BY <1>1, ChangeKeeps, AgentReportsKeeps
<1>2. ASSUME NEW k \in 1..MaxLists, ListStep(k) \/ ListFails(k)
      PROVE  IInv'
  BY <1>2, ReadReportsKeeps, ReadRecordsKeeps, ListArrivesKeeps, ListFailsKeeps DEF ListStep
<1>3. CASE Poll \/ OnOpen \/ OnMessage
  BY <1>3, PollKeeps, OnOpenKeeps, OnMessageKeeps
<1>4. CASE Accept \/ Lose \/ OnClose \/ Reconnect
  BY <1>4, LoseKeeps, ConnectionKeeps
<1>5. CASE UNCHANGED vars
  <2>1. UNCHANGED <<record, report, lists, view, loading, loadError, seen, overtaken,
                    accepted, down, up, conn, faults>>
    BY <1>5 DEF vars, hubVars, viewVars, wireVars
  <2>2. PanelTypes' /\ SocketInv' /\ InStep' /\ GoneIsGone'
    BY <2>1 DEF IInv, PanelTypes, SocketTypeOK, SocketInv, InStep, InStepWith, GoneIsGone,
                NotFoundIsTrue, InstanceMessage
  <2>3. Behind' /\ Told'
    BY <2>1 DEF IInv, Behind, Told, Caught, Current, BetterComes, GoodIn
  <2> QED
    BY <2>2, <2>3 DEF IInv
<1> QED
  BY <1>1, <1>2, <1>3, <1>4, <1>5 DEF Next

LEMMA AlwaysIInv == Spec => []IInv
  BY InitIInv, NextIInv, PTL DEF Spec

(***************************************************************************)
(* The theorems.                                                           *)
(***************************************************************************)
(***************************************************************************)
(* The parts keep their shapes; no message, list or view is ahead of the   *)
(* hub's record, and "Loading" ends with the last list that comes back     *)
(* (useHubSocket.ts, hub.ts).                                              *)
(***************************************************************************)
THEOREM TypeCorrect == Spec => []TypeOK
<1>1. IInv => TypeOK
  <2> SUFFICES ASSUME IInv
               PROVE  TypeOK
    OBVIOUS
  <2>1. record.v \in Nat /\ seen \in 0..record.v /\ view.v \in 0..record.v
    BY DEF IInv, PanelTypes, InStep
  <2>2. view \in [v : 0..record.v, here : BOOLEAN, rep : Reports]
    BY <2>1 DEF IInv, PanelTypes
  <2>3. ASSUME NEW k \in DOMAIN down
        PROVE  down[k] \in [v : 0..record.v, here : BOOLEAN]
    <3>1. down[k] \in Message
      BY DEF IInv, PanelTypes
    <3>2. down[k].v <= record.v
      BY DEF IInv, InStep, InStepWith
    <3> QED
      BY <2>1, <3>1, <3>2 DEF Message
  <2>4. \A k \in DOMAIN lists : lists[k].v <= record.v
    BY DEF IInv, InStep
  <2> QED
    BY <2>1, <2>2, <2>3, <2>4 DEF IInv, PanelTypes, TypeOK
<1> QED
  BY <1>1, AlwaysIInv, PTL

(***************************************************************************)
(* On an open connection that has delivered everything, with no list on    *)
(* its way and no error shown, the panel has the hub's record, for any     *)
(* number of changes, lists, losses and reconnections, unless a list came  *)
(* back after newer news (onOpen and applyList in useHubSocket.ts).        *)
(***************************************************************************)
THEOREM LiveShowsRecord == Spec => []LiveIsCurrent
<1>1. IInv => LiveIsCurrent
  <2> SUFFICES ASSUME IInv, Settled, lists = <<>>, ~loadError, ~overtaken
               PROVE  view.here = record.here /\ view.v = record.v
    BY DEF LiveIsCurrent
  <2>1. Caught
    BY DEF Settled, Caught
  <2>2. ~GoodIn(lists, record.v)
    BY DEF GoodIn
  <2> QED
    BY <2>1, <2>2 DEF IInv, Told, Current
<1> QED
  BY <1>1, AlwaysIInv, PTL

(***************************************************************************)
(* "Instance not found." is said only of an instance that is gone, however *)
(* lists and messages overtake each other (InstanceDetail.tsx:142).        *)
(***************************************************************************)
THEOREM NotFoundIsGone == Spec => []NotFoundIsTrue
<1>1. IInv => NotFoundIsTrue
  BY DEF IInv, GoneIsGone
<1> QED
  BY <1>1, AlwaysIInv, PTL

----------------------------------------------------------------------------
(***************************************************************************)
(* ConfigEditor.                                                           *)
(***************************************************************************)

(***************************************************************************)
(* Induction over the natural numbers, for a set of them: the library's    *)
(* theorem takes an operator, which the provers cannot instantiate.        *)
(***************************************************************************)
LEMMA LeastNat ==
  ASSUME NEW T \in SUBSET Nat, T # {}
  PROVE  \E x \in T : \A y \in T : x <= y
<1>1. \E x \in T : \A y \in T : ~ (<<y, x>> \in OpToRel(<, Nat))
  BY NatLessThanWellFounded, WFMin, Zenon
<1>2. PICK x \in T : \A y \in T : ~ (<<y, x>> \in OpToRel(<, Nat))
  BY <1>1
<1>3. \A y \in T : <<y, x>> \in OpToRel(<, Nat) <=> y < x
  BY DEF OpToRel
<1>4. \A y \in T : x \in Nat /\ y \in Nat /\ ~(y < x)
  BY <1>2, <1>3
<1> QED
  BY <1>4

LEMMA InductionOnASet ==
  ASSUME NEW S \in SUBSET Nat, 0 \in S, \A n \in S : n + 1 \in S
  PROVE  S = Nat
<1> SUFFICES ASSUME Nat \ S # {}
             PROVE  FALSE
  OBVIOUS
<1>1. PICK x \in Nat \ S : \A y \in Nat \ S : x <= y
  BY LeastNat
<1>2. x # 0 /\ x - 1 \in Nat
  OBVIOUS
<1>3. x - 1 \in S
  BY <1>1, <1>2
<1>4. (x - 1) + 1 = x
  OBVIOUS
<1> QED
  BY <1>1, <1>3, <1>4

\* The same up to a bound.
LEMMA InductionUpTo ==
  ASSUME NEW N \in Nat, NEW S, 0 \in S, \A n \in 0..N-1 : n \in S => n + 1 \in S
  PROVE  0..N \subseteq S
<1> DEFINE T == {n \in Nat : n <= N => n \in S}
<1>1. 0 \in T
  OBVIOUS
<1>2. ASSUME NEW n \in T
      PROVE  n + 1 \in T
  <2>1. CASE n + 1 <= N
    <3>1. n \in 0..N-1 /\ n \in S
      BY <2>1
    <3> QED
      BY <3>1
  <2>2. CASE ~(n + 1 <= N)
    BY <2>2
  <2> QED
    BY <2>1, <2>2
<1>3. T = Nat
  <2> HIDE DEF T
  <2>1. T \in SUBSET Nat
    BY DEF T
  <2> QED
    BY <1>1, <1>2, <2>1, InductionOnASet
<1> QED
  BY <1>3

(***************************************************************************)
(* The hosts of a service.                                                 *)
(***************************************************************************)
\* The loop over the hosts, as the recursive function of FirstSpellings.
Loop(f, w) == f = [n \in 0..Len(w) |-> IF n = 0 THEN <<>> ELSE Keep(f[n-1], w[n])]

\* As far as n.
LoopTo(f, w, n) ==
  /\ f[0] = <<>>
  /\ \A m \in 1..n : f[m] = Keep(f[m-1], w[m])

LEMMA LoopExists ==
  ASSUME NEW w \in Seq(Host)
  PROVE  \E f : Loop(f, w)
<1> DEFINE S == {n \in Nat : n <= Len(w) => \E f : LoopTo(f, w, n)}
<1>0. Len(w) \in Nat
  OBVIOUS
<1>1. 0 \in S
  <2> DEFINE f == [n \in {0} |-> <<>>]
  <2>1. f[0] = <<>>
    OBVIOUS
  <2> HIDE DEF f
  <2>2. LoopTo(f, w, 0)
    BY <2>1 DEF LoopTo
  <2> QED
    BY <2>2
<1>2. ASSUME NEW n \in 0..Len(w)-1, n \in S
      PROVE  n + 1 \in S
  <2>1. PICK f : LoopTo(f, w, n)
    BY <1>0, <1>2
  <2> DEFINE g == [m \in 0..n+1 |-> IF m <= n THEN f[m] ELSE Keep(f[n], w[n+1])]
  <2>2. /\ \A m \in 0..n : g[m] = f[m]
        /\ g[n+1] = Keep(f[n], w[n+1])
    BY <1>0
  <2> HIDE DEF g
  <2>3. g[0] = <<>>
    BY <1>0, <2>1, <2>2 DEF LoopTo
  <2>4. ASSUME NEW m \in 1..n+1
        PROVE  g[m] = Keep(g[m-1], w[m])
    <3>1. CASE m \in 1..n
      <4>1. m - 1 \in 0..n /\ m \in 0..n
        BY <1>0, <3>1
      <4> QED
        BY <2>1, <2>2, <3>1, <4>1 DEF LoopTo
    <3>2. CASE m = n + 1
      <4>1. m - 1 = n /\ n \in 0..n
        BY <1>0, <3>2
      <4> QED
        BY <2>2, <3>2, <4>1
    <3> QED
      BY <1>0, <3>1, <3>2
  <2>5. LoopTo(g, w, n + 1)
    BY <2>3, <2>4 DEF LoopTo
  <2> QED
    BY <1>0, <2>5
<1>3. Len(w) \in S
  <2> HIDE DEF S
  <2>1. 0..Len(w) \subseteq S
    BY <1>0, <1>1, <1>2, InductionUpTo
  <2> QED
    BY <1>0, <2>1
<1>4. PICK f : LoopTo(f, w, Len(w))
  BY <1>0, <1>3
<1> DEFINE g == [n \in 0..Len(w) |-> f[n]]
           h == [n \in 0..Len(w) |-> IF n = 0 THEN <<>> ELSE Keep(g[n-1], w[n])]
<1>5. ASSUME NEW n \in 0..Len(w)
      PROVE  g[n] = IF n = 0 THEN <<>> ELSE Keep(g[n-1], w[n])
  <2>1. CASE n = 0
    BY <1>0, <1>4, <2>1 DEF LoopTo
  <2>2. CASE n # 0
    <3>1. n \in 1..Len(w) /\ n - 1 \in 0..Len(w)
      BY <1>0, <2>2
    <3>2. g[n] = f[n] /\ g[n-1] = f[n-1]
      BY <3>1
    <3> QED
      BY <1>4, <2>2, <3>1, <3>2 DEF LoopTo
  <2> QED
    BY <2>1, <2>2
<1>6. g = h
  <2>1. \A n \in 0..Len(w) : g[n] = h[n]
    BY <1>5
  <2> QED
    BY <2>1
<1> QED
  BY <1>6 DEF Loop

\* What FirstSpellings returns is the end of a loop.
LEMMA SpellingsLoop ==
  ASSUME NEW w \in Seq(Host)
  PROVE  \E f : LoopTo(f, w, Len(w)) /\ FirstSpellings(w) = f[Len(w)]
<1> DEFINE f == CHOOSE g : Loop(g, w)
<1>1. Loop(f, w)
  BY LoopExists
<1>2. FirstSpellings(w) = f[Len(w)]
  BY DEF FirstSpellings, Loop
<1> HIDE DEF f
<1>3. Len(w) \in Nat
  OBVIOUS
<1>4. LoopTo(f, w, Len(w))
  <2>1. f[0] = <<>>
    BY <1>1, <1>3 DEF Loop
  <2>2. \A m \in 1..Len(w) : f[m] = Keep(f[m-1], w[m])
    BY <1>1, <1>3 DEF Loop
  <2> QED
    BY <2>1, <2>2 DEF LoopTo
<1> QED
  BY <1>2, <1>4

\* q is what the loop keeps of the first n of w: no blank, nothing that was not
\* written, one spelling of each.
KeptOf(q, w, n) ==
  /\ q \in Seq(Host)
  /\ \A k \in DOMAIN q : ~Blank(q[k]) /\ \E j \in 1..n : q[k] = w[j]
  /\ \A j \in 1..n : Blank(w[j]) \/ \E k \in DOMAIN q : PanelKey(q[k]) = PanelKey(w[j])
  /\ \A k, l \in DOMAIN q : PanelKey(q[k]) = PanelKey(q[l]) => k = l

LEMMA KeepIs ==
  ASSUME NEW w \in Seq(Host), NEW n \in 0..Len(w)-1, NEW q, KeptOf(q, w, n)
  PROVE  KeptOf(Keep(q, w[n+1]), w, n + 1)
<1> DEFINE h == w[n+1]
<1>1. Len(w) \in Nat /\ n + 1 \in 1..Len(w) /\ h \in Host
  OBVIOUS
<1>2. \A j \in 1..n+1 : j \in 1..n \/ j = n + 1
  BY <1>1
<1>3. 1..n \subseteq 1..n+1 /\ n + 1 \in 1..n+1
  BY <1>1
<1>4. CASE Blank(h)
  <2>1. Keep(q, h) = q
    BY <1>4 DEF Keep
  <2> HIDE DEF h
  <2>2. KeptOf(q, w, n + 1)
    <3>1. \A j \in 1..n+1 : Blank(w[j]) \/ \E k \in DOMAIN q : PanelKey(q[k]) = PanelKey(w[j])
      BY <1>2, <1>4 DEF KeptOf, h
    <3>2. \A k \in DOMAIN q : ~Blank(q[k]) /\ \E j \in 1..n+1 : q[k] = w[j]
      BY <1>3 DEF KeptOf
    <3> QED
      BY <3>1, <3>2 DEF KeptOf
  <2> QED
    BY <2>1, <2>2 DEF h
<1>5. CASE \E k \in DOMAIN q : PanelKey(q[k]) = PanelKey(h)
  <2>1. Keep(q, h) = q
    BY <1>5 DEF Keep
  <2> HIDE DEF h
  <2>2. KeptOf(q, w, n + 1)
    <3>1. \A j \in 1..n+1 : Blank(w[j]) \/ \E k \in DOMAIN q : PanelKey(q[k]) = PanelKey(w[j])
      BY <1>2, <1>5 DEF KeptOf, h
    <3>2. \A k \in DOMAIN q : ~Blank(q[k]) /\ \E j \in 1..n+1 : q[k] = w[j]
      BY <1>3 DEF KeptOf
    <3> QED
      BY <3>1, <3>2 DEF KeptOf
  <2> QED
    BY <2>1, <2>2 DEF h
<1>6. CASE ~Blank(h) /\ ~\E k \in DOMAIN q : PanelKey(q[k]) = PanelKey(h)
  <2> DEFINE p == Append(q, h)
  <2>1. Keep(q, h) = p
    BY <1>6 DEF Keep
  <2>2. /\ p \in Seq(Host) /\ DOMAIN p = 1..Len(q)+1 /\ DOMAIN q = 1..Len(q)
        /\ p[Len(q)+1] = h /\ \A k \in 1..Len(q) : p[k] = q[k]
    BY <1>1 DEF KeptOf
  <2>3. Len(q) \in Nat
    BY DEF KeptOf
  <2> HIDE DEF h, p
  <2>4. /\ \A k \in DOMAIN p : k \in DOMAIN q \/ k = Len(q) + 1
        /\ DOMAIN q \subseteq DOMAIN p /\ Len(q) + 1 \in DOMAIN p
    BY <2>2, <2>3
  <2>5. \A k \in DOMAIN p : ~Blank(p[k]) /\ \E j \in 1..n+1 : p[k] = w[j]
    BY <1>3, <1>6, <2>2, <2>4 DEF KeptOf, h
  <2>6. \A j \in 1..n+1 : Blank(w[j]) \/ \E k \in DOMAIN p : PanelKey(p[k]) = PanelKey(w[j])
    <3>1. ASSUME NEW j \in 1..n, ~Blank(w[j])
          PROVE  \E k \in DOMAIN p : PanelKey(p[k]) = PanelKey(w[j])
      <4>1. PICK k \in DOMAIN q : PanelKey(q[k]) = PanelKey(w[j])
        BY <3>1 DEF KeptOf
      <4>2. k \in DOMAIN p /\ p[k] = q[k]
        BY <2>2, <2>4
      <4> QED
        BY <4>1, <4>2
    <3>2. \E k \in DOMAIN p : PanelKey(p[k]) = PanelKey(w[n+1])
      BY <2>2, <2>4 DEF h
    <3> QED
      BY <1>2, <3>1, <3>2
  <2>7. ASSUME NEW k \in DOMAIN p, NEW l \in DOMAIN p, PanelKey(p[k]) = PanelKey(p[l])
        PROVE  k = l
    <3>1. CASE k \in DOMAIN q /\ l \in DOMAIN q
      BY <2>2, <2>7, <3>1 DEF KeptOf
    <3>2. CASE k \in DOMAIN q /\ l = Len(q) + 1
      BY <1>6, <2>2, <2>7, <3>2
    <3>3. CASE k = Len(q) + 1 /\ l \in DOMAIN q
      <4>1. p[k] = h /\ p[l] = q[l]
        BY <2>2, <3>3
      <4>2. PanelKey(q[l]) = PanelKey(h)
        BY <2>7, <4>1
      <4> QED
        BY <1>6, <3>3, <4>2
    <3> QED
      BY <2>4, <3>1, <3>2, <3>3
  <2> QED
    BY <2>1, <2>2, <2>5, <2>6, <2>7 DEF KeptOf, h
<1> QED
  BY <1>4, <1>5, <1>6

LEMMA SpellingsKept ==
  ASSUME NEW w \in Seq(Host)
  PROVE  KeptOf(FirstSpellings(w), w, Len(w))
<1>1. PICK f : LoopTo(f, w, Len(w)) /\ FirstSpellings(w) = f[Len(w)]
  BY SpellingsLoop
<1> DEFINE S == {n \in 0..Len(w) : KeptOf(f[n], w, n)}
<1>2. Len(w) \in Nat
  OBVIOUS
<1>3. 0 \in S
  <2>1. f[0] = <<>>
    BY <1>1 DEF LoopTo
  <2>2. KeptOf(<<>>, w, 0)
    BY DEF KeptOf
  <2> QED
    BY <1>2, <2>1, <2>2
<1>4. ASSUME NEW n \in 0..Len(w)-1, n \in S
      PROVE  n + 1 \in S
  <2>1. n + 1 \in 1..Len(w) /\ (n + 1) - 1 = n /\ n + 1 \in 0..Len(w)
    BY <1>2
  <2>2. f[n+1] = Keep(f[n], w[n+1])
    BY <1>1, <2>1 DEF LoopTo
  <2>3. KeptOf(Keep(f[n], w[n+1]), w, n + 1)
    BY <1>4, KeepIs
  <2> QED
    BY <2>1, <2>2, <2>3
<1>5. Len(w) \in S
  <2> HIDE DEF S
  <2>1. 0..Len(w) \subseteq S
    BY <1>2, <1>3, <1>4, InductionUpTo
  <2> QED
    BY <1>2, <2>1
<1> QED
  BY <1>1, <1>5

\* A list of different spellings, none of them blank, stays as it is.
LEMMA SpellingsStay ==
  ASSUME NEW q \in Seq(Host), \A k \in DOMAIN q : ~Blank(q[k]),
         \A k, l \in DOMAIN q : PanelKey(q[k]) = PanelKey(q[l]) => k = l
  PROVE  FirstSpellings(q) = q
<1>1. PICK f : LoopTo(f, q, Len(q)) /\ FirstSpellings(q) = f[Len(q)]
  BY SpellingsLoop
<1> DEFINE IsStart(p, n) == /\ p \in Seq(Host) /\ Len(p) = n
                            /\ \A k \in 1..n : p[k] = q[k]
           S == {n \in 0..Len(q) : IsStart(f[n], n)}
<1>2. Len(q) \in Nat /\ DOMAIN q = 1..Len(q)
  OBVIOUS
<1>3. 0 \in S
  <2>1. f[0] = <<>>
    BY <1>1 DEF LoopTo
  <2>2. IsStart(<<>>, 0)
    OBVIOUS
  <2>3. IsStart(f[0], 0)
    BY <2>1, <2>2
  <2> HIDE DEF IsStart
  <2> QED
    BY <1>2, <2>3
<1>4. ASSUME NEW n \in 0..Len(q)-1, n \in S
      PROVE  n + 1 \in S
  <2> DEFINE p == f[n]
             h == q[n+1]
  <2>1. /\ n + 1 \in 1..Len(q) /\ (n + 1) - 1 = n /\ n + 1 \in 0..Len(q) /\ h \in Host
        /\ n + 1 \in DOMAIN q
    BY <1>2
  <2>2. f[n+1] = Keep(p, h)
    BY <1>1, <2>1 DEF LoopTo
  <2>3. p \in Seq(Host) /\ Len(p) = n /\ \A k \in 1..n : p[k] = q[k]
    BY <1>4
  <2>4. DOMAIN p = 1..n
    BY <2>3
  <2>5. ASSUME NEW k \in DOMAIN p
        PROVE  PanelKey(p[k]) # PanelKey(h)
    <3>1. k \in DOMAIN q /\ k # n + 1 /\ p[k] = q[k]
      BY <1>2, <2>3, <2>4
    <3> QED
      BY <2>1, <3>1
  <2>6. Keep(p, h) = Append(p, h)
    BY <2>1, <2>5 DEF Keep
  <2> HIDE DEF p, h
  <2>7. /\ Append(p, h) \in Seq(Host) /\ Len(Append(p, h)) = n + 1
        /\ \A k \in 1..n : Append(p, h)[k] = p[k]
        /\ Append(p, h)[n+1] = h
    BY <2>1, <2>3
  <2>8. IsStart(Append(p, h), n + 1)
    <3>1. \A k \in 1..n+1 : k \in 1..n \/ k = n + 1
      OBVIOUS
    <3> QED
      BY <2>3, <2>7, <3>1 DEF h
  <2> HIDE DEF IsStart
  <2> QED
    BY <2>1, <2>2, <2>6, <2>8
<1>5. Len(q) \in S
  <2> HIDE DEF S
  <2>1. 0..Len(q) \subseteq S
    BY <1>2, <1>3, <1>4, InductionUpTo
  <2> QED
    BY <1>2, <2>1
<1>6. f[Len(q)] = q
  <2> DEFINE p == f[Len(q)]
  <2>1. p \in Seq(Host) /\ Len(p) = Len(q) /\ \A k \in 1..Len(q) : p[k] = q[k]
    BY <1>5
  <2> HIDE DEF p
  <2>2. p = q
    BY <2>1
  <2> QED
    BY <2>2 DEF p
<1> QED
  BY <1>1, <1>6

\* A host is one host, unless it is a list of them.
LEMMA ParsedHosts ==
  ASSUME NEW h \in Host
  PROVE  /\ ParseHttpHostsInput(h) \in Seq(Host)
         /\ h.label \notin ListLabels => ParseHttpHostsInput(h) = <<h>>
<1>1. CASE h.label \in ListLabels
  <2>1. h \in HostLists
    BY <1>1 DEF Host, HostLists
  <2>2. NamesIn[h] \in Seq(Host)
    BY <2>1, ListsAssumption
  <2> QED
    BY <1>1, <2>2 DEF ParseHttpHostsInput
<1>2. CASE h.label \notin ListLabels
  <2>1. ParseHttpHostsInput(h) = <<h>>
    BY <1>2 DEF ParseHttpHostsInput
  <2> QED
    BY <2>1
<1> QED
  BY <1>1, <1>2

LEMMA HostsKept ==
  ASSUME NEW s \in Service
  PROVE  /\ WrittenHosts(s) \in Seq(Host)
         /\ KeptOf(ServiceHttpHosts(s), WrittenHosts(s), Len(WrittenHosts(s)))
         /\ ServiceHttpHosts(s) \in Seq(Host)
<1>1. /\ s.httpHosts \in Seq(Host) \/ s.httpHosts = Absent
      /\ s.httpHost \in Host \/ s.httpHost = Absent
  BY DEF Service
<1> DEFINE a == IF s.httpHosts = Absent THEN <<>> ELSE s.httpHosts
           b == IF s.httpHost = Absent THEN <<>> ELSE ParseHttpHostsInput(s.httpHost)
<1>2. a \in Seq(Host) /\ b \in Seq(Host)
  BY <1>1, ParsedHosts
<1>3. WrittenHosts(s) = a \o b
  BY DEF WrittenHosts
<1> HIDE DEF a, b
<1>4. WrittenHosts(s) \in Seq(Host)
  BY <1>2, <1>3
<1>5. KeptOf(ServiceHttpHosts(s), WrittenHosts(s), Len(WrittenHosts(s)))
  BY <1>4, SpellingsKept DEF ServiceHttpHosts
<1> QED
  BY <1>4, <1>5 DEF KeptOf

\* The names a list of hosts is about.
Labels(q) == {q[k].label : k \in DOMAIN q}

\* Dropping spellings drops no name.
LEMMA LabelsKept ==
  ASSUME NEW s \in Service
  PROVE  Labels(ServiceHttpHosts(s)) \ {""} = Labels(WrittenHosts(s)) \ {""}
<1> DEFINE w == WrittenHosts(s)
           q == ServiceHttpHosts(s)
<1>1. w \in Seq(Host) /\ KeptOf(q, w, Len(w)) /\ DOMAIN w = 1..Len(w)
  BY HostsKept
<1> HIDE DEF w, q
<1>2. ASSUME NEW k \in DOMAIN q
      PROVE  \E j \in DOMAIN w : w[j].label = q[k].label
  <2>1. PICK j \in 1..Len(w) : q[k] = w[j]
    BY <1>1 DEF KeptOf
  <2> QED
    BY <1>1, <2>1
<1>3. ASSUME NEW j \in DOMAIN w, w[j].label # ""
      PROVE  \E k \in DOMAIN q : q[k].label = w[j].label
  <2>1. PICK k \in DOMAIN q : PanelKey(q[k]) = PanelKey(w[j])
    BY <1>1, <1>3 DEF KeptOf, Blank
  <2>2. q[k].label = w[j].label
    BY <2>1 DEF PanelKey
  <2> QED
    BY <2>2
<1>4. Labels(q) \ {""} = Labels(w) \ {""}
  <2>1. ASSUME NEW x \in Labels(q)
        PROVE  x \in Labels(w)
    BY <1>2 DEF Labels
  <2>2. ASSUME NEW x \in Labels(w), x # ""
        PROVE  x \in Labels(q)
    BY <1>3, <2>2 DEF Labels
  <2> QED
    BY <2>1, <2>2
<1> QED
  BY <1>4 DEF w, q

\* The labels the agent reads are the ones the panel reads, lists aside.
LEMMA AgentLabels ==
  ASSUME NEW s \in Service, s.httpEnabled # FALSE
  PROVE  /\ \A x \in AgentHosts(s) : x \notin ListLabels => x \in Labels(WrittenHosts(s)) \ {""}
         /\ ~ListsHosts(s) => AgentHosts(s) = Labels(WrittenHosts(s)) \ {""}
<1> DEFINE a == IF s.httpHosts = Absent THEN <<>> ELSE s.httpHosts
           b == IF s.httpHost = Absent THEN <<>> ELSE ParseHttpHostsInput(s.httpHost)
           Mine == IF s.httpHosts = Absent THEN {} ELSE ToSet(s.httpHosts)
           Yours == IF s.httpHost = Absent THEN {} ELSE {s.httpHost}
<1>1. /\ s.httpHosts \in Seq(Host) \/ s.httpHosts = Absent
      /\ s.httpHost \in Host \/ s.httpHost = Absent
  BY DEF Service
<1>2. a \in Seq(Host) /\ b \in Seq(Host)
  BY <1>1, ParsedHosts
<1>3. Mine = {a[k] : k \in DOMAIN a}
  <2>1. CASE s.httpHosts = Absent
    BY <2>1
  <2>2. CASE s.httpHosts # Absent
    BY <2>2 DEF ToSet
  <2> QED
    BY <2>1, <2>2
<1>4. ASSUME NEW h \in Yours, h.label \notin ListLabels
      PROVE  h \in {b[k] : k \in DOMAIN b}
  <2>1. h = s.httpHost /\ s.httpHost # Absent /\ h \in Host
    BY <1>1, <1>4
  <2>2. b = <<h>>
    BY <1>4, <2>1, ParsedHosts
  <2> HIDE DEF b
  <2>3. 1 \in DOMAIN b /\ b[1] = h
    BY <2>2
  <2> QED
    BY <2>3
<1>5. ASSUME ~ListsHosts(s)
      PROVE  Yours = {b[k] : k \in DOMAIN b}
  <2>1. CASE s.httpHost = Absent
    BY <2>1
  <2>2. CASE s.httpHost # Absent
    <3>1. s.httpHost \in Host /\ s.httpHost.label \notin ListLabels
      BY <1>1, <1>5, <2>2 DEF ListsHosts
    <3>2. b = <<s.httpHost>>
      BY <2>2, <3>1, ParsedHosts
    <3>3. Yours = {s.httpHost}
      BY <2>2
    <3> HIDE DEF b, Yours
    <3>4. DOMAIN b = {1} /\ b[1] = s.httpHost
      BY <3>2
    <3> QED
      BY <3>3, <3>4
  <2> QED
    BY <2>1, <2>2
<1>6. /\ WrittenHosts(s) = a \o b
      /\ AgentHosts(s) = {h.label : h \in Mine \cup Yours} \ {""}
  BY DEF WrittenHosts, AgentHosts
<1> DEFINE w == WrittenHosts(s)
           A == {a[k] : k \in DOMAIN a}
           B == {b[k] : k \in DOMAIN b}
           W == {w[k] : k \in DOMAIN w}
<1> HIDE DEF a, b, Mine, Yours
<1>7. W = A \cup B
  <2>0. w = a \o b
    BY <1>6
  <2> HIDE DEF w
  <2>1. /\ Len(w) = Len(a) + Len(b)
        /\ DOMAIN w = 1..Len(w) /\ DOMAIN a = 1..Len(a) /\ DOMAIN b = 1..Len(b)
        /\ Len(a) \in Nat /\ Len(b) \in Nat
    BY <1>2, <2>0
  <2>2. \A k \in DOMAIN w : w[k] = IF k <= Len(a) THEN a[k] ELSE b[k - Len(a)]
    BY <1>2, <2>0
  <2>3. \A k \in DOMAIN w : IF k <= Len(a) THEN k \in DOMAIN a ELSE k - Len(a) \in DOMAIN b
    BY <2>1
  <2>4. W \subseteq A \cup B
    BY <2>2, <2>3
  <2>5. A \subseteq W
    <3>1. \A k \in DOMAIN a : k \in DOMAIN w /\ w[k] = a[k]
      BY <2>1, <2>2
    <3> QED
      BY <3>1
  <2>6. B \subseteq W
    <3>1. \A k \in DOMAIN b : k + Len(a) \in DOMAIN w /\ w[k + Len(a)] = b[k]
      BY <2>1, <2>2
    <3> QED
      BY <3>1
  <2> QED
    BY <2>4, <2>5, <2>6
<1>8. Labels(w) = {h.label : h \in W}
  BY DEF Labels
<1> HIDE DEF W, A, B, w
<1>9. ASSUME NEW x \in AgentHosts(s), x \notin ListLabels
      PROVE  x \in Labels(w) \ {""}
  <2>1. PICK h \in Mine \cup Yours : x = h.label
    BY <1>6, <1>9
  <2>2. h \in W
    BY <1>3, <1>4, <1>7, <1>9, <2>1 DEF A, B
  <2> QED
    BY <1>6, <1>8, <1>9, <2>1, <2>2
<1>10. ~ListsHosts(s) => AgentHosts(s) = Labels(w) \ {""}
  BY <1>3, <1>5, <1>6, <1>7, <1>8 DEF A, B
<1> QED
  BY <1>9, <1>10 DEF w

\* The agent's hosts are the panel's, but for the name of a list of hosts.
LEMMA AgentHostsAre ==
  ASSUME NEW s \in Service, ~ListsHosts(s)
  PROVE  AgentHosts(s) = IF s.httpEnabled = FALSE THEN {}
                         ELSE Labels(ServiceHttpHosts(s)) \ {""}
<1>1. s.httpEnabled = FALSE => AgentHosts(s) = {}
  BY DEF AgentHosts
<1>2. Labels(WrittenHosts(s)) \ {""} = Labels(ServiceHttpHosts(s)) \ {""}
  BY LabelsKept
<1> QED
  BY <1>1, <1>2, AgentLabels

LEMMA AgentHostsAmong ==
  ASSUME NEW s \in Service, NEW x \in AgentHosts(s), x \notin ListLabels
  PROVE  s.httpEnabled # FALSE /\ x \in Labels(ServiceHttpHosts(s)) \ {""}
<1>1. s.httpEnabled # FALSE
  BY DEF AgentHosts
<1>2. Labels(WrittenHosts(s)) \ {""} = Labels(ServiceHttpHosts(s)) \ {""}
  BY LabelsKept
<1>3. x \in Labels(WrittenHosts(s)) \ {""}
  BY <1>1, AgentLabels
<1> QED
  BY <1>1, <1>2, <1>3

\* A list of hosts is a name to the agent, which serves it unless told not to.
LEMMA ListServed ==
  ASSUME NEW s \in Service, ListsHosts(s), s.httpEnabled # FALSE
  PROVE  AgentHosts(s) # {}
<1>1. s.httpHost # Absent /\ s.httpHost.label \in ListLabels /\ s.httpHost.label # ""
  BY ListsAssumption DEF ListsHosts
<1>2. s.httpHost.label \in AgentHosts(s)
  BY <1>1 DEF AgentHosts
<1> QED
  BY <1>2

LEMMA HasRoute ==
  ASSUME NEW s \in Service
  PROVE  /\ HasHttpRoute(s) <=> \E k \in DOMAIN ServiceHttpHosts(s) : TRUE
         /\ \A x \in AgentHosts(s) : x \notin ListLabels => HasHttpRoute(s) /\ s.httpEnabled # FALSE
         /\ ~ListsHosts(s) /\ AgentHosts(s) # {} => HasHttpRoute(s) /\ s.httpEnabled # FALSE
<1>1. ServiceHttpHosts(s) \in Seq(Host)
  BY HostsKept
<1>2. HasHttpRoute(s) <=> \E k \in DOMAIN ServiceHttpHosts(s) : TRUE
  <2> DEFINE q == ServiceHttpHosts(s)
  <2>1. q \in Seq(Host)
    BY <1>1
  <2> HIDE DEF q
  <2>2. q # <<>> <=> \E k \in DOMAIN q : TRUE
    <3>1. Len(q) \in Nat /\ DOMAIN q = 1..Len(q)
      BY <2>1
    <3>2. q # <<>> => Len(q) # 0
      BY <2>1
    <3>3. q # <<>> => 1 \in DOMAIN q
      BY <3>1, <3>2
    <3>4. q = <<>> => DOMAIN q = {}
      OBVIOUS
    <3> QED
      BY <3>3, <3>4
  <2> QED
    BY <2>2 DEF HasHttpRoute, q
<1>3. ASSUME NEW x \in AgentHosts(s), x \notin ListLabels
      PROVE  s.httpEnabled # FALSE /\ \E k \in DOMAIN ServiceHttpHosts(s) : TRUE
  BY <1>3, AgentHostsAmong DEF Labels
<1>4. ~ListsHosts(s) /\ AgentHosts(s) # {} =>
         s.httpEnabled # FALSE /\ \E k \in DOMAIN ServiceHttpHosts(s) : TRUE
  BY AgentHostsAre DEF Labels
<1> QED
  BY <1>2, <1>3, <1>4

(***************************************************************************)
(* normalizeConfig                                                         *)
(***************************************************************************)
LEMMA TrimIs ==
  ASSUME NEW t \in Text
  PROVE  Trim(t) \in Text /\ Trim(Trim(t)) = Trim(t)
<1>1. /\ Trim("padded") = "good" /\ Trim("good") = "good"
      /\ Trim("blank") = "" /\ Trim("") = ""
  BY DEF Trim
<1>2. ASSUME t # "padded", t # "blank"
      PROVE  Trim(t) = t
  BY <1>2 DEF Trim
<1> QED
  BY <1>1, <1>2, TextAssumption

Certificates == Certificate \cup {Absent}

LEMMA NormalCertificateIs ==
  ASSUME NEW cert \in Certificates
  PROVE  /\ NormalCertificate(cert) \in Certificates
         /\ NormalCertificate(cert) = Absent <=> cert = Absent
         /\ cert # Absent => /\ NormalCertificate(cert).enabled = cert.enabled
                             /\ NormalCertificate(cert).pem = Trim(cert.pem)
<1>1. CASE cert = Absent
  BY <1>1 DEF NormalCertificate, Certificates
<1>2. CASE cert # Absent
  <2>1. cert.enabled \in BOOLEAN /\ cert.pem \in Text
    BY <1>2 DEF Certificates, Certificate
  <2>2. Trim(cert.pem) \in Text
    BY <2>1, TrimIs
  <2>3. NormalCertificate(cert) = [enabled |-> cert.enabled, pem |-> Trim(cert.pem)]
    BY <1>2 DEF NormalCertificate
  <2>4. NormalCertificate(cert) \in Certificate
    BY <2>1, <2>2, <2>3 DEF Certificate
  <2> QED
    BY <1>2, <2>3, <2>4, AbsentAssumption DEF Certificates
<1> QED
  BY <1>1, <1>2

LEMMA NormalServiceIs ==
  ASSUME NEW s \in Service, NEW i \in Nat, NEW cert \in Certificates
  PROVE  /\ NormalService(s, i, cert) \in Service
         /\ NormalService(s, i, cert).name = s.name
         /\ NormalService(s, i, cert).type = IF s.type \in {"http", "https"} THEN "tcp" ELSE s.type
         /\ NormalService(s, i, cert).bindAddr =
               IF s.type \in {"http", "https"} THEN RestorePublicBindAddr(s, i) ELSE s.bindAddr
         /\ NormalService(s, i, cert).token = s.token
         /\ NormalService(s, i, cert).domain = Absent
         /\ NormalService(s, i, cert).httpHost = Absent
         /\ NormalService(s, i, cert).httpHosts =
               IF ServiceHttpHosts(s) = <<>> THEN Absent ELSE ServiceHttpHosts(s)
         /\ NormalService(s, i, cert).httpEnabled = NormalFlag(s)
         /\ NormalService(s, i, cert).httpUpstreamTls =
               IF s.type # "udp" /\ (s.httpUpstreamTls = TRUE \/ s.type = "https")
               THEN TRUE ELSE Absent
         /\ NormalService(s, i, cert).customCertificate =
               NormalCertificate(MigratedCertificate(s, cert))
<1> DEFINE t == IF s.type \in {"http", "https"} THEN "tcp" ELSE s.type
           b == IF s.type \in {"http", "https"} THEN RestorePublicBindAddr(s, i) ELSE s.bindAddr
           hosts == IF ServiceHttpHosts(s) = <<>> THEN Absent ELSE ServiceHttpHosts(s)
           flag == NormalFlag(s)
           tls == IF s.type # "udp" /\ (s.httpUpstreamTls = TRUE \/ s.type = "https")
                  THEN TRUE ELSE Absent
           own == NormalCertificate(MigratedCertificate(s, cert))
           n == [name |-> s.name, type |-> t, bindAddr |-> b, token |-> s.token, domain |-> Absent,
                 httpHosts |-> hosts, httpHost |-> Absent, httpEnabled |-> flag,
                 httpUpstreamTls |-> tls, customCertificate |-> own]
<1>1. NormalService(s, i, cert) = n
  BY DEF NormalService
<1>2. t \in {"tcp", "udp", "http", "https"}
  BY DEF Service
<1>3. b \in Addr
  <2>1. s.bindAddr \in Addr
    BY DEF Service
  <2>2. DefaultPublicBindAddr(i) \in Addr
    <3>1. 5000 + i \in Int
      OBVIOUS
    <3> QED
      BY <3>1 DEF DefaultPublicBindAddr, Addr
  <2> QED
    BY <2>1, <2>2 DEF RestorePublicBindAddr
<1>4. hosts \in Seq(Host) \cup {Absent}
  BY HostsKept
<1>5. flag \in BOOLEAN \cup {Absent}
  BY DEF NormalFlag
<1>6. tls \in BOOLEAN \cup {Absent}
  OBVIOUS
<1>7. own \in Certificate \cup {Absent}
  <2>1. MigratedCertificate(s, cert) \in Certificates
    BY DEF MigratedCertificate, Certificates, Service
  <2> QED
    BY <2>1, NormalCertificateIs DEF Certificates
<1> HIDE DEF t, b, hosts, flag, tls, own
<1>8. n \in Service
  <2>1. s.name \in Text /\ s.token \in Text \cup {Absent} /\ Absent \in Text \cup {Absent}
        /\ Absent \in Host \cup {Absent}
    BY DEF Service
  <2> QED
    BY <1>2, <1>3, <1>4, <1>5, <1>6, <1>7, <2>1 DEF Service
<1>9. /\ n.name = s.name /\ n.type = t /\ n.bindAddr = b /\ n.token = s.token
      /\ n.domain = Absent /\ n.httpHost = Absent /\ n.httpHosts = hosts
      /\ n.httpEnabled = flag /\ n.httpUpstreamTls = tls /\ n.customCertificate = own
  BY DEF Service
<1> HIDE DEF n
<1> QED
  BY <1>1, <1>8, <1>9 DEF t, b, hosts, flag, tls, own

\* Normalising a service keeps its hosts, and what panel and agent make of
\* them, but for the name of a list.
LEMMA NormalKeepsHosts ==
  ASSUME NEW s \in Service, NEW i \in Nat, NEW cert \in Certificates
  PROVE  /\ ServiceHttpHosts(NormalService(s, i, cert)) = ServiceHttpHosts(s)
         /\ HasHttpRoute(NormalService(s, i, cert)) <=> HasHttpRoute(s)
         /\ ~ListsHosts(s) => AgentHosts(NormalService(s, i, cert)) = AgentHosts(s)
         /\ AgentHosts(s) = {} => AgentHosts(NormalService(s, i, cert)) = {}
         /\ AgentHosts(s) \ ListLabels \subseteq AgentHosts(NormalService(s, i, cert))
         /\ IsHttpRoutingOn(NormalService(s, i, cert)) <=> IsHttpRoutingOn(s)
<1> DEFINE n == NormalService(s, i, cert)
           q == ServiceHttpHosts(s)
<1>1. /\ n \in Service /\ n.httpHost = Absent /\ n.httpEnabled = NormalFlag(s)
      /\ n.httpHosts = (IF q = <<>> THEN Absent ELSE q)
      /\ n.type = IF s.type \in {"http", "https"} THEN "tcp" ELSE s.type
  BY NormalServiceIs
<1>2. q \in Seq(Host) /\ KeptOf(q, WrittenHosts(s), Len(WrittenHosts(s)))
  BY HostsKept
<1>3. HasHttpRoute(s) <=> q # <<>>
  BY DEF HasHttpRoute
<1> HIDE DEF n, q
<1>4. WrittenHosts(n) = q
  <2>1. WrittenHosts(n) = q \o <<>>
    <3>1. CASE q = <<>>
      BY <1>1, <3>1 DEF WrittenHosts
    <3>2. CASE q # <<>>
      BY <1>1, <1>2, <3>2, AbsentAssumption DEF WrittenHosts
    <3> QED
      BY <3>1, <3>2
  <2> QED
    BY <1>2, <2>1
<1>5. FirstSpellings(q) = q
  BY <1>2, SpellingsStay DEF KeptOf
<1>6. ServiceHttpHosts(n) = q
  BY <1>4, <1>5 DEF ServiceHttpHosts
<1>7. HasHttpRoute(n) <=> HasHttpRoute(s)
  BY <1>3, <1>6 DEF HasHttpRoute
<1>8. s.httpEnabled \in BOOLEAN \/ s.httpEnabled = Absent
  BY DEF Service
<1>9. AgentHosts(n) = IF s.httpEnabled = FALSE THEN {} ELSE Labels(q) \ {""}
  <2>1. ~ListsHosts(n)
    BY <1>1 DEF ListsHosts
  <2>2. AgentHosts(n) = IF n.httpEnabled = FALSE THEN {} ELSE Labels(q) \ {""}
    BY <1>1, <1>6, <2>1, AgentHostsAre
  <2>3. CASE q = <<>>
    <3>1. Labels(q) = {}
      BY <2>3 DEF Labels
    <3> QED
      BY <2>2, <3>1
  <2>4. CASE q # <<>>
    <3>1. (n.httpEnabled = FALSE) <=> (s.httpEnabled = FALSE)
      BY <1>1, <1>3, <1>8, <2>4, AbsentAssumption DEF NormalFlag
    <3> QED
      BY <2>2, <3>1
  <2> QED
    BY <2>3, <2>4
<1>9a. ~ListsHosts(s) => AgentHosts(n) = AgentHosts(s)
  BY <1>9, AgentHostsAre DEF q
<1>9b. AgentHosts(s) = {} => AgentHosts(n) = {}
  BY <1>9, <1>9a, ListServed
<1>9c. AgentHosts(s) \ ListLabels \subseteq AgentHosts(n)
  BY <1>9, AgentHostsAmong DEF q
<1>10. IsHttpRoutingOn(n) <=> IsHttpRoutingOn(s)
  <2>1. n.type # "udp" <=> s.type # "udp"
    BY <1>1
  <2>2. CASE s.httpEnabled = TRUE
    <3>1. n.httpEnabled = TRUE /\ n.httpEnabled # Absent /\ s.httpEnabled # Absent
      BY <1>1, <2>2, AbsentAssumption DEF NormalFlag
    <3> QED
      BY <2>1, <2>2, <3>1 DEF IsHttpRoutingOn
  <2>3. CASE s.httpEnabled = FALSE
    <3>1. s.httpEnabled # Absent /\ ~IsHttpRoutingOn(s)
      BY <2>3, AbsentAssumption DEF IsHttpRoutingOn
    <3>2. CASE HasHttpRoute(s)
      <4>1. n.httpEnabled = FALSE
        BY <1>1, <2>3, <3>2 DEF NormalFlag
      <4> QED
        BY <3>1, <4>1, AbsentAssumption DEF IsHttpRoutingOn
    <3>3. CASE ~HasHttpRoute(s)
      <4>1. n.httpEnabled = Absent
        BY <1>1, <2>3, <3>3 DEF NormalFlag
      <4> QED
        BY <1>7, <3>1, <3>3, <4>1 DEF IsHttpRoutingOn
    <3> QED
      BY <3>2, <3>3
  <2>4. CASE s.httpEnabled = Absent
    <3>1. Absent # TRUE /\ Absent # FALSE
      BY AbsentAssumption
    <3>2. CASE HasHttpRoute(s)
      <4>1. n.httpEnabled = TRUE
        BY <1>1, <2>4, <3>1, <3>2 DEF NormalFlag
      <4> QED
        BY <2>1, <2>4, <3>1, <3>2, <4>1 DEF IsHttpRoutingOn
    <3>3. CASE ~HasHttpRoute(s)
      <4>1. n.httpEnabled = Absent
        BY <1>1, <2>4, <3>1, <3>3 DEF NormalFlag
      <4> QED
        BY <1>7, <2>4, <3>3, <4>1 DEF IsHttpRoutingOn
    <3> QED
      BY <3>2, <3>3
  <2> QED
    BY <1>8, <2>2, <2>3, <2>4
<1> QED
  BY <1>6, <1>7, <1>9a, <1>9b, <1>9c, <1>10 DEF n, q

LEMMA NormalHttpIs ==
  ASSUME NEW http \in Http \cup {Absent}
  PROVE  /\ NormalHttp(http) \in Http \cup {Absent}
         /\ NormalHttp(http) = Absent <=> http = Absent
         /\ http # Absent =>
               /\ NormalHttp(http).enabled = http.enabled
               /\ NormalHttp(http).customCertificate = Absent
               /\ NormalHttp(http).letsEncrypt = Absent <=> http.letsEncrypt = Absent
               /\ http.letsEncrypt # Absent =>
                     /\ NormalHttp(http).letsEncrypt.enabled = http.letsEncrypt.enabled
                     /\ NormalHttp(http).letsEncrypt.email = Trim(http.letsEncrypt.email)
<1>1. CASE http = Absent
  BY <1>1 DEF NormalHttp
<1>2. CASE http # Absent
  <2> DEFINE le == NormalLetsEncrypt(http.letsEncrypt)
             n == [http EXCEPT !.keys = "canonical", !.letsEncrypt = le,
                               !.customCertificate = Absent]
  <2>1. /\ http \in Http /\ http.enabled \in BOOLEAN
        /\ http.letsEncrypt \in LetsEncrypt \cup {Absent}
    BY <1>2 DEF Http
  <2>2. ASSUME http.letsEncrypt # Absent
        PROVE  /\ le \in LetsEncrypt /\ le.enabled = http.letsEncrypt.enabled
               /\ le.email = Trim(http.letsEncrypt.email)
    <3> DEFINE l == http.letsEncrypt
    <3>1. l \in LetsEncrypt /\ le = [l EXCEPT !.email = Trim(l.email)]
      BY <2>1, <2>2 DEF NormalLetsEncrypt
    <3> HIDE DEF l, le
    <3>2. l.email \in Text /\ l.enabled \in BOOLEAN
      BY <3>1 DEF LetsEncrypt
    <3>3. Trim(l.email) \in Text
      BY <3>2, TrimIs
    <3> QED
      BY <3>1, <3>2, <3>3 DEF LetsEncrypt, l
  <2>3. http.letsEncrypt = Absent => le = Absent
    BY DEF NormalLetsEncrypt
  <2>4. NormalHttp(http) = n
    BY <1>2 DEF NormalHttp
  <2>5. le = Absent <=> http.letsEncrypt = Absent
    BY <2>2, <2>3, AbsentAssumption
  <2>6. le \in LetsEncrypt \cup {Absent}
    BY <2>2, <2>3
  <2> HIDE DEF le
  <2>7. /\ n \in Http /\ n.enabled = http.enabled /\ n.customCertificate = Absent
        /\ n.letsEncrypt = le
    BY <2>1, <2>6 DEF Http
  <2> HIDE DEF n
  <2>8. n # Absent
    BY <2>7, AbsentAssumption
  <2> QED
    BY <1>2, <2>2, <2>4, <2>5, <2>7, <2>8
<1> QED
  BY <1>1, <1>2

\* The certificate of former versions, for all services.
Legacy(c) == IF c.http = Absent THEN Absent ELSE c.http.customCertificate

LEMMA NormalizeIs ==
  ASSUME NEW c \in Config
  PROVE  /\ NormalizeConfig(c) \in Config
         /\ NormalizeConfig(c).bindAddr = c.bindAddr
         /\ NormalizeConfig(c).defaultToken = c.defaultToken
         /\ NormalizeConfig(c).http = NormalHttp(c.http)
         /\ DOMAIN NormalizeConfig(c).services = DOMAIN c.services
         /\ Legacy(c) \in Certificates
         /\ \A i \in DOMAIN c.services :
               /\ i - 1 \in Nat /\ c.services[i] \in Service
               /\ NormalizeConfig(c).services[i]
                    = NormalService(c.services[i], i - 1, Legacy(c))
               /\ NormalizeConfig(c).services[i] \in Service
<1> DEFINE d == IF c.domain = Absent THEN LegacyDomain(c) ELSE c.domain
           q == [i \in DOMAIN c.services |-> NormalService(c.services[i], i - 1, Legacy(c))]
           n == [c EXCEPT !.domain = d, !.http = NormalHttp(c.http), !.services = q]
<1>1. NormalizeConfig(c) = n
  BY DEF NormalizeConfig, Legacy
<1>2. /\ c.domain \in Text \cup {Absent} /\ c.http \in Http \cup {Absent}
      /\ c.services \in Seq(Service)
  BY DEF Config
<1>3. Len(c.services) \in Nat /\ DOMAIN c.services = 1..Len(c.services)
  BY <1>2
<1>4. \A i \in DOMAIN c.services : c.services[i] \in Service /\ i - 1 \in Nat
  BY <1>2, <1>3
<1>5. Legacy(c) \in Certificates
  BY <1>2 DEF Legacy, Certificates, Http
<1>6. d \in Text \cup {Absent}
  <2> DEFINE named == {i \in DOMAIN c.services : Given(c.services[i].domain)}
  <2>1. named # {} => Min(named) \in named
    <3>1. named \in SUBSET Nat
      BY <1>3
    <3> HIDE DEF named
    <3> QED
      BY <3>1, LeastNat DEF Min
  <2>2. LegacyDomain(c) = IF named = {} THEN Absent ELSE c.services[Min(named)].domain
    BY DEF LegacyDomain
  <2>3. named # {} => Min(named) \in DOMAIN c.services
    BY <2>1
  <2> HIDE DEF named
  <2>4. \A s \in Service : s.domain \in Text \cup {Absent}
    BY DEF Service
  <2> QED
    BY <1>2, <1>4, <2>2, <2>3, <2>4
<1>7. NormalHttp(c.http) \in Http \cup {Absent}
  BY <1>2, NormalHttpIs
<1>8. \A i \in DOMAIN c.services : NormalService(c.services[i], i - 1, Legacy(c)) \in Service
  BY <1>4, <1>5, NormalServiceIs
<1>9. /\ q \in Seq(Service) /\ DOMAIN q = DOMAIN c.services
      /\ \A i \in DOMAIN c.services : q[i] = NormalService(c.services[i], i - 1, Legacy(c))
  BY <1>3, <1>8
<1> HIDE DEF q, d
<1>10. /\ n \in Config /\ n.bindAddr = c.bindAddr /\ n.defaultToken = c.defaultToken
       /\ n.http = NormalHttp(c.http) /\ n.services = q
  BY <1>6, <1>7, <1>9 DEF Config
<1> QED
  BY <1>1, <1>4, <1>5, <1>8, <1>9, <1>10

\* A configuration without the fields that only earlier versions used.
Normal(c) ==
  /\ \A s \in Services(c) : s.type \in {"tcp", "udp"} /\ s.httpHost = Absent /\ s.domain = Absent
  /\ c.http # Absent => c.http.customCertificate = Absent

LEMMA ServicesAre ==
  ASSUME NEW c \in Config
  PROVE  /\ Services(c) = {c.services[i] : i \in DOMAIN c.services}
         /\ Services(c) \subseteq Service
         /\ DOMAIN c.services \subseteq Nat
<1>1. c.services \in Seq(Service)
  BY DEF Config
<1>2. Services(c) = {c.services[i] : i \in DOMAIN c.services}
  BY DEF Services, ToSet
<1>3. \A i \in DOMAIN c.services : c.services[i] \in Service /\ i \in Nat
  BY <1>1
<1> QED
  BY <1>2, <1>3

LEMMA NormalizeIsNormal ==
  ASSUME NEW c \in Config
  PROVE  Normal(NormalizeConfig(c))
<1> DEFINE n == NormalizeConfig(c)
<1>1. /\ n \in Config /\ n.http = NormalHttp(c.http) /\ DOMAIN n.services = DOMAIN c.services
      /\ Legacy(c) \in Certificates
      /\ \A i \in DOMAIN c.services :
            /\ i - 1 \in Nat /\ c.services[i] \in Service
            /\ n.services[i] = NormalService(c.services[i], i - 1, Legacy(c))
  BY NormalizeIs
<1>2. c.http \in Http \cup {Absent}
  BY DEF Config
<1> HIDE DEF n
<1>3. n.http # Absent => n.http.customCertificate = Absent
  BY <1>1, <1>2, NormalHttpIs
<1>4. ASSUME NEW s \in Services(n)
      PROVE  s.type \in {"tcp", "udp"} /\ s.httpHost = Absent /\ s.domain = Absent
  <2>1. PICK i \in DOMAIN c.services : s = n.services[i]
    BY <1>1, ServicesAre
  <2> DEFINE t == c.services[i]
  <2>2. t \in Service /\ i - 1 \in Nat /\ s = NormalService(t, i - 1, Legacy(c))
    BY <1>1, <2>1
  <2> HIDE DEF t
  <2>3. /\ s.type = IF t.type \in {"http", "https"} THEN "tcp" ELSE t.type
        /\ s.httpHost = Absent /\ s.domain = Absent
    BY <2>2 DEF NormalService
  <2>4. t.type \in {"tcp", "udp", "http", "https"}
    BY <2>2 DEF Service
  <2> QED
    BY <2>3, <2>4
<1>5. Normal(n)
  BY <1>3, <1>4 DEF Normal
<1> QED
  BY <1>5 DEF n

(***************************************************************************)
(* validateConfig, and what the agent makes of a configuration it let      *)
(* through.                                                                *)
(***************************************************************************)
Saved(c) == c \in Config /\ Normal(c) /\ ValidateConfig(c) = {}

LEMMA HostPortIs ==
  ASSUME NEW a \in Addr, ValidHostPort(a)
  PROVE  a.form \in {"v4", "v6"} /\ a.hostOk /\ 1 <= a.port /\ a.port <= 65535
BY DEF ValidHostPort, Addr

LEMMA ValidIs ==
  ASSUME NEW c, ValidateConfig(c) = {}
  PROVE  /\ ValidHostPort(c.bindAddr)
         /\ LetsEncryptActive(c) => ValidAcmeEmail(c.http.letsEncrypt.email)
         /\ Given(c.defaultToken) \/ \A s \in Services(c) : Given(s.token)
         /\ \A i \in DOMAIN c.services : ~ServiceIssue(c, i)
<1>1. GlobalIssues(c) = {}
  BY DEF ValidateConfig
<1>2. \A i \in DOMAIN c.services : ~ServiceIssue(c, i)
  BY DEF ValidateConfig
<1>3. "bindAddr" \notin GlobalIssues(c) /\ "email" \notin GlobalIssues(c)
      /\ "defaultToken" \notin GlobalIssues(c)
  BY <1>1
<1>4. ValidHostPort(c.bindAddr)
  BY <1>3 DEF GlobalIssues
<1>5. LetsEncryptActive(c) => ValidAcmeEmail(c.http.letsEncrypt.email)
  BY <1>3 DEF GlobalIssues
<1>6. Given(c.defaultToken) \/ \A s \in Services(c) : Given(s.token)
  BY <1>3 DEF GlobalIssues
<1> QED
  BY <1>2, <1>4, <1>5, <1>6

\* Routing, as the panel sees it, is having hosts, as the agent does.
LEMMA SavedService ==
  ASSUME NEW c, Saved(c), NEW s \in Services(c)
  PROVE  /\ s \in Service /\ s.type \in {"tcp", "udp"} /\ ~ListsHosts(s)
         /\ \A k \in DOMAIN ServiceHttpHosts(s) : ServiceHttpHosts(s)[k].label # ""
         /\ IsHttpRoutingOn(s) <=> AgentHosts(s) # {}
         /\ HasHttpRoute(s) /\ IsHttpRoutingOn(s) => s.httpEnabled # FALSE
         /\ AgentHosts(s) # {} => s.type = "tcp" /\ HasHttpRoute(s)
         /\ ProxyOn(c) /\ IsHttpRoutingOn(s) => AgentBindAddr(s, ProxyOn(c)) = Memory
         /\ ~(ProxyOn(c) /\ IsHttpRoutingOn(s)) =>
               /\ AgentBindAddr(s, ProxyOn(c)) = s.bindAddr
               /\ ValidHostPort(s.bindAddr) /\ s.bindAddr # Memory
         /\ CustomOn(s) => Trim(s.customCertificate.pem) = "good"
<1>1. /\ c \in Config /\ s \in Service /\ s.type \in {"tcp", "udp"} /\ ~ListsHosts(s)
      /\ s.httpEnabled \in BOOLEAN \/ s.httpEnabled = Absent
  BY ServicesAre DEF Saved, Normal, Service, ListsHosts
<1>2. PICK i \in DOMAIN c.services : s = c.services[i]
  BY <1>1, ServicesAre
<1> DEFINE q == ServiceHttpHosts(s)
<1>3. ~ServiceIssue(c, i)
  BY <1>2, ValidIs DEF Saved
<1>4. /\ ~(ProxyOn(c) /\ IsHttpRoutingOn(s)) => ValidHostPort(s.bindAddr)
      /\ IsHttpRoutingOn(s) => q # <<>>
      /\ CustomOn(s) => Trim(s.customCertificate.pem) = "good"
      /\ q # <<>> => s.type # "udp"
      /\ \A k \in DOMAIN q : ValidHttpHost(q[k])
  BY <1>2, <1>3 DEF ServiceIssue
<1>5. /\ HasHttpRoute(s) <=> \E k \in DOMAIN q : TRUE
      /\ AgentHosts(s) # {} => HasHttpRoute(s) /\ s.httpEnabled # FALSE
      /\ AgentHosts(s) = IF s.httpEnabled = FALSE THEN {} ELSE Labels(q) \ {""}
      /\ HasHttpRoute(s) <=> q # <<>>
  BY <1>1, HasRoute, AgentHostsAre DEF HasHttpRoute
<1>6. \A k \in DOMAIN q : q[k].label # ""
  BY <1>4 DEF ValidHttpHost
<1> HIDE DEF q
<1>7. IsHttpRoutingOn(s) => s.httpEnabled # FALSE
  BY AbsentAssumption DEF IsHttpRoutingOn
<1>8. IsHttpRoutingOn(s) => AgentHosts(s) # {}
  <2> SUFFICES ASSUME IsHttpRoutingOn(s)
               PROVE  AgentHosts(s) # {}
    OBVIOUS
  <2>1. PICK k \in DOMAIN q : TRUE
    BY <1>4, <1>5
  <2>2. q[k].label \in Labels(q) \ {""}
    BY <1>6 DEF Labels
  <2> QED
    BY <1>5, <1>7, <2>2
<1>9. AgentHosts(s) # {} => s.type = "tcp" /\ HasHttpRoute(s)
  BY <1>1, <1>4, <1>5
<1>10. AgentHosts(s) # {} => IsHttpRoutingOn(s)
  BY <1>1, <1>5, <1>9 DEF IsHttpRoutingOn
<1>11. ProxyOn(c) \in BOOLEAN
  BY <1>1 DEF ProxyOn, Config, Http
<1>12. ProxyOn(c) /\ IsHttpRoutingOn(s) => AgentBindAddr(s, ProxyOn(c)) = Memory
  BY <1>1, <1>8, <1>9, <1>11 DEF AgentBindAddr
<1>13. ~(ProxyOn(c) /\ IsHttpRoutingOn(s)) => AgentBindAddr(s, ProxyOn(c)) = s.bindAddr
  BY <1>1, <1>9, <1>10 DEF AgentBindAddr
<1>14. ValidHostPort(s.bindAddr) => s.bindAddr # Memory
  <2>1. Memory.form = "memory"
    BY DEF Memory
  <2>2. s.bindAddr = Memory => s.bindAddr.form = "memory"
    BY <2>1
  <2>3. ValidHostPort(s.bindAddr) => s.bindAddr.form \in {"v4", "v6"}
    BY <1>1, HostPortIs DEF Service
  <2> QED
    BY <2>2, <2>3
<1> QED
  BY <1>1, <1>4, <1>6, <1>7, <1>8, <1>9, <1>10, <1>12, <1>13, <1>14 DEF q

LEMMA SavedIs ==
  ASSUME NEW c, Saved(c)
  PROVE  /\ c \in Config /\ Normal(c) /\ Services(c) \subseteq Service
         /\ LegacyCertificate(c) = Absent
         /\ ValidHostPort(c.bindAddr) /\ c.bindAddr \in Addr
         /\ Given(c.defaultToken) \/ \A s \in Services(c) : Given(s.token)
         /\ \A i \in DOMAIN c.services : ~ServiceIssue(c, i)
<1>1. c \in Config /\ Normal(c) /\ ValidateConfig(c) = {}
  BY DEF Saved
<1>2. LegacyCertificate(c) = Absent
  BY <1>1 DEF LegacyCertificate, Normal
<1>3. c.bindAddr \in Addr
  BY <1>1 DEF Config
<1> QED
  BY <1>1, <1>2, <1>3, ServicesAre, ValidIs

\* The agent asks for certificates for the hosts that the panel lists.
LEMMA SavedHttpsHosts ==
  ASSUME NEW c, Saved(c), ProxyOn(c)
  PROVE  LetsEncryptHosts(c) = AgentHttpsHosts(c)
<1> DEFINE Mine == {t \in Services(c) : t.type = "tcp" /\ IsHttpRouteActive(t) /\ ~CustomOn(t)}
           Yours == {t \in Services(c) : ~CustomOn(t)}
<1>1. /\ LetsEncryptHosts(c) = {h.label : h \in UNION {ToSet(ServiceHttpHosts(s)) : s \in Mine}}
      /\ AgentHttpsHosts(c) = UNION {AgentHosts(s) : s \in Yours}
  BY SavedIs DEF LetsEncryptHosts, AgentHttpsHosts
<1>2. ASSUME NEW s \in Services(c)
      PROVE  /\ s \in Mine => s \in Yours /\ \A h \in ToSet(ServiceHttpHosts(s)) : h.label \in AgentHosts(s)
             /\ s \in Yours => \A x \in AgentHosts(s) :
                   s \in Mine /\ \E h \in ToSet(ServiceHttpHosts(s)) : x = h.label
  <2> DEFINE q == ServiceHttpHosts(s)
  <2>1. /\ s \in Service /\ ~ListsHosts(s)
        /\ \A k \in DOMAIN q : q[k].label # ""
        /\ IsHttpRoutingOn(s) <=> AgentHosts(s) # {}
        /\ AgentHosts(s) # {} => s.type = "tcp" /\ HasHttpRoute(s)
    BY SavedService
  <2>2. AgentHosts(s) = IF s.httpEnabled = FALSE THEN {} ELSE Labels(q) \ {""}
    BY <2>1, AgentHostsAre
  <2>3. HasHttpRoute(s) /\ IsHttpRoutingOn(s) => s.httpEnabled # FALSE
    BY SavedService
  <2> HIDE DEF q
  <2>4. \A h \in ToSet(q) : \E k \in DOMAIN q : h = q[k]
    BY DEF ToSet
  <2>5. \A k \in DOMAIN q : q[k] \in ToSet(q)
    BY DEF ToSet
  <2>6. ASSUME s \in Mine, NEW h \in ToSet(q)
        PROVE  h.label \in AgentHosts(s)
    <3>1. PICK k \in DOMAIN q : h = q[k]
      BY <2>4, <2>6
    <3>2. h.label \in Labels(q) \ {""}
      BY <2>1, <3>1 DEF Labels
    <3>3. s.httpEnabled # FALSE
      BY <2>3, <2>6 DEF IsHttpRouteActive
    <3> QED
      BY <2>2, <3>2, <3>3
  <2>7. ASSUME s \in Yours, NEW x \in AgentHosts(s)
        PROVE  s \in Mine /\ \E h \in ToSet(q) : x = h.label
    <3>1. s \in Mine
      BY <2>1, <2>7 DEF IsHttpRouteActive
    <3>2. x \in Labels(q)
      BY <2>2, <2>7
    <3>3. PICK k \in DOMAIN q : x = q[k].label
      BY <3>2 DEF Labels
    <3> QED
      BY <2>5, <3>1, <3>3
  <2> QED
    BY <2>6, <2>7 DEF q
<1> HIDE DEF Mine, Yours
<1>3. Mine \subseteq Services(c) /\ Yours \subseteq Services(c)
  BY DEF Mine, Yours
<1>4. ASSUME NEW x \in LetsEncryptHosts(c)
      PROVE  x \in AgentHttpsHosts(c)
  <2>1. PICK h \in UNION {ToSet(ServiceHttpHosts(s)) : s \in Mine} : x = h.label
    BY <1>1, <1>4
  <2>2. PICK s \in Mine : h \in ToSet(ServiceHttpHosts(s))
    BY <2>1
  <2>3. s \in Yours /\ h.label \in AgentHosts(s)
    BY <1>2, <1>3, <2>2
  <2> QED
    BY <1>1, <2>1, <2>3
<1>5. ASSUME NEW x \in AgentHttpsHosts(c)
      PROVE  x \in LetsEncryptHosts(c)
  <2>1. PICK s \in Yours : x \in AgentHosts(s)
    BY <1>1, <1>5
  <2>2. PICK h \in ToSet(ServiceHttpHosts(s)) : s \in Mine /\ x = h.label
    BY <1>2, <1>3, <2>1
  <2>3. h \in UNION {ToSet(ServiceHttpHosts(t)) : t \in Mine}
    BY <2>2
  <2> QED
    BY <1>1, <2>2, <2>3
<1> QED
  BY <1>4, <1>5

\* What the agent makes of one host of one service.
Route(s, h) == [host |-> h, service |-> s.name, addr |-> AgentBindAddr(s, TRUE),
                tls |-> s.httpUpstreamTls = TRUE \/ s.type = "https"]

LEMMA RoutesAre ==
  ASSUME NEW c
  PROVE  \A r : r \in AgentRoutes(c) <=>
                   ProxyOn(c) /\ \E s \in Services(c) : \E h \in AgentHosts(s) : r = Route(s, h)
<1>1. AgentRoutes(c) = IF ~ProxyOn(c) THEN {}
                       ELSE UNION {{Route(s, h) : h \in AgentHosts(s)} : s \in Services(c)}
  BY DEF AgentRoutes, Route
<1> QED
  BY <1>1

LEMMA SavedRuns ==
  ASSUME NEW c, Saved(c)
  PROVE  /\ ~AgentRefuses(c)
         /\ Binds(c.bindAddr)
         /\ \A s \in Services(c) :
               /\ AgentBindAddr(s, ProxyOn(c)) # Memory => Binds(AgentBindAddr(s, ProxyOn(c)))
               /\ RatholeToken(c, s) # Absent
               /\ AgentBindAddr(s, ProxyOn(c)) = Memory =>
                     \E r \in AgentRoutes(c) : r.service = s.name
<1>1. \A a \in Addr : ValidHostPort(a) => Binds(a)
  <2>1. \A a \in Addr : a.port \in Int
    BY DEF Addr
  <2>2. 2^16 = 65536
    OBVIOUS
  <2> QED
    BY <2>1, <2>2, HostPortIs DEF Binds
<1>2. Binds(c.bindAddr)
  BY <1>1, SavedIs
<1>3. ~AgentRefuses(c)
  <2> SUFFICES ASSUME AgentRefuses(c)
               PROVE  FALSE
    OBVIOUS
  <2>1. LetsEncryptOn(c) /\ AgentHttpsHosts(c) # {} /\ Trim(c.http.letsEncrypt.email) = ""
    BY DEF AgentRefuses
  <2>2. PICK s \in Services(c) : ~CustomOn(s) /\ AgentHosts(s) # {}
    BY <2>1 DEF AgentHttpsHosts
  <2>3. IsHttpRouteActive(s)
    BY <2>2, SavedService DEF IsHttpRouteActive
  <2>4. LetsEncryptActive(c)
    BY <2>1, <2>2, <2>3 DEF LetsEncryptActive
  <2>5. c.http.letsEncrypt.email = "good"
    BY <2>4, ValidIs DEF Saved, ValidAcmeEmail
  <2>6. Trim("good") = "good"
    BY DEF Trim
  <2> QED
    BY <2>1, <2>5, <2>6
<1>4. ASSUME NEW s \in Services(c), AgentBindAddr(s, ProxyOn(c)) # Memory
      PROVE  Binds(AgentBindAddr(s, ProxyOn(c)))
  <2>1. /\ s \in Service
        /\ AgentBindAddr(s, ProxyOn(c)) = s.bindAddr /\ ValidHostPort(s.bindAddr)
    BY <1>4, SavedService
  <2>2. s.bindAddr \in Addr
    BY <2>1 DEF Service
  <2> QED
    BY <1>1, <2>1, <2>2
<1>5. ASSUME NEW s \in Services(c)
      PROVE  RatholeToken(c, s) # Absent
  <2>1. Given(c.defaultToken) \/ Given(s.token)
    BY SavedIs
  <2> QED
    BY <2>1 DEF RatholeToken, Given
<1>6. ASSUME NEW s \in Services(c), AgentBindAddr(s, ProxyOn(c)) = Memory
      PROVE  \E r \in AgentRoutes(c) : r.service = s.name
  <2>1. ProxyOn(c) /\ IsHttpRoutingOn(s) /\ AgentHosts(s) # {}
    BY <1>6, SavedService
  <2>2. PICK h \in AgentHosts(s) : TRUE
    BY <2>1
  <2>3. Route(s, h) \in AgentRoutes(c)
    BY <2>1, RoutesAre
  <2>4. Route(s, h).service = s.name
    BY DEF Route
  <2> QED
    BY <2>3, <2>4
<1> QED
  BY <1>2, <1>3, <1>4, <1>5, <1>6

LEMMA SavedSays ==
  ASSUME NEW c, Saved(c)
  PROVE  /\ \A s \in Services(c) :
               SaysNoPublicPort(c, s) <=> AgentBindAddr(s, ProxyOn(c)) = Memory
         /\ ProxyOn(c) => LetsEncryptHosts(c) = AgentHttpsHosts(c)
<1>1. ASSUME NEW s \in Services(c)
      PROVE  SaysNoPublicPort(c, s) <=> AgentBindAddr(s, ProxyOn(c)) = Memory
  BY SavedService DEF SaysNoPublicPort
<1> QED
  BY <1>1, SavedHttpsHosts

\* Of two services with one host, one has it with the final dot.
LEMMA SavedOwners ==
  ASSUME NEW c, Saved(c), NEW r1 \in AgentRoutes(c), NEW r2 \in AgentRoutes(c),
         r1.host = r2.host, r1 # r2
  PROVE  \E s \in Services(c) : \E h \in ToSet(ServiceHttpHosts(s)) : h.label = r1.host /\ h.dot
<1> SUFFICES ASSUME \A s \in Services(c) : \A h \in ToSet(ServiceHttpHosts(s)) :
                       h.label = r1.host => ~h.dot
             PROVE  FALSE
  OBVIOUS
<1> DEFINE q(i) == ServiceHttpHosts(c.services[i])
<1>1. ASSUME NEW r \in AgentRoutes(c), r.host = r1.host
      PROVE  \E i \in DOMAIN c.services : \E k \in DOMAIN q(i) :
                /\ r = Route(c.services[i], r1.host)
                /\ q(i)[k].label = r1.host /\ q(i)[k].dot = FALSE
  <2>0. PICK s \in Services(c) : \E h \in AgentHosts(s) : r = Route(s, h)
    BY RoutesAre
  <2>1. PICK h \in AgentHosts(s) : r = Route(s, h)
    BY <2>0
  <2>2. h = r1.host
    BY <1>1, <2>1 DEF Route
  <2>3. s \in Service /\ \E i \in DOMAIN c.services : s = c.services[i]
    BY SavedIs, ServicesAre
  <2>3a. ~ListsHosts(s)
    BY SavedService
  <2>4. PICK i \in DOMAIN c.services : s = c.services[i]
    BY <2>3
  <2>5. h \in Labels(ServiceHttpHosts(s))
    BY <2>3, <2>3a, AgentHostsAre
  <2>6. PICK k \in DOMAIN ServiceHttpHosts(s) : h = ServiceHttpHosts(s)[k].label
    BY <2>5 DEF Labels
  <2>7. ServiceHttpHosts(s)[k] \in ToSet(ServiceHttpHosts(s)) /\ ServiceHttpHosts(s)[k] \in Host
    BY <2>3, HostsKept DEF ToSet
  <2>8. ServiceHttpHosts(s)[k].dot = FALSE
    BY <2>2, <2>6, <2>7 DEF Host
  <2> QED
    BY <2>1, <2>2, <2>4, <2>6, <2>8
<1>2. PICK i1 \in DOMAIN c.services : \E k \in DOMAIN q(i1) :
         /\ r1 = Route(c.services[i1], r1.host)
         /\ q(i1)[k].label = r1.host /\ q(i1)[k].dot = FALSE
  BY <1>1
<1>2a. PICK k1 \in DOMAIN q(i1) :
         /\ r1 = Route(c.services[i1], r1.host)
         /\ q(i1)[k1].label = r1.host /\ q(i1)[k1].dot = FALSE
  BY <1>2
<1>3. PICK i2 \in DOMAIN c.services : \E k \in DOMAIN q(i2) :
         /\ r2 = Route(c.services[i2], r1.host)
         /\ q(i2)[k].label = r1.host /\ q(i2)[k].dot = FALSE
  BY <1>1
<1>3a. PICK k2 \in DOMAIN q(i2) :
         /\ r2 = Route(c.services[i2], r1.host)
         /\ q(i2)[k2].label = r1.host /\ q(i2)[k2].dot = FALSE
  BY <1>3
<1>4. i1 # i2 /\ i1 \in Nat /\ i2 \in Nat /\ i1 >= 1 /\ i2 >= 1
  <2>1. c.services \in Seq(Service)
    BY SavedIs DEF Config
  <2>2. \A i \in DOMAIN c.services : i \in Nat /\ i >= 1
    BY <2>1
  <2> QED
    BY <1>2a, <1>3a, <2>2
<1>5. PanelKey(q(i1)[k1]) = PanelKey(q(i2)[k2])
  BY <1>2a, <1>3a DEF PanelKey
<1>6. ASSUME NEW i \in DOMAIN c.services, NEW k \in DOMAIN q(i),
             NEW j \in DOMAIN c.services, NEW l \in DOMAIN q(j),
             i \in Nat, j \in Nat, j >= 1, j < i, PanelKey(q(j)[l]) = PanelKey(q(i)[k])
      PROVE  FALSE
  <2>1. j \in 1..i /\ <<j, l>> # <<i, k>>
    BY <1>6
  <2>2. RepeatsHost(c, i, k)
    BY <1>6, <2>1 DEF RepeatsHost
  <2>3. ServiceIssue(c, i)
    BY <2>2 DEF ServiceIssue
  <2> QED
    BY <2>3, SavedIs
<1>7. i1 < i2 \/ i2 < i1
  BY <1>4
<1> HIDE DEF q
<1>8. CASE i1 < i2
  BY <1>2a, <1>3a, <1>4, <1>5, <1>6, <1>8
<1>9. CASE i2 < i1
  BY <1>2a, <1>3a, <1>4, <1>5, <1>6, <1>9
<1> QED
  BY <1>7, <1>8, <1>9

LEMMA SavedClient ==
  ASSUME NEW c, Saved(c), NEW s \in Services(c),
         NEW block, block = CHOOSE b \in ClientToml(c).services : b[1] = s.name
  PROVE  /\ block = <<s.name, ClientService(s)>>
         /\ block[2].type = AgentService(c, s).type
         /\ s.token = Absent \/ Given(s.token) =>
               AgentService(c, s).token
                 = IF block[2].token = Absent THEN ClientToml(c).defaultToken ELSE block[2].token
<1>1. ClientToml(c).services = {<<t.name, ClientService(t)>> : t \in Services(c)}
  BY DEF ClientToml
<1>2. ClientToml(c).defaultToken = IF Given(c.defaultToken) THEN c.defaultToken ELSE Absent
  BY DEF ClientToml
<1>3. ASSUME NEW t \in Services(c), t.name = s.name
      PROVE  t = s
  <2>1. PICK i \in DOMAIN c.services : s = c.services[i]
    BY SavedIs, ServicesAre
  <2>2. PICK j \in DOMAIN c.services : t = c.services[j]
    BY SavedIs, ServicesAre
  <2>3. i \in Nat /\ j \in Nat /\ 1 <= i /\ 1 <= j
    <3>1. c.services \in Seq(Service)
      BY SavedIs DEF Config
    <3> QED
      BY <2>1, <2>2, <3>1
  <2>4. ASSUME NEW k \in DOMAIN c.services, NEW l \in 1..k-1
        PROVE  c.services[l].name # c.services[k].name
    <3>1. ~ServiceIssue(c, k)
      BY SavedIs
    <3> QED
      BY <3>1 DEF ServiceIssue
  <2>5. CASE i < j
    <3>1. i \in 1..j-1
      BY <2>3, <2>5
    <3> QED
      BY <1>3, <2>1, <2>2, <2>4, <3>1
  <2>6. CASE j < i
    <3>1. j \in 1..i-1
      BY <2>3, <2>6
    <3> QED
      BY <1>3, <2>1, <2>2, <2>4, <3>1
  <2>7. CASE i = j
    BY <2>1, <2>2, <2>7
  <2> QED
    BY <2>3, <2>5, <2>6, <2>7
<1>4. block = <<s.name, ClientService(s)>>
  <2>1. <<s.name, ClientService(s)>> \in ClientToml(c).services
    BY <1>1
  <2>2. block \in ClientToml(c).services /\ block[1] = s.name
    BY <2>1
  <2>3. PICK t \in Services(c) : block = <<t.name, ClientService(t)>>
    BY <1>1, <2>2
  <2> QED
    BY <1>3, <2>2, <2>3
<1>5. /\ ClientService(s).type = AgentService(c, s).type
      /\ ClientService(s).token = IF Given(s.token) THEN s.token ELSE Absent
      /\ AgentService(c, s).token = RatholeToken(c, s)
  BY DEF ClientService, AgentService
<1>6. block[2].type = AgentService(c, s).type /\ block[2].token = ClientService(s).token
  <2>1. <<s.name, ClientService(s)>>[2] = ClientService(s)
    OBVIOUS
  <2>2. block[2] = ClientService(s)
    BY <1>4, <2>1, Zenon
  <2> QED
    BY <1>5, <2>2
<1>7. ASSUME s.token = Absent
      PROVE  AgentService(c, s).token
                 = IF block[2].token = Absent THEN ClientToml(c).defaultToken ELSE block[2].token
  <2>1. ~Given(s.token) /\ Given(c.defaultToken)
    BY <1>7, SavedIs DEF Given
  <2> QED
    BY <1>2, <1>5, <1>6, <1>7, <2>1 DEF RatholeToken
<1>8. ASSUME Given(s.token)
      PROVE  AgentService(c, s).token
                 = IF block[2].token = Absent THEN ClientToml(c).defaultToken ELSE block[2].token
  <2>1. s.token # Absent
    BY <1>8 DEF Given
  <2> QED
    BY <1>5, <1>6, <1>8, <2>1 DEF RatholeToken
<1> QED
  BY <1>4, <1>6, <1>7, <1>8

(***************************************************************************)
(* The migration of an old configuration.                                  *)
(***************************************************************************)
LEMMA CustomIs ==
  ASSUME NEW s \in Service
  PROVE  /\ CustomOn(s) \in BOOLEAN
         /\ CustomOn(s) <=> s.customCertificate # Absent /\ s.customCertificate.enabled
         /\ s.customCertificate \in Certificates
         /\ s.customCertificate # Absent => s.customCertificate \in Certificate
<1>1. s.customCertificate \in Certificate \cup {Absent}
  BY DEF Service
<1>2. s.customCertificate # Absent => s.customCertificate.enabled \in BOOLEAN
  BY <1>1 DEF Certificate
<1> QED
  BY <1>1, <1>2 DEF CustomOn, Certificates

LEMMA LegacyIs ==
  ASSUME NEW c \in Config
  PROVE  /\ Legacy(c) \in Certificates
         /\ LegacyCertificate(c) = IF Legacy(c) = Absent THEN Absent
                                   ELSE IF Legacy(c).enabled THEN Legacy(c) ELSE Absent
         /\ Legacy(c) # Absent => Legacy(c).enabled \in BOOLEAN
<1>1. Legacy(c) \in Certificates
  BY NormalizeIs
<1>2. Legacy(c) # Absent => Legacy(c).enabled \in BOOLEAN
  BY <1>1 DEF Certificates, Certificate
<1> QED
  BY <1>1, <1>2 DEF LegacyCertificate, Legacy

LEMMA MigratedCustom ==
  ASSUME NEW c \in Config, NEW s \in Service, NEW i \in Nat, NEW t,
         t = NormalService(s, i, Legacy(c)), HasHttpRoute(s),
         LegacyCertificate(c) # Absent => s.customCertificate = Absent \/ CustomOn(s)
  PROVE  /\ CustomOn(t) <=> CustomOn(s) \/ LegacyCertificate(c) # Absent
         /\ CustomOn(t) => Trim(t.customCertificate.pem)
               = Trim(IF CustomOn(s) THEN s.customCertificate.pem ELSE LegacyCertificate(c).pem)
<1> DEFINE L == Legacy(c)
           m == MigratedCertificate(s, L)
<1>1. /\ L \in Certificates
      /\ LegacyCertificate(c) = IF L = Absent THEN Absent ELSE IF L.enabled THEN L ELSE Absent
      /\ L # Absent => L.enabled \in BOOLEAN
  BY LegacyIs
<1>2. t \in Service /\ t.customCertificate = NormalCertificate(m)
  BY <1>1, NormalServiceIs
<1>3. /\ m = IF s.customCertificate # Absent THEN s.customCertificate ELSE L
      /\ m \in Certificates
  BY <1>1, CustomIs DEF MigratedCertificate
<1> HIDE DEF L, m
<1>4. /\ t.customCertificate = Absent <=> m = Absent
      /\ m # Absent => /\ t.customCertificate.enabled = m.enabled
                       /\ t.customCertificate.pem = Trim(m.pem)
  BY <1>2, <1>3, NormalCertificateIs
<1>5. CustomOn(t) <=> m # Absent /\ m.enabled
  BY <1>2, <1>4, CustomIs
<1>6. CustomOn(s) <=> s.customCertificate # Absent /\ s.customCertificate.enabled
  BY CustomIs
<1>7. m # Absent => Trim(t.customCertificate.pem) = Trim(m.pem)
  <2>1. m # Absent => m.pem \in Text
    BY <1>3 DEF Certificates, Certificate
  <2> QED
    BY <1>4, <2>1, TrimIs
<1>8. CASE s.customCertificate # Absent
  <2>1. m = s.customCertificate
    BY <1>3, <1>8
  <2>2. CustomOn(t) <=> CustomOn(s)
    BY <1>5, <1>6, <1>8, <2>1
  <2> QED
    BY <1>7, <1>8, <2>1, <2>2
<1>9. CASE s.customCertificate = Absent
  <2>1. m = L /\ ~CustomOn(s)
    BY <1>3, <1>6, <1>9
  <2>2. CustomOn(t) <=> LegacyCertificate(c) # Absent
    BY <1>1, <1>5, <2>1
  <2>3. CustomOn(t) => m # Absent /\ LegacyCertificate(c) = m
    BY <1>1, <1>5, <2>1
  <2> QED
    BY <1>7, <2>1, <2>2, <2>3
<1> QED
  BY <1>8, <1>9

\* What the node makes of a service is the same before and after.  Of one
\* with a list of hosts, which is a host to the node, it keeps the others.
LEMMA MigratedService ==
  ASSUME NEW c \in Config, FromEarlier(c), NEW i \in DOMAIN c.services,
         NEW s, s = c.services[i], NEW t, t = NormalizeConfig(c).services[i]
  PROVE  /\ t.name = s.name /\ AgentHosts(s) \ ListLabels \subseteq AgentHosts(t)
         /\ ~ListsHosts(s) => AgentHosts(t) = AgentHosts(s)
         /\ ~ListsHosts(s) /\ ~Stranded(c) =>
               AgentBindAddr(t, ProxyOn(c)) = AgentBindAddr(s, ProxyOn(c))
         /\ AgentBindAddr(s, ProxyOn(c)) # Memory =>
               t.bindAddr = s.bindAddr /\ AgentBindAddr(t, ProxyOn(c)) # Memory
         /\ AgentHosts(t) # {} => \A h : Route(t, h) = Route(s, h)
         /\ AgentHosts(t) # {} =>
               /\ CustomOn(t) <=> CustomOn(s) \/ LegacyCertificate(c) # Absent
               /\ CustomOn(t) => Trim(t.customCertificate.pem)
                     = Trim(IF CustomOn(s) THEN s.customCertificate.pem
                            ELSE LegacyCertificate(c).pem)
<1> DEFINE cert == Legacy(c)
           k == i - 1
<1>1. /\ s \in Service /\ k \in Nat /\ cert \in Certificates
      /\ t = NormalService(s, k, cert)
  BY NormalizeIs
<1>2. s \in Services(c)
  BY ServicesAre
<1>3. /\ s.type \in {"http", "https"} => AgentHosts(s) # {}
      /\ s.type \in {"http", "https"} /\ ~Stranded(c) => ProxyOn(c)
      /\ s.type = "udp" => AgentHosts(s) = {}
      /\ LegacyCertificate(c) # Absent => s.customCertificate = Absent \/ CustomOn(s)
  BY <1>2 DEF FromEarlier, Stranded
<1>4. /\ t.name = s.name
      /\ t.type = (IF s.type \in {"http", "https"} THEN "tcp" ELSE s.type)
      /\ t.bindAddr = (IF s.type \in {"http", "https"} THEN RestorePublicBindAddr(s, k)
                       ELSE s.bindAddr)
      /\ t.httpUpstreamTls = IF s.type # "udp" /\ (s.httpUpstreamTls = TRUE \/ s.type = "https")
                             THEN TRUE ELSE Absent
      /\ t.httpHost = Absent
  BY <1>1 DEF NormalService
<1>5. /\ ~ListsHosts(s) => AgentHosts(t) = AgentHosts(s)
      /\ AgentHosts(s) = {} => AgentHosts(t) = {}
      /\ AgentHosts(s) \ ListLabels \subseteq AgentHosts(t)
      /\ HasHttpRoute(t) <=> HasHttpRoute(s)
  BY <1>1, NormalKeepsHosts
<1>6. HasHttpRoute(s) =>
               /\ CustomOn(t) <=> CustomOn(s) \/ LegacyCertificate(c) # Absent
               /\ CustomOn(t) => Trim(t.customCertificate.pem)
                     = Trim(IF CustomOn(s) THEN s.customCertificate.pem
                            ELSE LegacyCertificate(c).pem)
  BY <1>1, <1>3, MigratedCustom
<1>7. AgentHosts(t) # {} => HasHttpRoute(s)
  <2>1. t \in Service
    BY <1>1, NormalServiceIs
  <2>2. ~ListsHosts(t)
    BY <1>4 DEF ListsHosts
  <2> QED
    BY <1>5, <2>1, <2>2, HasRoute
<1>8. s.type \in {"tcp", "udp", "http", "https"}
  BY <1>1 DEF Service
<1> HIDE DEF cert, k
<1>9. ASSUME s.type \in {"http", "https"}, ~ListsHosts(s), ~Stranded(c)
      PROVE  AgentBindAddr(t, ProxyOn(c)) = AgentBindAddr(s, ProxyOn(c))
  <2>1. AgentBindAddr(s, ProxyOn(c)) = Memory
    BY <1>9 DEF AgentBindAddr
  <2>2. t.type = "tcp" /\ ProxyOn(c) /\ AgentHosts(t) # {}
    BY <1>3, <1>4, <1>5, <1>9
  <2>3. AgentBindAddr(t, ProxyOn(c)) = Memory
    BY <2>2 DEF AgentBindAddr
  <2> QED
    BY <2>1, <2>3
<1>10. ASSUME s.type \in {"tcp", "udp"}, ~ListsHosts(s)
       PROVE  AgentBindAddr(t, ProxyOn(c)) = AgentBindAddr(s, ProxyOn(c))
  <2>1. t.type = s.type /\ t.bindAddr = s.bindAddr
    BY <1>4, <1>10
  <2> QED
    BY <1>5, <1>10, <2>1 DEF AgentBindAddr
<1>11. ASSUME AgentBindAddr(s, ProxyOn(c)) # Memory
       PROVE  t.bindAddr = s.bindAddr /\ AgentBindAddr(t, ProxyOn(c)) # Memory
  <2>1. s.type \in {"tcp", "udp"} /\ ~(s.type = "tcp" /\ ProxyOn(c) /\ AgentHosts(s) # {})
    BY <1>8, <1>11 DEF AgentBindAddr
  <2>2. t.type = s.type /\ t.bindAddr = s.bindAddr
    BY <1>4, <2>1
  <2>3. AgentBindAddr(s, ProxyOn(c)) = s.bindAddr
    BY <2>1 DEF AgentBindAddr
  <2>4. AgentBindAddr(t, ProxyOn(c)) = t.bindAddr
    BY <1>5, <2>1, <2>2 DEF AgentBindAddr
  <2> QED
    BY <1>11, <2>2, <2>3, <2>4
<1>12. ASSUME AgentHosts(t) # {}, NEW h
       PROVE  Route(t, h) = Route(s, h)
  <2>0. AgentHosts(s) # {} /\ s.type # "udp"
    BY <1>3, <1>5, <1>12
  <2>1. (t.httpUpstreamTls = TRUE \/ t.type = "https")
           <=> (s.httpUpstreamTls = TRUE \/ s.type = "https")
    BY <1>4, <1>8, <2>0, AbsentAssumption
  <2>2. AgentBindAddr(t, TRUE) = Memory /\ AgentBindAddr(s, TRUE) = Memory
    BY <1>4, <1>8, <1>12, <2>0 DEF AgentBindAddr
  <2> QED
    BY <1>4, <2>1, <2>2 DEF Route
<1>13. ~ListsHosts(s) /\ ~Stranded(c) =>
          AgentBindAddr(t, ProxyOn(c)) = AgentBindAddr(s, ProxyOn(c))
  BY <1>8, <1>9, <1>10
<1> QED
  BY <1>4, <1>5, <1>6, <1>7, <1>11, <1>12, <1>13

LEMMA NormalizedHttp ==
  ASSUME NEW c \in Config
  PROVE  /\ ProxyOn(NormalizeConfig(c)) = ProxyOn(c)
         /\ LetsEncryptOn(NormalizeConfig(c)) = LetsEncryptOn(c)
         /\ LegacyCertificate(NormalizeConfig(c)) = Absent
<1> DEFINE n == NormalizeConfig(c)
<1>1. n.http = NormalHttp(c.http) /\ c.http \in Http \cup {Absent}
  BY NormalizeIs DEF Config
<1> HIDE DEF n
<1>2. /\ n.http = Absent <=> c.http = Absent
      /\ c.http # Absent =>
               /\ n.http.enabled = c.http.enabled
               /\ n.http.customCertificate = Absent
               /\ n.http.letsEncrypt = Absent <=> c.http.letsEncrypt = Absent
               /\ c.http.letsEncrypt # Absent => n.http.letsEncrypt.enabled = c.http.letsEncrypt.enabled
  BY <1>1, NormalHttpIs
<1>3. ProxyOn(n) = ProxyOn(c)
  BY <1>2 DEF ProxyOn
<1>4. LetsEncryptOn(n) = LetsEncryptOn(c)
  BY <1>2 DEF LetsEncryptOn
<1>5. LegacyCertificate(n) = Absent
  BY <1>2 DEF LegacyCertificate
<1> QED
  BY <1>3, <1>4, <1>5 DEF n

\* Ports, routes, certificates: a normal form serves what its origin served.
LEMMA MigrationServes ==
  ASSUME NEW c \in Config, FromEarlier(c), ~Stranded(c),
         \A s \in Services(c) : ~ListsHosts(s)
  PROVE  Serving(NormalizeConfig(c)) = Serving(c)
<1> DEFINE n == NormalizeConfig(c)
           P == ProxyOn(c)
           D == DOMAIN c.services
           L == LegacyCertificate(c)
<1>1. /\ n \in Config /\ DOMAIN n.services = D
      /\ ProxyOn(n) = P /\ LetsEncryptOn(n) = LetsEncryptOn(c)
      /\ LegacyCertificate(n) = Absent
  BY NormalizeIs, NormalizedHttp
<1>2. /\ Services(n) = {n.services[i] : i \in D}
      /\ Services(c) = {c.services[i] : i \in D}
  BY <1>1, ServicesAre
<1>3. ASSUME NEW i \in D
      PROVE  /\ n.services[i].name = c.services[i].name
             /\ AgentHosts(n.services[i]) = AgentHosts(c.services[i])
             /\ AgentBindAddr(n.services[i], P) = AgentBindAddr(c.services[i], P)
             /\ AgentBindAddr(c.services[i], P) # Memory => n.services[i].bindAddr = c.services[i].bindAddr
             /\ AgentHosts(c.services[i]) # {} =>
                   \A h : Route(n.services[i], h) = Route(c.services[i], h)
  <2>1. ~ListsHosts(c.services[i])
    BY <1>2
  <2> QED
    BY <2>1, MigratedService
<1>4. ASSUME NEW i \in D, AgentHosts(c.services[i]) # {}
      PROVE  /\ CustomOn(n.services[i]) <=> CustomOn(c.services[i]) \/ L # Absent
             /\ CustomOn(n.services[i]) => Trim(n.services[i].customCertificate.pem)
                     = Trim(IF CustomOn(c.services[i]) THEN c.services[i].customCertificate.pem
                            ELSE L.pem)
  BY <1>3, <1>4, MigratedService
<1> HIDE DEF n, P, D, L
<1>5. {<<s.name, s.bindAddr>> : s \in {t \in Services(n) : AgentBindAddr(t, ProxyOn(n)) # Memory}}
      = {<<s.name, s.bindAddr>> : s \in {t \in Services(c) : AgentBindAddr(t, P) # Memory}}
  <2> DEFINE A == {<<s.name, s.bindAddr>> : s \in {t \in Services(n) : AgentBindAddr(t, P) # Memory}}
             B == {<<s.name, s.bindAddr>> : s \in {t \in Services(c) : AgentBindAddr(t, P) # Memory}}
  <2>1. ASSUME NEW x \in A
        PROVE  x \in B
    <3>1. PICK i \in D : /\ AgentBindAddr(n.services[i], P) # Memory
                        /\ x = <<n.services[i].name, n.services[i].bindAddr>>
      BY <1>2
    <3>2. /\ AgentBindAddr(c.services[i], P) # Memory /\ c.services[i] \in Services(c)
          /\ x = <<c.services[i].name, c.services[i].bindAddr>>
      BY <1>2, <1>3, <3>1
    <3> QED
      BY <3>2
  <2>2. ASSUME NEW x \in B
        PROVE  x \in A
    <3>1. PICK i \in D : /\ AgentBindAddr(c.services[i], P) # Memory
                        /\ x = <<c.services[i].name, c.services[i].bindAddr>>
      BY <1>2
    <3>2. /\ AgentBindAddr(n.services[i], P) # Memory /\ n.services[i] \in Services(n)
          /\ x = <<n.services[i].name, n.services[i].bindAddr>>
      BY <1>2, <1>3, <3>1
    <3> QED
      BY <3>2
  <2> QED
    BY <1>1, <2>1, <2>2
<1>6. AgentRoutes(n) = AgentRoutes(c)
  <2>1. \A r : r \in AgentRoutes(n) <=>
               P /\ \E s \in Services(n) : \E h \in AgentHosts(s) : r = Route(s, h)
    BY <1>1, RoutesAre
  <2>2. \A r : r \in AgentRoutes(c) <=>
               P /\ \E s \in Services(c) : \E h \in AgentHosts(s) : r = Route(s, h)
    BY RoutesAre DEF P
  <2>3. ASSUME NEW r \in AgentRoutes(n)
        PROVE  r \in AgentRoutes(c)
    <3>1. PICK i \in D : \E h \in AgentHosts(n.services[i]) : r = Route(n.services[i], h)
      BY <1>2, <2>1
    <3>2. P /\ \E h \in AgentHosts(c.services[i]) : r = Route(c.services[i], h)
      BY <1>3, <2>1, <3>1
    <3> QED
      BY <1>2, <2>2, <3>2
  <2>4. ASSUME NEW r \in AgentRoutes(c)
        PROVE  r \in AgentRoutes(n)
    <3>1. PICK i \in D : \E h \in AgentHosts(c.services[i]) : r = Route(c.services[i], h)
      BY <1>2, <2>2
    <3>2. P /\ \E h \in AgentHosts(n.services[i]) : r = Route(n.services[i], h)
      BY <1>3, <2>2, <3>1
    <3> QED
      BY <1>2, <2>1, <3>2
  <2>5. \A r : r \in AgentRoutes(n) <=> r \in AgentRoutes(c)
    BY <2>3, <2>4
  <2>6. (\E X : AgentRoutes(n) = UNION X) /\ (\E X : AgentRoutes(c) = UNION X)
    <3>1. {} = UNION {}
      OBVIOUS
    <3> QED
      BY <3>1 DEF AgentRoutes
  <2> QED
    BY <2>5, <2>6
<1>7. AgentCustom(n) = AgentCustom(c)
  <2> DEFINE Pem(d, s) == Trim(IF CustomOn(s) THEN s.customCertificate.pem
                               ELSE LegacyCertificate(d).pem)
             Pairs(d) == UNION {{<<h, Pem(d, s)>> : h \in AgentHosts(s)} :
                            s \in {t \in Services(d) : CustomOn(t) \/ LegacyCertificate(d) # Absent}}
  <2>1. /\ AgentCustom(n) = IF ~P THEN {} ELSE Pairs(n)
        /\ AgentCustom(c) = IF ~P THEN {} ELSE Pairs(c)
    BY <1>1 DEF AgentCustom, P
  <2>2. ASSUME NEW i \in D, AgentHosts(c.services[i]) # {}
        PROVE  /\ CustomOn(n.services[i]) \/ LegacyCertificate(n) # Absent
                     <=> CustomOn(c.services[i]) \/ LegacyCertificate(c) # Absent
               /\ CustomOn(n.services[i]) => Pem(n, n.services[i]) = Pem(c, c.services[i])
               /\ LegacyCertificate(n) = Absent
    BY <1>1, <1>4, <2>2 DEF L
  <2> HIDE DEF Pem
  <2>3. ASSUME NEW x \in Pairs(n)
        PROVE  x \in Pairs(c)
    <3>1. PICK i \in D : /\ CustomOn(n.services[i]) \/ LegacyCertificate(n) # Absent
                        /\ \E h \in AgentHosts(n.services[i]) : x = <<h, Pem(n, n.services[i])>>
      BY <1>2
    <3>2. PICK h \in AgentHosts(c.services[i]) : x = <<h, Pem(n, n.services[i])>>
      BY <1>3, <3>1
    <3>3. /\ CustomOn(c.services[i]) \/ LegacyCertificate(c) # Absent
          /\ Pem(n, n.services[i]) = Pem(c, c.services[i])
          /\ c.services[i] \in Services(c)
      BY <1>2, <2>2, <3>1, <3>2
    <3> QED
      BY <3>2, <3>3
  <2>4. ASSUME NEW x \in Pairs(c)
        PROVE  x \in Pairs(n)
    <3>1. PICK i \in D : /\ CustomOn(c.services[i]) \/ LegacyCertificate(c) # Absent
                        /\ \E h \in AgentHosts(c.services[i]) : x = <<h, Pem(c, c.services[i])>>
      BY <1>2
    <3>2. PICK h \in AgentHosts(c.services[i]) : x = <<h, Pem(c, c.services[i])>>
      BY <3>1
    <3>3. /\ CustomOn(n.services[i])
          /\ Pem(n, n.services[i]) = Pem(c, c.services[i])
          /\ n.services[i] \in Services(n) /\ h \in AgentHosts(n.services[i])
      BY <1>2, <1>3, <2>2, <3>1, <3>2
    <3> QED
      BY <3>2, <3>3
  <2> QED
    BY <2>1, <2>3, <2>4
<1>8. AgentHttpsHosts(n) = AgentHttpsHosts(c)
  <2> DEFINE Mine == UNION {AgentHosts(s) : s \in {t \in Services(n) : ~CustomOn(t)}}
             Yours == UNION {AgentHosts(s) : s \in {t \in Services(c) : ~CustomOn(t)}}
  <2>1. /\ AgentHttpsHosts(n) = IF ~P THEN {} ELSE Mine
        /\ AgentHttpsHosts(c) = IF ~P \/ L # Absent THEN {} ELSE Yours
    BY <1>1 DEF AgentHttpsHosts, P, L
  <2>2. ASSUME NEW x \in Mine
        PROVE  L = Absent /\ x \in Yours
    <3>1. PICK i \in D : ~CustomOn(n.services[i]) /\ x \in AgentHosts(n.services[i])
      BY <1>2
    <3>2. x \in AgentHosts(c.services[i]) /\ c.services[i] \in Services(c)
      BY <1>2, <1>3, <3>1
    <3>3. L = Absent /\ ~CustomOn(c.services[i])
      BY <1>4, <3>1, <3>2
    <3> QED
      BY <3>2, <3>3
  <2>3. ASSUME NEW x \in Yours, L = Absent
        PROVE  x \in Mine
    <3>1. PICK i \in D : ~CustomOn(c.services[i]) /\ x \in AgentHosts(c.services[i])
      BY <1>2, <2>3
    <3>2. x \in AgentHosts(n.services[i]) /\ n.services[i] \in Services(n)
      BY <1>2, <1>3, <3>1
    <3>3. ~CustomOn(n.services[i])
      BY <1>4, <2>3, <3>1
    <3> QED
      BY <3>2, <3>3
  <2> HIDE DEF Mine, Yours
  <2>4. L # Absent => Mine = {}
    BY <2>2
  <2>5. L = Absent => Mine = Yours
    <3>1. (\A x \in Mine : x \in Yours) /\ (L = Absent => \A x \in Yours : x \in Mine)
      BY <2>2, <2>3
    <3>2. L = Absent => \A x : x \in Mine <=> x \in Yours
      BY <3>1
    <3> QED
      BY <3>2 DEF Mine, Yours
  <2> QED
    BY <2>1, <2>4, <2>5
<1> QED
  BY <1>1, <1>5, <1>6, <1>7, <1>8 DEF Serving, n, P

\* Where hosts are listed in the old field, everything else is still served.
LEMMA MigrationAdds ==
  ASSUME NEW c \in Config, FromEarlier(c)
  PROVE  ServesAll(Serving(c), Serving(NormalizeConfig(c)))
<1> DEFINE n == NormalizeConfig(c)
           P == ProxyOn(c)
           D == DOMAIN c.services
           L == LegacyCertificate(c)
<1>1. /\ n \in Config /\ DOMAIN n.services = D
      /\ ProxyOn(n) = P /\ LetsEncryptOn(n) = LetsEncryptOn(c)
      /\ LegacyCertificate(n) = Absent
  BY NormalizeIs, NormalizedHttp
<1>2. /\ Services(n) = {n.services[i] : i \in D}
      /\ Services(c) = {c.services[i] : i \in D}
  BY <1>1, ServicesAre
<1>3. ASSUME NEW i \in D
      PROVE  /\ n.services[i].name = c.services[i].name
             /\ AgentHosts(c.services[i]) \ ListLabels \subseteq AgentHosts(n.services[i])
             /\ AgentBindAddr(c.services[i], P) # Memory =>
                   /\ n.services[i].bindAddr = c.services[i].bindAddr
                   /\ AgentBindAddr(n.services[i], P) # Memory
             /\ AgentHosts(n.services[i]) # {} =>
                   \A h : Route(n.services[i], h) = Route(c.services[i], h)
  BY MigratedService
<1>4. ASSUME NEW i \in D, AgentHosts(n.services[i]) # {}
      PROVE  /\ CustomOn(n.services[i]) <=> CustomOn(c.services[i]) \/ L # Absent
             /\ CustomOn(n.services[i]) => Trim(n.services[i].customCertificate.pem)
                     = Trim(IF CustomOn(c.services[i]) THEN c.services[i].customCertificate.pem
                            ELSE L.pem)
  BY <1>4, MigratedService
<1> HIDE DEF n, P, D, L
<1>5. ASSUME NEW x \in Serving(c).ports
      PROVE  x \in Serving(n).ports
  <2>1. PICK s \in Services(c) : AgentBindAddr(s, P) # Memory /\ x = <<s.name, s.bindAddr>>
    BY <1>5 DEF Serving, P
  <2>2. PICK i \in D : s = c.services[i]
    BY <1>2
  <2>3. /\ n.services[i] \in Services(n) /\ AgentBindAddr(n.services[i], P) # Memory
        /\ x = <<n.services[i].name, n.services[i].bindAddr>>
    BY <1>2, <1>3, <2>1, <2>2
  <2> QED
    BY <1>1, <2>3 DEF Serving
<1>6. ASSUME NEW r \in Serving(c).routes, r.host \notin ListLabels
      PROVE  r \in Serving(n).routes
  <2>1. P /\ \E s \in Services(c) : \E h \in AgentHosts(s) : r = Route(s, h)
    BY <1>6, RoutesAre DEF Serving, P
  <2>2. PICK i \in D : \E h \in AgentHosts(c.services[i]) : r = Route(c.services[i], h)
    BY <1>2, <2>1
  <2>3. PICK h \in AgentHosts(c.services[i]) : r = Route(c.services[i], h)
    BY <2>2
  <2>4. h \notin ListLabels
    BY <1>6, <2>3 DEF Route
  <2>5. h \in AgentHosts(n.services[i]) /\ n.services[i] \in Services(n)
    BY <1>2, <1>3, <2>3, <2>4
  <2>6. r = Route(n.services[i], h)
    BY <1>3, <2>3, <2>5
  <2> QED
    BY <1>1, <2>1, <2>5, <2>6, RoutesAre DEF Serving
<1>7. ASSUME NEW x \in Serving(c).custom, x[1] \notin ListLabels
      PROVE  x \in Serving(n).custom
  <2> DEFINE Pem(d, s) == Trim(IF CustomOn(s) THEN s.customCertificate.pem
                               ELSE LegacyCertificate(d).pem)
             Pairs(d) == UNION {{<<h, Pem(d, s)>> : h \in AgentHosts(s)} :
                            s \in {t \in Services(d) : CustomOn(t) \/ LegacyCertificate(d) # Absent}}
  <2>1. \A d : AgentCustom(d) = IF ~ProxyOn(d) THEN {} ELSE Pairs(d)
    BY DEF AgentCustom
  <2>2. P /\ x \in Pairs(c)
    BY <1>7, <2>1 DEF Serving, P
  <2>3. PICK i \in D : /\ CustomOn(c.services[i]) \/ L # Absent
                      /\ \E h \in AgentHosts(c.services[i]) : x = <<h, Pem(c, c.services[i])>>
    BY <1>2, <2>2 DEF L
  <2>4. PICK h \in AgentHosts(c.services[i]) : x = <<h, Pem(c, c.services[i])>>
    BY <2>3
  <2>5. h \notin ListLabels
    BY <1>7, <2>4
  <2>6. h \in AgentHosts(n.services[i]) /\ n.services[i] \in Services(n)
    BY <1>2, <1>3, <2>4, <2>5
  <2>7. CustomOn(n.services[i]) /\ Pem(n, n.services[i]) = Pem(c, c.services[i])
    BY <1>4, <2>3, <2>6 DEF L
  <2> HIDE DEF Pem
  <2>8. x \in Pairs(n)
    BY <2>4, <2>6, <2>7
  <2> QED
    BY <1>1, <2>1, <2>2, <2>8 DEF Serving
<1>8. ASSUME NEW x \in Serving(c).https, x \notin ListLabels
      PROVE  x \in Serving(n).https
  <2>1. LetsEncryptOn(c) /\ P /\ L = Absent
    BY <1>8 DEF Serving, AgentHttpsHosts, P, L
  <2>2. PICK s \in Services(c) : ~CustomOn(s) /\ x \in AgentHosts(s)
    BY <1>8, <2>1 DEF Serving, AgentHttpsHosts, P, L
  <2>3. PICK i \in D : s = c.services[i]
    BY <1>2
  <2>4. x \in AgentHosts(n.services[i]) /\ n.services[i] \in Services(n)
    BY <1>2, <1>3, <1>8, <2>2, <2>3
  <2>5. ~CustomOn(n.services[i])
    BY <1>4, <2>1, <2>2, <2>3, <2>4
  <2>6. x \in AgentHttpsHosts(n)
    BY <1>1, <2>1, <2>4, <2>5 DEF AgentHttpsHosts
  <2> QED
    BY <1>1, <2>1, <2>6 DEF Serving
<1> QED
  BY <1>5, <1>6, <1>7, <1>8 DEF ServesAll, n

(***************************************************************************)
(* The editor's controls keep a draft a configuration, without the fields  *)
(* of earlier versions.                                                    *)
(***************************************************************************)
Modern(s) ==
  s \in Service /\ s.type \in {"tcp", "udp"} /\ s.httpHost = Absent /\ s.domain = Absent

Draft(c) == c \in Config /\ Normal(c)

LEMMA DraftIs ==
  ASSUME NEW c, Draft(c)
  PROVE  /\ c \in Config /\ c.services \in Seq(Service)
         /\ c.bindAddr \in Addr /\ c.http \in Http \cup {Absent}
         /\ c.domain \in Text \cup {Absent} /\ c.defaultToken \in Text \cup {Absent}
         /\ c.http # Absent => c.http.customCertificate = Absent
         /\ \A i \in DOMAIN c.services : Modern(c.services[i])
<1>1. c \in Config /\ Normal(c)
  BY DEF Draft
<1>2. \A i \in DOMAIN c.services : c.services[i] \in Services(c) /\ c.services[i] \in Service
  BY <1>1, ServicesAre
<1>3. \A i \in DOMAIN c.services : Modern(c.services[i])
  BY <1>1, <1>2 DEF Normal, Modern
<1>4. c.http # Absent => c.http.customCertificate = Absent
  BY <1>1 DEF Normal
<1> QED
  BY <1>1, <1>3, <1>4 DEF Config

LEMMA DraftFrom ==
  ASSUME NEW c \in Config, c.http # Absent => c.http.customCertificate = Absent,
         \A i \in DOMAIN c.services : Modern(c.services[i])
  PROVE  Draft(c)
<1>1. ASSUME NEW s \in Services(c)
      PROVE  s.type \in {"tcp", "udp"} /\ s.httpHost = Absent /\ s.domain = Absent
  <2>1. PICK i \in DOMAIN c.services : s = c.services[i]
    BY ServicesAre
  <2> QED
    BY <2>1 DEF Modern
<1> QED
  BY <1>1 DEF Draft, Normal

LEMMA DraftBind ==
  ASSUME NEW c, Draft(c), NEW a \in Addr
  PROVE  Draft([c EXCEPT !.bindAddr = a])
<1> DEFINE d == [c EXCEPT !.bindAddr = a]
<1>1. c \in Config
  BY DraftIs
<1>2. d \in Config /\ d.services = c.services /\ d.http = c.http
  BY <1>1 DEF Config
<1> HIDE DEF d
<1>3. Draft(d)
  BY <1>2, DraftIs, DraftFrom
<1> QED
  BY <1>3 DEF d

LEMMA DraftToken ==
  ASSUME NEW c, Draft(c), NEW t \in Text
  PROVE  Draft([c EXCEPT !.defaultToken = t])
<1> DEFINE d == [c EXCEPT !.defaultToken = t]
<1>1. c \in Config
  BY DraftIs
<1>2. d \in Config /\ d.services = c.services /\ d.http = c.http
  BY <1>1 DEF Config
<1> HIDE DEF d
<1>3. Draft(d)
  BY <1>2, DraftIs, DraftFrom
<1> QED
  BY <1>3 DEF d

LEMMA DraftHttp ==
  ASSUME NEW c, Draft(c), NEW http \in Http, http.customCertificate = Absent
  PROVE  Draft([c EXCEPT !.http = http])
<1> DEFINE d == [c EXCEPT !.http = http]
<1>1. c \in Config
  BY DraftIs
<1>2. d \in Config /\ d.services = c.services /\ d.http = http
  BY <1>1 DEF Config
<1> HIDE DEF d
<1>3. Draft(d)
  BY <1>2, DraftIs, DraftFrom
<1> QED
  BY <1>3 DEF d

LEMMA DraftServices ==
  ASSUME NEW c, Draft(c), NEW q \in Seq(Service), \A i \in DOMAIN q : Modern(q[i])
  PROVE  Draft([c EXCEPT !.services = q])
<1> DEFINE d == [c EXCEPT !.services = q]
<1>1. c \in Config
  BY DraftIs
<1>2. d \in Config /\ d.services = q /\ d.http = c.http
  BY <1>1 DEF Config
<1> HIDE DEF d
<1>3. Draft(d)
  BY <1>2, DraftIs, DraftFrom
<1> QED
  BY <1>3 DEF d

LEMMA DraftService ==
  ASSUME NEW c, Draft(c), NEW i \in DOMAIN c.services, NEW s, Modern(s)
  PROVE  Draft([c EXCEPT !.services[i] = s])
<1> DEFINE q == [c.services EXCEPT ![i] = s]
<1>1. c.services \in Seq(Service) /\ \A j \in DOMAIN c.services : Modern(c.services[j])
  BY DraftIs
<1>2. s \in Service
  BY DEF Modern
<1>3. q \in Seq(Service) /\ DOMAIN q = DOMAIN c.services
  BY <1>1, <1>2
<1>4. \A j \in DOMAIN q : Modern(q[j])
  BY <1>1, <1>3
<1> HIDE DEF q
<1>5. Draft([c EXCEPT !.services = q])
  BY <1>3, <1>4, DraftServices
<1> QED
  BY <1>5 DEF q

\* One field of a service typed into.
LEMMA ModernTyped ==
  ASSUME NEW s, Modern(s)
  PROVE  /\ \A v \in Text : Modern([s EXCEPT !.name = v]) /\ Modern([s EXCEPT !.token = v])
         /\ \A v \in Addr : Modern([s EXCEPT !.bindAddr = v])
         /\ \A v \in BOOLEAN : Modern([s EXCEPT !.httpEnabled = v])
         /\ \A v \in Seq(Host) : Modern([s EXCEPT !.httpHost = Absent, !.httpHosts = v])
         /\ \A v \in {TRUE, Absent} : Modern([s EXCEPT !.httpUpstreamTls = v])
         /\ \A v \in Certificate : Modern([s EXCEPT !.customCertificate = v])
<1> USE DEF Modern, Service
<1>1. \A v \in Text : Modern([s EXCEPT !.name = v])
  OBVIOUS
<1>2. \A v \in Text : Modern([s EXCEPT !.token = v])
  OBVIOUS
<1>3. \A v \in Addr : Modern([s EXCEPT !.bindAddr = v])
  OBVIOUS
<1>4. \A v \in BOOLEAN : Modern([s EXCEPT !.httpEnabled = v])
  OBVIOUS
<1>5. \A v \in Seq(Host) : Modern([s EXCEPT !.httpHost = Absent, !.httpHosts = v])
  OBVIOUS
<1>6. \A v \in {TRUE, Absent} : Modern([s EXCEPT !.httpUpstreamTls = v])
  OBVIOUS
<1>7. \A v \in Certificate : Modern([s EXCEPT !.customCertificate = v])
  OBVIOUS
<1> HIDE DEF Modern, Service
<1> QED
  BY <1>1, <1>2, <1>3, <1>4, <1>5, <1>6, <1>7

(***************************************************************************)
(* The inductive invariant.  What is stored is what an earlier version     *)
(* could save, and once it went through the handler, what validateConfig   *)
(* lets through; a draft is free of the fields of earlier versions, which  *)
(* is why retyping one service, which normalises all of them, has nothing  *)
(* to migrate in the others.                                               *)
(***************************************************************************)
EditorInv ==
  /\ stored \in Config /\ FromEarlier(stored)
  /\ shown \in Config
  /\ Draft(draft)
  /\ written \in BOOLEAN /\ (written => Saved(stored))
  /\ edits \in Nat /\ budget \in [edits : Nat, writes : Nat]
  /\ edits + budget.edits <= MaxEdits

LEMMA SavedFromEarlier ==
  ASSUME NEW c, Saved(c)
  PROVE  FromEarlier(c)
<1>1. LegacyCertificate(c) = Absent
  BY SavedIs
<1>2. ASSUME NEW s \in Services(c)
      PROVE  s.type \in {"tcp", "udp"} /\ (AgentHosts(s) # {} => s.type = "tcp")
  BY SavedService
<1> QED
  BY <1>1, <1>2 DEF FromEarlier

LEMMA NewInstanceIs == NewInstanceConfig \in Config /\ FromEarlier(NewInstanceConfig)
<1> DEFINE le == [enabled |-> FALSE, email |-> ""]
           http == [keys |-> "canonical", enabled |-> FALSE, customCertificate |-> Absent,
                    letsEncrypt |-> le]
           addr == [form |-> "v4", hostOk |-> TRUE, port |-> 2333]
           c == [DefaultConfig EXCEPT !.defaultToken = "good"]
<1>1. addr \in Addr
  BY DEF Addr
<1>2. le \in LetsEncrypt
  BY TextAssumption DEF LetsEncrypt
<1>3. http \in Http
  <2> HIDE DEF le
  <2> QED
    BY <1>2 DEF Http
<1>4. DefaultConfig = [bindAddr |-> addr, domain |-> Absent, defaultToken |-> "",
                       services |-> <<>>, http |-> http]
  BY DEF DefaultConfig
<1> HIDE DEF le, http, addr
<1>5. DefaultConfig \in Config /\ DefaultConfig.services = <<>>
  <2>1. <<>> \in Seq(Service)
    OBVIOUS
  <2>2. "" \in Text
    BY TextAssumption
  <2> QED
    BY <1>1, <1>3, <1>4, <2>1, <2>2 DEF Config
<1>6. c \in Config /\ c.services = <<>>
  <2>1. "good" \in Text
    BY TextAssumption
  <2> QED
    BY <1>5, <2>1 DEF Config
<1> HIDE DEF c
<1>7. NewInstanceConfig = NormalizeConfig(c)
  BY DEF NewInstanceConfig, c
<1>8. NormalizeConfig(c) \in Config /\ DOMAIN NormalizeConfig(c).services = {}
  BY <1>6, NormalizeIs
<1>9. Services(NormalizeConfig(c)) = {}
  BY <1>8, ServicesAre
<1> QED
  BY <1>7, <1>8, <1>9 DEF FromEarlier

LEMMA NormalizedDraft ==
  ASSUME NEW c \in Config
  PROVE  Draft(NormalizeConfig(c))
BY NormalizeIs, NormalizeIsNormal DEF Draft

LEMMA EditorInitInv == EditorInit => EditorInv
<1> SUFFICES ASSUME EditorInit
             PROVE  EditorInv
  OBVIOUS
<1>1. stored \in Config /\ FromEarlier(stored)
  BY NewInstanceIs, ConfigsAssumption DEF EditorInit
<1>2. shown \in Config /\ Draft(draft)
  BY <1>1, NormalizedDraft DEF EditorInit
<1>3. written = FALSE /\ edits = 0
  BY DEF EditorInit
<1>4. /\ budget \in [edits : Nat, writes : Nat]
      /\ budget.edits <= MaxEdits
  BY EditorBoundsAssumption DEF EditorInit
<1>5. edits \in Nat /\ edits + budget.edits <= MaxEdits
  BY <1>3, <1>4
<1> QED
  BY <1>1, <1>2, <1>3, <1>4, <1>5 DEF EditorInv

LEMMA SetConfigKeeps ==
  ASSUME EditorInv, NEW c, Draft(c), SetConfig(c)
  PROVE  EditorInv'
<1>1. /\ draft' = c /\ edits' = edits + 1 /\ budget.edits > 0
      /\ budget' = [budget EXCEPT !.edits = budget.edits - 1]
      /\ stored' = stored /\ shown' = shown /\ written' = written
  BY DEF SetConfig
<1>2. edits \in Nat /\ budget \in [edits : Nat, writes : Nat] /\ edits + budget.edits <= MaxEdits
  BY DEF EditorInv
<1>3. /\ edits' \in Nat /\ budget' \in [edits : Nat, writes : Nat]
      /\ edits' + budget'.edits <= MaxEdits
  <2>1. budget.edits \in Nat /\ budget.edits - 1 \in Nat
    BY <1>1, <1>2
  <2>2. budget' \in [edits : Nat, writes : Nat] /\ budget'.edits = budget.edits - 1
    BY <1>1, <1>2, <2>1
  <2>3. MaxEdits \in Nat
    BY EditorBoundsAssumption
  <2>4. edits + 1 \in Nat /\ (edits + 1) + (budget.edits - 1) <= MaxEdits
    BY <1>2, <2>1, <2>3
  <2> QED
    BY <1>1, <2>2, <2>4
<1>4. Draft(draft')
  BY <1>1
<1>5. /\ stored' \in Config /\ FromEarlier(stored') /\ shown' \in Config
      /\ written' \in BOOLEAN /\ (written' => Saved(stored'))
  BY <1>1 DEF EditorInv
<1> QED
  BY <1>3, <1>4, <1>5 DEF EditorInv

LEMMA PatchKeeps ==
  ASSUME EditorInv, Patch
  PROVE  EditorInv'
<1>1. Draft(draft)
  BY DEF EditorInv
<1>2. ASSUME NEW a \in SomeAddrs, SetConfig([draft EXCEPT !.bindAddr = a])
      PROVE  EditorInv'
  <2>1. Draft([draft EXCEPT !.bindAddr = a])
    BY <1>1, DraftBind, TypedAssumption
  <2> QED
    BY <1>2, <2>1, SetConfigKeeps
<1>3. ASSUME NEW t \in SomeTokens, SetConfig([draft EXCEPT !.defaultToken = t])
      PROVE  EditorInv'
  <2>1. Draft([draft EXCEPT !.defaultToken = t])
    BY <1>1, DraftToken, TypedAssumption
  <2> QED
    BY <1>3, <2>1, SetConfigKeeps
<1> QED
  BY <1>2, <1>3 DEF Patch

LEMMA UpdateServiceKeeps ==
  ASSUME EditorInv, NEW i \in DOMAIN draft.services, NEW s, Modern(s), UpdateService(i, s)
  PROVE  EditorInv'
<1>1. Draft([draft EXCEPT !.services[i] = s])
  BY DraftService DEF EditorInv
<1> QED
  BY <1>1, SetConfigKeeps DEF UpdateService

LEMMA EditServiceKeeps ==
  ASSUME EditorInv, NEW i \in DOMAIN draft.services, EditService(i)
  PROVE  EditorInv'
<1> DEFINE s == draft.services[i]
<1>1. /\ Modern(s)
      /\ \A j \in DOMAIN draft.services : draft.services[j].name \in Text
  BY DraftIs DEF EditorInv, Modern, Service
<1>2. \/ \E j \in DOMAIN draft.services :
            UpdateService(i, [s EXCEPT !.name = draft.services[j].name])
      \/ \E t \in SomeTokens : UpdateService(i, [s EXCEPT !.token = t])
      \/ \E a \in SomeAddrs : UpdateService(i, [s EXCEPT !.bindAddr = a])
  BY DEF EditService
<1> HIDE DEF s
<1>3. ASSUME NEW v, Modern(v), UpdateService(i, v)
      PROVE  EditorInv'
  BY <1>3, UpdateServiceKeeps
<1>4. CASE \E j \in DOMAIN draft.services :
              UpdateService(i, [s EXCEPT !.name = draft.services[j].name])
  <2>1. PICK j \in DOMAIN draft.services :
           UpdateService(i, [s EXCEPT !.name = draft.services[j].name])
    BY <1>4
  <2>2. Modern([s EXCEPT !.name = draft.services[j].name])
    BY <1>1, ModernTyped
  <2> QED
    BY <1>3, <2>1, <2>2
<1>5. CASE \E t \in SomeTokens : UpdateService(i, [s EXCEPT !.token = t])
  <2>1. PICK t \in SomeTokens : UpdateService(i, [s EXCEPT !.token = t])
    BY <1>5
  <2>2. Modern([s EXCEPT !.token = t])
    BY <1>1, ModernTyped, TypedAssumption
  <2> QED
    BY <1>3, <2>1, <2>2
<1>6. CASE \E a \in SomeAddrs : UpdateService(i, [s EXCEPT !.bindAddr = a])
  <2>1. PICK a \in SomeAddrs : UpdateService(i, [s EXCEPT !.bindAddr = a])
    BY <1>6
  <2>2. Modern([s EXCEPT !.bindAddr = a])
    BY <1>1, ModernTyped, TypedAssumption
  <2> QED
    BY <1>3, <2>1, <2>2
<1> QED
  BY <1>2, <1>4, <1>5, <1>6

LEMMA RouteServiceKeeps ==
  ASSUME EditorInv, NEW i \in DOMAIN draft.services, RouteService(i)
  PROVE  EditorInv'
<1> DEFINE s == draft.services[i]
<1>1. Modern(s)
  BY DraftIs DEF EditorInv
<1>2. \/ \E on \in BOOLEAN : UpdateService(i, [s EXCEPT !.httpEnabled = on])
      \/ \E hosts \in SomeHosts :
            UpdateService(i, [s EXCEPT !.httpHost = Absent, !.httpHosts = hosts])
      \/ \E tls \in {TRUE, Absent} : UpdateService(i, [s EXCEPT !.httpUpstreamTls = tls])
  BY DEF RouteService
<1> HIDE DEF s
<1>3. ASSUME NEW v, Modern(v), UpdateService(i, v)
      PROVE  EditorInv'
  BY <1>3, UpdateServiceKeeps
<1>4. CASE \E on \in BOOLEAN : UpdateService(i, [s EXCEPT !.httpEnabled = on])
  <2>1. PICK on \in BOOLEAN : UpdateService(i, [s EXCEPT !.httpEnabled = on])
    BY <1>4
  <2>2. Modern([s EXCEPT !.httpEnabled = on])
    BY <1>1, ModernTyped
  <2> QED
    BY <1>3, <2>1, <2>2
<1>5. CASE \E hosts \in SomeHosts :
              UpdateService(i, [s EXCEPT !.httpHost = Absent, !.httpHosts = hosts])
  <2>1. PICK hosts \in SomeHosts :
           UpdateService(i, [s EXCEPT !.httpHost = Absent, !.httpHosts = hosts])
    BY <1>5
  <2>2. Modern([s EXCEPT !.httpHost = Absent, !.httpHosts = hosts])
    BY <1>1, ModernTyped, TypedAssumption
  <2> QED
    BY <1>3, <2>1, <2>2
<1>6. CASE \E tls \in {TRUE, Absent} : UpdateService(i, [s EXCEPT !.httpUpstreamTls = tls])
  <2>1. PICK tls \in {TRUE, Absent} : UpdateService(i, [s EXCEPT !.httpUpstreamTls = tls])
    BY <1>6
  <2>2. Modern([s EXCEPT !.httpUpstreamTls = tls])
    BY <1>1, ModernTyped
  <2> QED
    BY <1>3, <2>1, <2>2
<1> QED
  BY <1>2, <1>4, <1>5, <1>6

\* The service as it is retyped, and the draft before it is normalised.
Retyped(i, type) ==
  IF type # "udp" THEN [draft.services[i] EXCEPT !.type = type]
  ELSE [[draft.services[i] EXCEPT !.type = type] EXCEPT
           !.httpHost = Absent, !.httpHosts = Absent, !.httpEnabled = Absent,
           !.httpUpstreamTls = Absent, !.customCertificate = Absent]

LEMMA RetypedIs ==
  ASSUME Draft(draft), NEW i \in DOMAIN draft.services, NEW type \in {"tcp", "udp"}
  PROVE  /\ RetypedConfig(i, type) = NormalizeConfig([draft EXCEPT !.services[i] = Retyped(i, type)])
         /\ [draft EXCEPT !.services[i] = Retyped(i, type)] \in Config
<1> DEFINE s == draft.services[i]
           s1 == [s EXCEPT !.type = type]
           s2 == [s1 EXCEPT !.httpHost = Absent, !.httpHosts = Absent, !.httpEnabled = Absent,
                            !.httpUpstreamTls = Absent, !.customCertificate = Absent]
           r == Retyped(i, type)
<1>1. Modern(s) /\ s \in Service /\ draft \in Config /\ draft.services \in Seq(Service)
  BY DraftIs DEF Modern
<1>2. RetypedConfig(i, type) = NormalizeConfig([draft EXCEPT !.services[i] = r])
  BY DEF RetypedConfig, Retyped
<1>3. r = IF type # "udp" THEN s1 ELSE s2
  BY DEF Retyped
<1> HIDE DEF s, r
<1>4. s1 \in Service
  BY <1>1 DEF Service
<1> HIDE DEF s1
<1>5. s2 \in Service
  BY <1>4 DEF Service
<1> HIDE DEF s2
<1>6. r \in Service
  BY <1>3, <1>4, <1>5
<1> DEFINE q == [draft.services EXCEPT ![i] = r]
<1>7. q \in Seq(Service)
  BY <1>1, <1>6
<1> HIDE DEF q
<1>8. [draft EXCEPT !.services = q] \in Config
  BY <1>1, <1>7 DEF Config
<1> QED
  BY <1>2, <1>8 DEF q, r

LEMMA UpdateServiceTypeKeeps ==
  ASSUME EditorInv, NEW i \in DOMAIN draft.services, UpdateServiceType(i)
  PROVE  EditorInv'
<1>1. PICK type \in {"tcp", "udp"} : SetConfig(RetypedConfig(i, type))
  BY DEF UpdateServiceType
<1>2. Draft(draft)
  BY DEF EditorInv
<1>3. Draft(RetypedConfig(i, type))
  BY <1>2, RetypedIs, NormalizedDraft
<1> QED
  BY <1>1, <1>3, SetConfigKeeps

LEMMA HttpBlockIs ==
  ASSUME NEW k \in {"canonical", "edited"}, NEW on \in BOOLEAN, NEW le \in LetsEncrypt
  PROVE  HttpBlock(k, on, le) \in Http /\ HttpBlock(k, on, le).customCertificate = Absent
BY DEF HttpBlock, Http

LEMMA CurrentLetsEncryptIs ==
  ASSUME Draft(draft)
  PROVE  CurrentLetsEncrypt \in LetsEncrypt /\ ProxyOn(draft) \in BOOLEAN
<1>1. draft.http \in Http \cup {Absent}
  BY DraftIs
<1>2. NoLetsEncrypt \in LetsEncrypt
  BY TextAssumption DEF NoLetsEncrypt, LetsEncrypt
<1>3. \A http \in Http : http.enabled \in BOOLEAN /\ http.letsEncrypt \in LetsEncrypt \cup {Absent}
  BY DEF Http
<1> QED
  BY <1>1, <1>2, <1>3 DEF CurrentLetsEncrypt, ProxyOn

LEMMA UpdateHttpKeeps ==
  ASSUME EditorInv, UpdateHttp
  PROVE  EditorInv'
<1>1. PICK on \in BOOLEAN :
         SetConfig([draft EXCEPT !.http = HttpBlock("edited", on, CurrentLetsEncrypt)])
  BY DEF UpdateHttp
<1>2. Draft(draft)
  BY DEF EditorInv
<1> DEFINE http == HttpBlock("edited", on, CurrentLetsEncrypt)
<1>3. http \in Http /\ http.customCertificate = Absent
  BY <1>2, HttpBlockIs, CurrentLetsEncryptIs
<1>4. SetConfig([draft EXCEPT !.http = http])
  BY <1>1
<1> HIDE DEF http
<1>5. Draft([draft EXCEPT !.http = http])
  BY <1>2, <1>3, DraftHttp
<1> QED
  BY <1>4, <1>5, SetConfigKeeps

LEMMA UpdateLetsEncryptKeeps ==
  ASSUME EditorInv, UpdateLetsEncrypt
  PROVE  EditorInv'
<1> DEFINE Nexts == {[CurrentLetsEncrypt EXCEPT !.enabled = on] : on \in BOOLEAN}
                     \cup {[CurrentLetsEncrypt EXCEPT !.email = e] : e \in {"", "good", "bad"}}
<1>1. PICK next \in Nexts :
         SetConfig([draft EXCEPT
            !.http = HttpBlock("canonical", next.enabled \/ ProxyOn(draft), next)])
  BY DEF UpdateLetsEncrypt
<1>2. Draft(draft)
  BY DEF EditorInv
<1>3. CurrentLetsEncrypt \in LetsEncrypt
  BY <1>2, CurrentLetsEncryptIs
<1>4. next \in LetsEncrypt
  <2> DEFINE le == CurrentLetsEncrypt
  <2> HIDE DEF le
  <2>1. \A on \in BOOLEAN : [le EXCEPT !.enabled = on] \in LetsEncrypt
    BY <1>3 DEF LetsEncrypt, le
  <2>2. \A e \in {"", "good", "bad"} : [le EXCEPT !.email = e] \in LetsEncrypt
    BY <1>3, TextAssumption DEF LetsEncrypt, le
  <2> QED
    BY <2>1, <2>2 DEF le
<1> HIDE DEF Nexts
<1> DEFINE on == next.enabled \/ ProxyOn(draft)
           http == HttpBlock("canonical", on, next)
<1>5. on \in BOOLEAN
  OBVIOUS
<1>6. SetConfig([draft EXCEPT !.http = http])
  BY <1>1
<1> HIDE DEF on
<1>7. http \in Http /\ http.customCertificate = Absent
  BY <1>4, <1>5, HttpBlockIs
<1> HIDE DEF http
<1>8. Draft([draft EXCEPT !.http = http])
  BY <1>2, <1>7, DraftHttp
<1> QED
  BY <1>6, <1>8, SetConfigKeeps

LEMMA UpdateCertificateKeeps ==
  ASSUME EditorInv, NEW i \in DOMAIN draft.services, UpdateServiceCustomCertificate(i)
  PROVE  EditorInv'
<1> DEFINE s == draft.services[i]
           current == IF s.customCertificate = Absent THEN [enabled |-> FALSE, pem |-> ""]
                      ELSE s.customCertificate
           Nexts == {[current EXCEPT !.enabled = on] : on \in BOOLEAN}
                      \cup (IF CustomOn(s)
                            THEN {[current EXCEPT !.pem = p] : p \in {"partial", "padded"}}
                            ELSE {})
<1>1. PICK next \in Nexts :
              SetConfig([draft EXCEPT
                  !.services[i].customCertificate = next,
                  !.http = HttpBlock("canonical", next.enabled \/ ProxyOn(draft),
                                     CurrentLetsEncrypt)])
  BY DEF UpdateServiceCustomCertificate
<1>2. Draft(draft) /\ draft \in Config /\ Modern(s)
  BY DraftIs DEF EditorInv
<1>3. current \in Certificate
  <2>1. s.customCertificate \in Certificate \cup {Absent}
    BY <1>2 DEF Modern, Service
  <2>2. [enabled |-> FALSE, pem |-> ""] \in Certificate
    BY TextAssumption DEF Certificate
  <2> QED
    BY <2>1, <2>2
<1> HIDE DEF current
<1>4. next \in Certificate
  <2>1. \A on \in BOOLEAN : [current EXCEPT !.enabled = on] \in Certificate
    BY <1>3 DEF Certificate
  <2>2. \A p \in {"partial", "padded"} : [current EXCEPT !.pem = p] \in Certificate
    BY <1>3, TextAssumption DEF Certificate
  <2> QED
    BY <2>1, <2>2
<1> HIDE DEF Nexts
<1> DEFINE s1 == [s EXCEPT !.customCertificate = next]
           c1 == [draft EXCEPT !.services[i] = s1]
           on == next.enabled \/ ProxyOn(draft)
           http == HttpBlock("canonical", on, CurrentLetsEncrypt)
           c2 == [c1 EXCEPT !.http = http]
<1>5. Modern(s1)
  BY <1>2, <1>4, ModernTyped
<1>6. Draft(c1)
  <2> HIDE DEF s1
  <2> QED
    BY <1>2, <1>5, DraftService
<1>7. http \in Http /\ http.customCertificate = Absent
  <2>1. on \in BOOLEAN
    OBVIOUS
  <2> HIDE DEF on
  <2> QED
    BY <1>2, <2>1, HttpBlockIs, CurrentLetsEncryptIs
<1>8. Draft(c2)
  <2> HIDE DEF c1, http
  <2> QED
    BY <1>6, <1>7, DraftHttp
<1>9. [draft EXCEPT !.services[i].customCertificate = next, !.http = http] = c2
  <2>1. [draft EXCEPT !.services[i].customCertificate = next, !.http = http]
          = [[draft EXCEPT !.services[i].customCertificate = next] EXCEPT !.http = http]
    <3> HIDE DEF http
    <3> QED
      OBVIOUS
  <2>2. [draft EXCEPT !.services[i].customCertificate = next] = c1
    OBVIOUS
  <2> QED
    BY <2>1, <2>2
<1>10. SetConfig(c2)
  BY <1>1, <1>9
<1> HIDE DEF c2
<1> QED
  BY <1>8, <1>10, SetConfigKeeps

LEMMA AddServiceKeeps ==
  ASSUME EditorInv, AddService
  PROVE  EditorInv'
<1> DEFINE k == Len(draft.services) + 1
           s == NewService(ServiceNames[k])
           q == Append(draft.services, s)
<1>1. SetConfig([draft EXCEPT !.services = q]) /\ Len(draft.services) < MaxServices
  BY DEF AddService
<1>2. Draft(draft) /\ draft.services \in Seq(Service)
      /\ \A i \in DOMAIN draft.services : Modern(draft.services[i])
  BY DraftIs DEF EditorInv
<1>3. ServiceNames[k] \in Text
  BY <1>1, <1>2, EditorBoundsAssumption, TypedAssumption
<1>4. Modern(s)
  <2>1. DefaultPublicBindAddr(0) \in Addr
    BY DEF DefaultPublicBindAddr, Addr
  <2> HIDE DEF k
  <2> QED
    BY <1>3, <2>1 DEF Modern, NewService, Service
<1> HIDE DEF s
<1>5. s \in Service
  BY <1>4 DEF Modern
<1>6. q \in Seq(Service) /\ \A i \in DOMAIN q : Modern(q[i])
  BY <1>2, <1>4, <1>5
<1> HIDE DEF q
<1>7. Draft([draft EXCEPT !.services = q])
  BY <1>2, <1>6, DraftServices
<1> QED
  BY <1>1, <1>7, SetConfigKeeps

LEMMA RemoveServiceKeeps ==
  ASSUME EditorInv, NEW i \in DOMAIN draft.services, RemoveService(i)
  PROVE  EditorInv'
<1> DEFINE p == draft.services
           q == RemoveAt(p, i)
<1>1. SetConfig([draft EXCEPT !.services = q])
  BY DEF RemoveService
<1>2. Draft(draft) /\ p \in Seq(Service) /\ \A j \in DOMAIN p : Modern(p[j])
  BY DraftIs DEF EditorInv
<1>3. q = SubSeq(p, 1, i-1) \o SubSeq(p, i+1, Len(p))
  BY DEF RemoveAt
<1>4. i \in DOMAIN p
  OBVIOUS
<1> HIDE DEF p, q
<1> DEFINE Moderns == {s \in Service : Modern(s)}
<1>5. p \in Seq(Moderns)
  BY <1>2
<1>6. q \in Seq(Moderns)
  <2> HIDE DEF Moderns
  <2>1. Len(p) \in Nat /\ i \in 1..Len(p)
    BY <1>4, <1>5
  <2>2. SubSeq(p, 1, i-1) \in Seq(Moderns) /\ SubSeq(p, i+1, Len(p)) \in Seq(Moderns)
    BY <1>5, <2>1
  <2> QED
    BY <1>3, <2>2
<1>7. q \in Seq(Service) /\ \A j \in DOMAIN q : Modern(q[j])
  BY <1>6
<1>8. Draft([draft EXCEPT !.services = q])
  BY <1>2, <1>7, DraftServices
<1> QED
  BY <1>1, <1>8, SetConfigKeeps

LEMMA EditKeeps ==
  ASSUME EditorInv, EditDraft
  PROVE  EditorInv'
<1>1. CASE Patch
  BY <1>1, PatchKeeps
<1>2. CASE UpdateHttp
  BY <1>2, UpdateHttpKeeps
<1>3. CASE UpdateLetsEncrypt
  BY <1>3, UpdateLetsEncryptKeeps
<1>4. CASE AddService
  BY <1>4, AddServiceKeeps
<1>5. ASSUME NEW i \in DOMAIN draft.services,
             EditService(i) \/ RouteService(i) \/ UpdateServiceType(i)
               \/ UpdateServiceCustomCertificate(i) \/ RemoveService(i)
      PROVE  EditorInv'
  BY <1>5, EditServiceKeeps, RouteServiceKeeps, UpdateServiceTypeKeeps, UpdateCertificateKeeps,
     RemoveServiceKeeps
<1> QED
  BY <1>1, <1>2, <1>3, <1>4, <1>5 DEF EditDraft

\* What the handler stores went through it.
LEMMA PutIs ==
  ASSUME NEW c \in Config, Put(c)
  PROVE  /\ stored' \in Config /\ FromEarlier(stored')
         /\ written' \in BOOLEAN /\ Saved(stored')
<1> DEFINE n == NormalizeConfig(c)
<1>1. ValidateConfig(n) = {} /\ stored' = n /\ written' = TRUE
  BY DEF Put
<1>2. Draft(n)
  BY NormalizedDraft
<1> HIDE DEF n
<1>3. Saved(n)
  BY <1>1, <1>2 DEF Saved, Draft
<1> QED
  BY <1>1, <1>3, SavedFromEarlier DEF Saved

LEMMA SavingKeeps ==
  ASSUME EditorInv, Save \/ Rename \/ OtherSaves
  PROVE  EditorInv'
<1>1. /\ stored \in Config /\ draft \in Config /\ NormalizeConfig(draft) \in Config
      /\ OtherConfigs \subseteq Config
  BY DraftIs, NormalizeIs, ConfigsAssumption DEF EditorInv
<1>2. PICK c \in Config : Put(c)
  BY <1>1 DEF Save, Rename, OtherSaves
<1>3. /\ stored' \in Config /\ FromEarlier(stored')
      /\ written' \in BOOLEAN /\ Saved(stored')
  BY <1>2, PutIs
<1>4. /\ shown' = shown /\ draft' = draft /\ edits' = edits
      /\ \/ budget' = budget
         \/ budget.writes > 0 /\ budget' = [budget EXCEPT !.writes = budget.writes - 1]
  BY DEF Save, Rename, OtherSaves
<1>5. budget' \in [edits : Nat, writes : Nat] /\ budget'.edits = budget.edits
  <2>1. budget \in [edits : Nat, writes : Nat]
    BY DEF EditorInv
  <2>2. budget.writes > 0 => budget.writes - 1 \in Nat
    BY <2>1
  <2> QED
    BY <1>4, <2>1, <2>2
<1>6. shown' \in Config /\ Draft(draft')
  BY <1>4 DEF EditorInv
<1>7. edits' \in Nat /\ edits' + budget'.edits <= MaxEdits
  BY <1>4, <1>5 DEF EditorInv
<1> QED
  BY <1>3, <1>5, <1>6, <1>7 DEF EditorInv

LEMMA ViewArrivesKeeps ==
  ASSUME EditorInv, ViewArrives
  PROVE  EditorInv'
<1>1. /\ shown' = stored /\ stored' = stored /\ written' = written
      /\ edits' = edits /\ budget' = budget
      /\ draft' = draft \/ draft' = NormalizeConfig(stored)
  BY DEF ViewArrives, Resynced
<1>2. Draft(draft')
  BY <1>1, NormalizedDraft DEF EditorInv
<1> QED
  BY <1>1, <1>2 DEF EditorInv

LEMMA ReopenKeeps ==
  ASSUME EditorInv, Reopen
  PROVE  EditorInv'
<1>1. /\ shown' = shown /\ stored' = stored /\ written' = written
      /\ edits' = 0 /\ budget' = budget /\ draft' = NormalizeConfig(shown)
  BY DEF Reopen
<1>2. Draft(draft')
  BY <1>1, NormalizedDraft DEF EditorInv
<1>3. edits' \in Nat /\ edits' + budget'.edits <= MaxEdits
  BY <1>1, EditorBoundsAssumption DEF EditorInv
<1> QED
  BY <1>1, <1>2, <1>3 DEF EditorInv

LEMMA EditorNextInv == EditorInv /\ [EditorNext]_editorVars => EditorInv'
<1> SUFFICES ASSUME EditorInv, [EditorNext]_editorVars
             PROVE  EditorInv'
  OBVIOUS
<1>1. CASE EditDraft
  BY <1>1, EditKeeps
<1>2. CASE Save \/ Rename \/ OtherSaves
  BY <1>2, SavingKeeps
<1>3. CASE ViewArrives
  BY <1>3, ViewArrivesKeeps
<1>4. CASE Reopen
  BY <1>4, ReopenKeeps
<1>5. CASE UNCHANGED editorVars
  BY <1>5 DEF editorVars, EditorInv
<1> QED
  BY <1>1, <1>2, <1>3, <1>4, <1>5 DEF EditorNext

LEMMA AlwaysEditorInv == EditorSpec => []EditorInv
BY EditorInitInv, EditorNextInv, PTL DEF EditorSpec

(***************************************************************************)
(* The stored record, the browser's copy and the draft are configurations  *)
(* for any number of services, hosts and edits, and the draft is free of   *)
(* the fields that normalizeConfig drops.                                  *)
(***************************************************************************)
THEOREM EditorTypeCorrect == EditorSpec => []EditorTypeOK
<1>1. EditorInv => EditorTypeOK
  <2> SUFFICES ASSUME EditorInv
               PROVE  EditorTypeOK
    OBVIOUS
  <2>1. /\ edits \in Nat /\ budget.edits \in Nat /\ edits + budget.edits <= MaxEdits
        /\ MaxEdits \in Nat
    BY EditorBoundsAssumption DEF EditorInv
  <2>2. edits \in 0..MaxEdits
    BY <2>1
  <2>3. /\ stored \in Config /\ shown \in Config /\ draft \in Config /\ written \in BOOLEAN
        /\ Normal(draft)
    BY DEF EditorInv, Draft
  <2> QED
    BY <2>2, <2>3 DEF EditorTypeOK, Normal
<1> QED
  BY <1>1, AlwaysEditorInv, PTL

(***************************************************************************)
(* Whatever validateConfig lets through, the agent can run: it builds its  *)
(* proxy, opens every port, knows a token and a way in for each service.   *)
(***************************************************************************)
THEOREM SavedCanRun == EditorSpec => []NodeCanRunIt
<1>1. EditorInv => NodeCanRunIt
  BY SavedRuns DEF EditorInv, NodeCanRunIt
<1> QED
  BY <1>1, AlwaysEditorInv, PTL

(***************************************************************************)
(* The panel and the agent, each with its own rules for hosts and routing, *)
(* agree on which services have no public port and which hosts get a       *)
(* certificate, in every configuration that was saved.                     *)
(***************************************************************************)
THEOREM PanelAndNodeAgree == EditorSpec => []PanelSaysWhatNodeDoes
<1>1. EditorInv => PanelSaysWhatNodeDoes
  BY SavedSays DEF EditorInv, PanelSaysWhatNodeDoes
<1> QED
  BY <1>1, AlwaysEditorInv, PTL

(***************************************************************************)
(* No host of a saved configuration is claimed twice on the node, apart    *)
(* from spellings with the final dot.                                      *)
(***************************************************************************)
THEOREM OneOwner == EditorSpec => []HostsHaveOneOwner
<1>1. EditorInv => HostsHaveOneOwner
  BY SavedOwners DEF EditorInv, HostsHaveOneOwner
<1> QED
  BY <1>1, AlwaysEditorInv, PTL

(***************************************************************************)
(* The client.toml that the panel generates fits the server configuration  *)
(* that the agent builds, for every configuration that was saved.          *)
(***************************************************************************)
THEOREM ClientFits == EditorSpec => []ClientFitsNode
<1>1. ASSUME EditorInv
      PROVE  ClientFitsNode
  <2> SUFFICES ASSUME written
               PROVE  ClientFitsNode
    BY DEF ClientFitsNode
  <2>1. Saved(stored)
    BY <1>1 DEF EditorInv
  <2>2. ClientToml(stored).port = stored.bindAddr.port
    BY DEF ClientToml
  <2>3. ASSUME NEW s \in Services(stored),
               NEW block, block = CHOOSE b \in ClientToml(stored).services : b[1] = s.name
        PROVE  /\ block[2].type = AgentService(stored, s).type
               /\ s.token = Absent \/ Given(s.token) =>
                     (IF block[2].token = Absent THEN ClientToml(stored).defaultToken
                      ELSE block[2].token) = AgentService(stored, s).token
    BY <2>1, <2>3, SavedClient
  <2> QED
    BY <2>2, <2>3 DEF ClientFitsNode
<1> QED
  BY <1>1, AlwaysEditorInv, PTL

(***************************************************************************)
(* Whatever an earlier version stored, its normal form serves the same     *)
(* ports, routes and certificates, unless the proxy was off while a        *)
(* service was marked http; with a list of hosts in the old field, which   *)
(* the node takes for one, it serves at least everything else.             *)
(***************************************************************************)
THEOREM MigrationIsSafe == EditorSpec => []MigrationKeepsServing
<1>1. EditorInv => MigrationKeepsServing
  BY MigrationServes, MigrationAdds DEF EditorInv, MigrationKeepsServing
<1> QED
  BY <1>1, AlwaysEditorInv, PTL

(***************************************************************************)
(* Retyping one service, which normalises the whole draft, changes nothing *)
(* that is shown of another.                                               *)
(***************************************************************************)
LEMMA RetypingKeepsOthers ==
  ASSUME Draft(draft), NEW i \in DOMAIN draft.services, NEW type \in {"tcp", "udp"},
         draft' = RetypedConfig(i, type), NEW j \in DOMAIN draft.services \ {i}
  PROVE  ServiceShown(draft', j) = ServiceShown(draft, j)
<1> DEFINE c == [draft EXCEPT !.services[i] = Retyped(i, type)]
           s == draft.services[j]
           t == draft'.services[j]
           k == j - 1
           L == Legacy(c)
<1>1. c \in Config /\ draft' = NormalizeConfig(c)
  BY RetypedIs
<1>2. /\ Modern(s) /\ draft \in Config /\ draft.services \in Seq(Service)
      /\ draft.http # Absent => draft.http.customCertificate = Absent
  BY DraftIs
<1>3. c.services[j] = s /\ DOMAIN c.services = DOMAIN draft.services /\ c.http = draft.http
  BY <1>2 DEF Config
<1> HIDE DEF c
<1>4. L = Absent
  BY <1>2, <1>3 DEF Legacy
<1>5. k \in Nat /\ s \in Service /\ t = NormalService(s, k, L) /\ L \in Certificates
  BY <1>1, <1>3, NormalizeIs
<1> HIDE DEF s, t, k, L
<1> DEFINE n == NormalService(s, k, L)
<1>6. /\ ServiceHttpHosts(n) = ServiceHttpHosts(s)
      /\ IsHttpRoutingOn(n) <=> IsHttpRoutingOn(s)
  BY <1>5, NormalKeepsHosts
<1>7. n.bindAddr = IF s.type \in {"http", "https"} THEN RestorePublicBindAddr(s, k) ELSE s.bindAddr
  BY DEF NormalService
<1>8. n \in Service /\ n.customCertificate = NormalCertificate(MigratedCertificate(s, L))
  BY <1>5, NormalServiceIs
<1>9. t = n
  BY <1>5
<1> HIDE DEF n
<1>10. n.bindAddr = s.bindAddr
  BY <1>2, <1>7 DEF Modern
<1>11. CustomOn(n) = CustomOn(s)
  <2>1. MigratedCertificate(s, L) = s.customCertificate
    BY <1>4, <1>5, CustomIs DEF MigratedCertificate, Certificates
  <2>2. s.customCertificate \in Certificates
    BY <1>5, CustomIs
  <2>3. /\ n.customCertificate = Absent <=> s.customCertificate = Absent
        /\ s.customCertificate # Absent =>
              n.customCertificate.enabled = s.customCertificate.enabled
    BY <1>8, <2>1, <2>2, NormalCertificateIs
  <2> QED
    BY <2>3 DEF CustomOn
<1>12. IsHttpRoutingOn(n) = IsHttpRoutingOn(s)
  <2>1. \A x \in Service : IsHttpRoutingOn(x) \in BOOLEAN
    BY DEF IsHttpRoutingOn, HasHttpRoute, Service
  <2> QED
    BY <1>5, <1>6, <1>8, <2>1
<1>13. ServiceShown(draft', j) = [routing |-> IsHttpRoutingOn(t), hosts |-> ServiceHttpHosts(t),
                                  bind |-> t.bindAddr, custom |-> CustomOn(t)]
  BY DEF ServiceShown, t
<1>14. ServiceShown(draft, j) = [routing |-> IsHttpRoutingOn(s), hosts |-> ServiceHttpHosts(s),
                                 bind |-> s.bindAddr, custom |-> CustomOn(s)]
  BY DEF ServiceShown, s
<1> QED
  BY <1>6, <1>9, <1>10, <1>11, <1>12, <1>13, <1>14

(***************************************************************************)
(* An edit that retypes a service leaves what the panel shows of every     *)
(* other service as it was, also where it normalises the whole draft.      *)
(***************************************************************************)
THEOREM RetypingIsLocal == EditorSpec => OthersStay
<1> DEFINE Local == Retypes =>
              \E i \in DOMAIN draft.services : \A j \in DOMAIN draft.services \ {i} :
                  ServiceShown(draft', j) = ServiceShown(draft, j)
<1>1. ASSUME EditorInv, Retypes
      PROVE  \E i \in DOMAIN draft.services : \A j \in DOMAIN draft.services \ {i} :
                  ServiceShown(draft', j) = ServiceShown(draft, j)
  <2>1. PICK i \in DOMAIN draft.services : UpdateServiceType(i)
    BY <1>1 DEF Retypes
  <2>2. PICK type \in {"tcp", "udp"} : draft' = RetypedConfig(i, type)
    BY <2>1 DEF UpdateServiceType, SetConfig
  <2>3. Draft(draft)
    BY <1>1 DEF EditorInv
  <2>4. \A j \in DOMAIN draft.services \ {i} : ServiceShown(draft', j) = ServiceShown(draft, j)
    BY <2>2, <2>3, RetypingKeepsOthers
  <2> QED
    BY <2>4
<1>2. EditorInv => Local
  BY <1>1
<1> HIDE DEF Local
<1>3. EditorSpec => [][Local]_editorVars
  BY <1>2, AlwaysEditorInv, PTL
<1> QED
  BY <1>3 DEF OthersStay, Local
=============================================================================
