---------------------------- MODULE LiveLogsProofs --------------------------
(***************************************************************************)
(* Proofs about LiveLogs, for any instances, windows of any size and       *)
(* without the bounds.                                                     *)
(*                                                                         *)
(* Both properties speak of a socket with nothing on its way.  What they   *)
(* say has to be prepared while frames are: the frames on their way to the *)
(* hub end with the browser following its log and no other (UpSettles),    *)
(* and what the browser has, with the lines on their way to it, ends with  *)
(* what the hub keeps of the log (DownCatchesUp).                          *)
(***************************************************************************)
EXTENDS LiveLogs, SequenceTheorems, TLAPS

Frame == [subscribe : BOOLEAN, node : Nodes]

\* The types as sets of sequences.
LogTypes ==
  /\ SocketTypeOK
  /\ printed \in Nat
  /\ buffer \in [Nodes -> Seq(1..printed)]
  /\ \A n \in Nodes : Len(buffer[n]) <= LOG_BUFFER_LIMIT
  /\ followed \in SUBSET Nodes
  /\ down \in Seq(Lines) /\ up \in Seq(Frame)
  /\ logSub \in Nodes \cup {None}
  /\ logs \in Seq(Lines) /\ Len(logs) <= LOG_VIEW_LIMIT

\* A socket that is not open at both ends carries nothing up, and a browser
\* without one has nothing to read and follows nothing.
SocketInv ==
  /\ ~accepted => up = <<>> /\ followed = {}
  /\ conn # "open" => up = <<>> /\ down = <<>> /\ followed = {}
  /\ conn = "closed" => ~accepted

\* The hub will send the log of n once it has read the frames q.
WillFollow(f, q, n) ==
  \/ n \in f /\ \A k \in 1..Len(q) : q[k].node # n
  \/ \E k \in 1..Len(q) : /\ q[k].node = n /\ q[k].subscribe
                          /\ \A j \in (k+1)..Len(q) : q[j].node # n

Connected == conn = "open" /\ accepted

UpSettles == Connected => \A n \in Nodes : WillFollow(followed, up, n) <=> n = logSub

\* The lines s end with the buffer b of n.
EndsWith(s, n, b) ==
  /\ Len(b) <= Len(s)
  /\ \A k \in 1..Len(b) : s[Len(s) - Len(b) + k] = LogMessage(n, b[k])

\* What the hub reads last is that the browser follows its log.
SubscribesLast ==
  Connected /\ logSub # None /\ up # <<>> => up[Len(up)] = Subscribe(logSub)

DownCatchesUp ==
  Connected /\ logSub # None /\ up = <<>> => EndsWith(logs \o down, logSub, buffer[logSub])

IInv == LogTypes /\ SocketInv /\ UpSettles /\ SubscribesLast /\ DownCatchesUp

USE FaultsAssumption, NoneAssumption, LimitsAssumption

(***************************************************************************)
(* The frames on their way to the hub.                                     *)
(***************************************************************************)
\* A frame sent last decides of its instance.
LEMMA FollowAppend ==
  ASSUME NEW q \in Seq(Frame), NEW m \in Frame, NEW f, NEW n
  PROVE  WillFollow(f, Append(q, m), n)
           <=> IF m.node = n THEN m.subscribe ELSE WillFollow(f, q, n)
<1> DEFINE p == Append(q, m)
<1>1. /\ Len(q) \in Nat /\ Len(p) = Len(q) + 1 /\ p[Len(p)] = m /\ Len(p) \in 1..Len(p)
      /\ \A k \in 1..Len(q) : k \in 1..Len(p) /\ p[k] = q[k]
      /\ \A k \in 1..Len(p) : k = Len(p) \/ k \in 1..Len(q)
      /\ \A k \in 1..Len(q) : Len(p) \in (k+1)..Len(p)
      /\ (Len(p)+1)..Len(p) = {}
      /\ \A k \in 1..Len(q) : \A j \in (k+1)..Len(p) : j = Len(p) \/ j \in (k+1)..Len(q)
      /\ \A k \in 1..Len(q) : \A j \in (k+1)..Len(q) : j \in (k+1)..Len(p) /\ p[j] = q[j]
  OBVIOUS
<1>2. CASE m.node = n
  <2>1. m.subscribe => WillFollow(f, p, n)
    BY <1>1, <1>2 DEF WillFollow
  <2>2. WillFollow(f, p, n) => m.subscribe
    BY <1>1, <1>2 DEF WillFollow
  <2> QED
    BY <1>2, <2>1, <2>2
<1>3. CASE m.node # n
  <2>1. WillFollow(f, q, n) => WillFollow(f, p, n)
    BY <1>1, <1>3 DEF WillFollow
  <2>2. WillFollow(f, p, n) => WillFollow(f, q, n)
    BY <1>1, <1>3 DEF WillFollow
  <2> QED
    BY <1>3, <2>1, <2>2
<1> QED
  BY <1>2, <1>3

\* The two frames a browser sends.
LEMMA FollowChange ==
  ASSUME NEW q \in Seq(Frame), NEW x \in Nodes, NEW f, NEW n
  PROVE  /\ WillFollow(f, Append(q, Subscribe(x)), n) <=> n = x \/ WillFollow(f, q, n)
         /\ WillFollow(f, Append(q, Unsubscribe(x)), n) <=> n # x /\ WillFollow(f, q, n)
<1>1. /\ Subscribe(x) \in Frame /\ Subscribe(x).subscribe /\ Subscribe(x).node = x
      /\ Unsubscribe(x) \in Frame /\ ~Unsubscribe(x).subscribe /\ Unsubscribe(x).node = x
  BY DEF Subscribe, Unsubscribe, Frame
<1>2. /\ WillFollow(f, Append(q, Subscribe(x)), n)
           <=> IF Subscribe(x).node = n THEN Subscribe(x).subscribe ELSE WillFollow(f, q, n)
      /\ WillFollow(f, Append(q, Unsubscribe(x)), n)
           <=> IF Unsubscribe(x).node = n THEN Unsubscribe(x).subscribe ELSE WillFollow(f, q, n)
  BY <1>1, FollowAppend
<1> QED
  BY <1>1, <1>2

\* Reading a frame carries it out.
LEMMA FollowTail ==
  ASSUME NEW q \in Seq(Frame), q # <<>>, NEW f, NEW n
  PROVE  WillFollow(IF Head(q).subscribe THEN f \cup {Head(q).node} ELSE f \ {Head(q).node},
                    Tail(q), n)
           <=> WillFollow(f, q, n)
<1> DEFINE m == Head(q)
           p == Tail(q)
           g == IF m.subscribe THEN f \cup {m.node} ELSE f \ {m.node}
<1>1. /\ Len(q) \in Nat \ {0} /\ Len(p) = Len(q) - 1 /\ m = q[1] /\ 1 \in 1..Len(q)
      /\ \A k \in 1..Len(p) : k+1 \in 1..Len(q) /\ p[k] = q[k+1]
      /\ \A k \in 1..Len(q) : k = 1 \/ (k-1 \in 1..Len(p) /\ p[k-1] = q[k])
  OBVIOUS
<1>2. /\ \A k \in 1..Len(p) : \A j \in (k+1)..Len(p) : j+1 \in ((k+1)+1)..Len(q) /\ q[j+1] = p[j]
      /\ \A k \in 2..Len(q) : \A j \in (k+1)..Len(q) : j-1 \in ((k-1)+1)..Len(p) /\ p[j-1] = q[j]
      /\ \A k \in 1..Len(p) : k+1 \in (1+1)..Len(q)
      /\ \A k \in (1+1)..Len(q) : k-1 \in 1..Len(p) /\ p[k-1] = q[k]
  BY <1>1
<1> HIDE DEF p, m
<1>3. WillFollow(f, q, n) => WillFollow(g, p, n)
  <2>1. CASE n \in f /\ \A k \in 1..Len(q) : q[k].node # n
    BY <1>1, <2>1 DEF WillFollow
  <2>2. ASSUME NEW k \in 1..Len(q), q[k].node = n, q[k].subscribe,
               \A j \in (k+1)..Len(q) : q[j].node # n
        PROVE  WillFollow(g, p, n)
    <3>1. CASE k = 1
      BY <1>1, <1>2, <2>2, <3>1 DEF WillFollow
    <3>2. CASE k # 1
      <4>1. k - 1 \in 1..Len(p) /\ p[k-1] = q[k]
        BY <1>1, <3>2
      <4>2. \A j \in ((k-1)+1)..Len(p) : j+1 \in (k+1)..Len(q) /\ q[j+1] = p[j]
        BY <1>1, <1>2, <4>1
      <4> QED
        BY <2>2, <4>1, <4>2 DEF WillFollow
    <3> QED
      BY <3>1, <3>2
  <2> QED
    BY <2>1, <2>2 DEF WillFollow
<1>4. WillFollow(g, p, n) => WillFollow(f, q, n)
  <2>1. CASE n \in g /\ \A k \in 1..Len(p) : p[k].node # n
    <3>1. \A k \in (1+1)..Len(q) : q[k].node # n
      BY <1>2, <2>1
    <3>2. CASE m.node = n
      BY <1>1, <2>1, <3>1, <3>2 DEF WillFollow
    <3>3. CASE m.node # n
      <4>1. \A k \in 1..Len(q) : q[k].node # n
        BY <1>1, <2>1, <3>3
      <4> QED
        BY <2>1, <3>3, <4>1 DEF WillFollow
    <3> QED
      BY <3>2, <3>3
  <2>2. ASSUME NEW k \in 1..Len(p), p[k].node = n, p[k].subscribe,
               \A j \in (k+1)..Len(p) : p[j].node # n
        PROVE  WillFollow(f, q, n)
    <3>1. \A j \in ((k+1)+1)..Len(q) : j-1 \in (k+1)..Len(p) /\ p[j-1] = q[j]
      BY <1>1, <1>2
    <3>2. k+1 \in 1..Len(q) /\ q[k+1] = p[k]
      BY <1>1
    <3>3. \A j \in ((k+1)+1)..Len(q) : q[j].node # n
      BY <2>2, <3>1
    <3> QED
      BY <2>2, <3>2, <3>3 DEF WillFollow
  <2> QED
    BY <2>1, <2>2 DEF WillFollow
<1> QED
  BY <1>3, <1>4 DEF m, p

(***************************************************************************)
(* The lines on their way to the browser.                                  *)
(***************************************************************************)
\* A replay makes the lines end with the buffer, whatever came before.
LEMMA ReplayCatchesUp ==
  ASSUME NEW S, NEW s \in Seq(S), NEW n, NEW T, NEW b \in Seq(T),
         NEW r \in Seq(S), r = [k \in DOMAIN b |-> LogMessage(n, b[k])]
  PROVE  EndsWith(s \o r, n, b)
<1>1. Len(b) \in Nat /\ Len(s) \in Nat /\ DOMAIN b = 1..Len(b)
  OBVIOUS
<1>2. Len(r) = Len(b)
  BY <1>1
<1>3. Len(s \o r) = Len(s) + Len(b)
  BY <1>1, <1>2
<1>4. \A k \in 1..Len(b) : (s \o r)[Len(s) + k] = r[k]
  BY <1>1, <1>2
<1>5. Len(s \o r) - Len(b) = Len(s)
  BY <1>1, <1>3
<1> QED
  BY <1>1, <1>2, <1>3, <1>4, <1>5 DEF EndsWith

\* A window keeps the end of what it is given.
LEMMA LastLinesIs ==
  ASSUME NEW S, NEW s \in Seq(S), NEW limit \in Nat
  PROVE  /\ LastLines(s, limit) \in Seq(S)
         /\ Len(LastLines(s, limit)) = IF Len(s) > limit THEN limit ELSE Len(s)
         /\ \A k \in 1..Len(LastLines(s, limit)) :
               LastLines(s, limit)[k] = s[Len(s) - Len(LastLines(s, limit)) + k]
<1>1. Len(s) \in Nat
  OBVIOUS
<1>2. CASE Len(s) > limit
  <2> DEFINE w == SubSeq(s, Len(s) - limit + 1, Len(s))
  <2>1. Len(s) - limit + 1 \in 1..Len(s)+1 /\ Len(s) \in 0..Len(s)
    BY <1>1, <1>2
  <2>2. /\ w \in Seq(S)
        /\ Len(w) = Len(s) - (Len(s) - limit + 1) + 1
        /\ \A k \in 1..Len(w) : w[k] = s[(Len(s) - limit + 1) + k - 1]
    BY <1>1, <1>2, SubSeqProperties
  <2>3. Len(w) = limit
    BY <1>1, <2>2
  <2>4. \A k \in 1..Len(w) : (Len(s) - limit + 1) + k - 1 = Len(s) - Len(w) + k
    BY <1>1, <2>3
  <2>5. LastLines(s, limit) = w
    BY <1>2 DEF LastLines
  <2> QED
    BY <1>2, <2>2, <2>3, <2>4, <2>5
<1>3. CASE ~(Len(s) > limit)
  <2>1. LastLines(s, limit) = s
    BY <1>3 DEF LastLines
  <2>2. \A k \in 1..Len(s) : Len(s) - Len(s) + k = k
    BY <1>1
  <2> QED
    BY <1>3, <2>1, <2>2
<1> QED
  BY <1>2, <1>3

\* What is left in it has its type and its limit.
LEMMA LastLinesType ==
  ASSUME NEW S, NEW s \in Seq(S), NEW limit \in Nat
  PROVE  LastLines(s, limit) \in Seq(S) /\ Len(LastLines(s, limit)) <= limit
<1>1. /\ LastLines(s, limit) \in Seq(S)
      /\ Len(LastLines(s, limit)) = IF Len(s) > limit THEN limit ELSE Len(s)
  BY LastLinesIs
<1>2. Len(s) \in Nat
  OBVIOUS
<1> QED
  BY <1>1, <1>2

\* A line that is buffered and sent keeps them ending alike.
LEMMA PushCatchesUp ==
  ASSUME NEW S, NEW s \in Seq(S), NEW n, NEW T, NEW b \in Seq(T), NEW line \in T,
         NEW limit \in Nat, EndsWith(s, n, b), LogMessage(n, line) \in S
  PROVE  EndsWith(Append(s, LogMessage(n, line)), n, LastLines(Append(b, line), limit))
<1> DEFINE t == Append(s, LogMessage(n, line))
           a == Append(b, line)
           w == LastLines(a, limit)
<1>1. /\ Len(s) \in Nat /\ Len(b) \in Nat /\ Len(t) = Len(s) + 1 /\ Len(a) = Len(b) + 1
      /\ t[Len(t)] = LogMessage(n, line) /\ a[Len(a)] = line
      /\ \A k \in 1..Len(s) : t[k] = s[k]
      /\ \A k \in 1..Len(b) : a[k] = b[k]
      /\ a \in Seq(T)
  OBVIOUS
<1>2. /\ Len(w) \in Nat /\ Len(w) <= Len(a)
      /\ \A k \in 1..Len(w) : w[k] = a[Len(a) - Len(w) + k]
  <2>1. a \in Seq(T)
    BY <1>1
  <2> HIDE DEF a
  <2>2. w \in Seq(T) /\ Len(w) = IF Len(a) > limit THEN limit ELSE Len(a)
    BY <2>1, LastLinesIs
  <2>3. \A k \in 1..Len(w) : w[k] = a[Len(a) - Len(w) + k]
    BY <2>1, LastLinesIs
  <2> HIDE DEF w
  <2>4. Len(a) \in Nat /\ Len(w) \in Nat
    BY <2>1, <2>2
  <2>5. Len(w) <= Len(a) /\ (Len(w) = limit \/ Len(w) = Len(a))
    BY <2>2, <2>4
  <2> QED
    BY <2>2, <2>3, <2>4, <2>5
<1> HIDE DEF t, a, w
<1>3. Len(w) <= Len(t)
  BY <1>1, <1>2 DEF EndsWith
<1>4. ASSUME NEW k \in 1..Len(w)
      PROVE  t[Len(t) - Len(w) + k] = LogMessage(n, w[k])
  <2> DEFINE j == Len(a) - Len(w) + k
  <2>1. j \in 1..Len(a) /\ w[k] = a[j]
    BY <1>1, <1>2
  <2>2. Len(t) - Len(w) + k = Len(s) - Len(b) + j
    BY <1>1, <1>2
  <2> HIDE DEF j
  <2>3. CASE j = Len(a)
    BY <1>1, <1>2, <2>1, <2>2, <2>3
  <2>4. CASE j # Len(a)
    <3>1. j \in 1..Len(b)
      BY <1>1, <2>1, <2>4
    <3>2. s[Len(s) - Len(b) + j] = LogMessage(n, b[j])
      BY <3>1 DEF EndsWith
    <3>3. Len(s) - Len(b) + j \in 1..Len(s)
      BY <1>1, <3>1 DEF EndsWith
    <3> QED
      BY <1>1, <2>1, <2>2, <3>1, <3>2, <3>3
  <2> QED
    BY <2>3, <2>4
<1> QED
  BY <1>3, <1>4 DEF EndsWith, t, a, w

\* The browser reads a line: what it forgets is older than a whole buffer.
LEMMA ReadCatchesUp ==
  ASSUME NEW s \in Seq(Lines), NEW d \in Seq(Lines), d # <<>>,
         NEW n, NEW T, NEW b \in Seq(T), NEW limit \in Nat, Len(b) <= limit,
         EndsWith(s \o d, n, b)
  PROVE  EndsWith(LastLines(Append(s, Head(d)), limit) \o Tail(d), n, b)
<1> DEFINE a == Append(s, Head(d))
           w == LastLines(a, limit)
           t == s \o d
           u == w \o Tail(d)
<1>1. /\ Len(s) \in Nat /\ Len(d) \in Nat \ {0} /\ Len(b) \in Nat
      /\ Head(d) \in Lines /\ Head(d) = d[1]
      /\ Tail(d) \in Seq(Lines) /\ Len(Tail(d)) = Len(d) - 1
      /\ \A k \in 1..Len(Tail(d)) : Tail(d)[k] = d[k+1]
  BY HeadTailProperties
<1>2. /\ a \in Seq(Lines) /\ Len(a) = Len(s) + 1
      /\ \A k \in 1..Len(a) : a[k] = IF k = Len(a) THEN d[1] ELSE s[k]
  BY <1>1
<1>3. /\ w \in Seq(Lines) /\ Len(w) \in Nat /\ Len(w) <= Len(a)
      /\ Len(w) = limit \/ Len(w) = Len(a)
      /\ \A k \in 1..Len(w) : w[k] = a[Len(a) - Len(w) + k]
  <2>1. a \in Seq(Lines)
    BY <1>2
  <2> HIDE DEF a
  <2>2. w \in Seq(Lines) /\ Len(w) = IF Len(a) > limit THEN limit ELSE Len(a)
    BY <2>1, LastLinesIs
  <2>3. \A k \in 1..Len(w) : w[k] = a[Len(a) - Len(w) + k]
    BY <2>1, LastLinesIs
  <2> HIDE DEF w
  <2>4. Len(a) \in Nat /\ Len(w) \in Nat
    BY <2>1, <2>2
  <2>5. Len(w) <= Len(a) /\ (Len(w) = limit \/ Len(w) = Len(a))
    BY <2>2, <2>4
  <2> QED
    BY <2>2, <2>3, <2>4, <2>5
<1>4. /\ Len(t) = Len(s) + Len(d)
      /\ \A k \in 1..Len(t) : t[k] = IF k <= Len(s) THEN s[k] ELSE d[k - Len(s)]
  OBVIOUS
<1> HIDE DEF w
<1>5. /\ Len(u) = Len(w) + Len(Tail(d))
      /\ \A k \in 1..Len(u) : u[k] = IF k <= Len(w) THEN w[k] ELSE Tail(d)[k - Len(w)]
  BY <1>1, <1>3
<1>9. \A p \in 1..Len(a) : p \in 1..Len(t) /\ t[p] = a[p]
  BY <1>1, <1>2, <1>4
<1> HIDE DEF a, t, u
<1>6. Len(b) <= Len(u)
  BY <1>1, <1>2, <1>3, <1>4, <1>5 DEF EndsWith, t
<1>7. ASSUME NEW k \in 1..Len(u)
      PROVE  u[k] = t[Len(t) - Len(u) + k]
  <2>1. Len(t) - Len(u) = Len(a) - Len(w)
    BY <1>1, <1>2, <1>3, <1>4, <1>5
  <2>2. CASE k <= Len(w)
    <3>1. u[k] = a[Len(a) - Len(w) + k] /\ Len(a) - Len(w) + k \in 1..Len(a)
      BY <1>2, <1>3, <1>5, <2>2
    <3> QED
      BY <1>9, <2>1, <3>1
  <2>3. CASE ~(k <= Len(w))
    <3>1. k - Len(w) \in 1..Len(Tail(d))
      BY <1>1, <1>3, <1>5, <2>3
    <3>2. u[k] = d[(k - Len(w)) + 1]
      BY <1>1, <1>5, <2>3, <3>1
    <3> DEFINE e == (k - Len(w)) + 1
    <3>3. Len(t) - Len(u) + k = Len(s) + e
      BY <1>1, <1>2, <1>3, <1>4, <1>5, <2>1
    <3>4. e \in Nat \ {0} /\ Len(s) + e \in 1..Len(t)
      BY <1>1, <1>4, <3>1
    <3> HIDE DEF e
    <3>5. t[Len(s) + e] = d[e]
      BY <1>1, <1>4, <3>4
    <3> QED
      BY <3>2, <3>3, <3>5 DEF e
  <2> QED
    BY <2>2, <2>3
<1>8. ASSUME NEW k \in 1..Len(b)
      PROVE  u[Len(u) - Len(b) + k] = LogMessage(n, b[k])
  <2>1. Len(u) - Len(b) + k \in 1..Len(u)
    BY <1>1, <1>3, <1>5, <1>6
  <2>2. Len(t) - Len(u) + (Len(u) - Len(b) + k) = Len(t) - Len(b) + k
    BY <1>1, <1>3, <1>4, <1>5
  <2> QED
    BY <1>7, <2>1, <2>2 DEF EndsWith, t
<1> QED
  BY <1>6, <1>8 DEF EndsWith, u, w, a

(***************************************************************************)
(* Every action keeps the invariant.                                       *)
(***************************************************************************)
\* What the log tab sends are frames, and so is every line of a replay a line.
LEMMA FramesAreFrames ==
  \A n \in Nodes : Subscribe(n) \in Frame /\ Unsubscribe(n) \in Frame
BY DEF Subscribe, Unsubscribe, Frame

\* Frames sent together are frames sent one after the other.
LEMMA AppendFrames ==
  ASSUME NEW q \in Seq(Frame), NEW a \in Frame, NEW b \in Frame
  PROVE  q \o <<a>> = Append(q, a) /\ q \o <<a, b>> = Append(Append(q, a), b)
OBVIOUS

\* Reading the only frame reads the last.
LEMMA LastFrame ==
  ASSUME NEW q \in Seq(Frame), q # <<>>, Tail(q) = <<>>
  PROVE  Head(q) = q[Len(q)]
<1>1. Len(q) \in Nat \ {0} /\ Len(Tail(q)) = Len(q) - 1 /\ Head(q) = q[1]
  BY HeadTailProperties
<1>2. Len(<<>>) = 0
  OBVIOUS
<1>3. Len(Tail(q)) = 0
  BY <1>2, Zenon
<1>4. Len(q) = 1
  BY <1>1, <1>3
<1> QED
  BY <1>1, <1>4

LEMMA ReplayType ==
  ASSUME NEW n \in Nodes, buffer[n] \in Seq(1..printed)
  PROVE  Replay(n) \in Seq(Lines)
<1> DEFINE b == buffer[n]
           S == 1..printed
<1>1. b \in Seq(S)
  OBVIOUS
<1> HIDE DEF b, S
<1>2. Len(b) \in Nat /\ DOMAIN b = 1..Len(b) /\ \A k \in DOMAIN b : b[k] \in S
  BY <1>1
<1>3. \A k \in DOMAIN b : LogMessage(n, b[k]) \in Lines
  BY <1>2 DEF Lines, LogMessage, S
<1>4. Replay(n) = [k \in 1..Len(b) |-> LogMessage(n, b[k])]
  BY <1>2 DEF Replay, b
<1> QED
  BY <1>2, <1>3, <1>4

\* A page that has just been opened.
LEMMA InitIInv == Init => IInv
<1> SUFFICES ASSUME Init PROVE IInv
  OBVIOUS
<1> USE DEF Init, SocketInit
<1>1. LogTypes
  <2>1. \A S : <<>> \in Seq(S)
    OBVIOUS
  <2>2. buffer \in [Nodes -> Seq(1..printed)] /\ \A n \in Nodes : buffer[n] = <<>>
    BY <2>1
  <2>3. Len(<<>>) = 0 /\ 0 <= LOG_BUFFER_LIMIT /\ 0 <= LOG_VIEW_LIMIT
    OBVIOUS
  <2>4. SocketTypeOK
    <3>1. 0 \in 0..MaxFaults
      OBVIOUS
    <3> QED
      BY <3>1 DEF SocketTypeOK
  <2> QED
    BY <2>1, <2>2, <2>3, <2>4 DEF LogTypes
<1>2. SocketInv /\ UpSettles /\ SubscribesLast /\ DownCatchesUp
  BY DEF SocketInv, UpSettles, SubscribesLast, DownCatchesUp, Connected
<1> QED
  BY <1>1, <1>2 DEF IInv

LEMMA PushLogKeeps ==
  ASSUME IInv, NEW x \in Nodes, PushLog(x)
  PROVE  IInv'
<1> USE DEF PushLog, Broadcast, logVars
<1>1. LogTypes /\ SocketInv /\ UpSettles /\ SubscribesLast /\ DownCatchesUp
  BY DEF IInv
<1>2. printed \in Nat /\ printed' = printed + 1 /\ 1..printed \subseteq 1..printed'
      /\ printed' \in 1..printed'
  BY <1>1 DEF LogTypes
<1>3. \A n \in Nodes : buffer[n] \in Seq(1..printed')
  BY <1>1, <1>2 DEF LogTypes
<1>4. /\ buffer'[x] = LastLines(Append(buffer[x], printed'), LOG_BUFFER_LIMIT)
      /\ \A n \in Nodes \ {x} : buffer'[n] = buffer[n]
      /\ buffer' = [buffer EXCEPT ![x] = buffer'[x]]
  BY <1>1 DEF LogTypes
<1>5. Append(buffer[x], printed') \in Seq(1..printed')
  BY <1>2, <1>3
<1>6. buffer'[x] \in Seq(1..printed') /\ Len(buffer'[x]) <= LOG_BUFFER_LIMIT
  <2>1. LOG_BUFFER_LIMIT \in Nat
    OBVIOUS
  <2> DEFINE w == LastLines(Append(buffer[x], printed'), LOG_BUFFER_LIMIT)
  <2>2. w \in Seq(1..printed') /\ Len(w) <= LOG_BUFFER_LIMIT
    BY <1>5, <2>1, LastLinesType
  <2> QED
    BY <1>4, <2>2
<1>7. Lines \subseteq Lines' /\ LogMessage(x, printed') \in Lines'
  BY <1>2 DEF Lines, LogMessage
<1>8. down \in Seq(Lines') /\ logs \in Seq(Lines')
  BY <1>1, <1>7 DEF LogTypes
<1>9. down' \in Seq(Lines')
  BY <1>7, <1>8
<1>10. LogTypes'
  BY <1>1, <1>2, <1>3, <1>4, <1>6, <1>8, <1>9 DEF LogTypes, SocketTypeOK
<1>11. SocketInv'
  BY <1>1 DEF SocketInv
<1>12. UpSettles' /\ SubscribesLast'
  BY <1>1 DEF UpSettles, SubscribesLast, Connected
<1>13. DownCatchesUp'
  <2> SUFFICES ASSUME Connected, logSub # None, up = <<>>
               PROVE  EndsWith(logs \o down', logSub, buffer'[logSub])
    BY DEF DownCatchesUp, Connected
  <2>1. EndsWith(logs \o down, logSub, buffer[logSub]) /\ logSub \in Nodes
    BY <1>1 DEF DownCatchesUp, LogTypes
  <2>2. \A n \in Nodes : n \in followed <=> n = logSub
    BY <1>1 DEF UpSettles, WillFollow
  <2>3. CASE x = logSub
    <3>1. down' = Append(down, LogMessage(x, printed'))
      BY <2>2, <2>3 DEF Connected
    <3>2. logs \o down' = Append(logs \o down, LogMessage(x, printed'))
      BY <1>7, <1>8, <3>1
    <3> QED
      <4>1. /\ logs \o down \in Seq(Lines') /\ LogMessage(logSub, printed') \in Lines'
            /\ buffer[logSub] \in Seq(1..printed') /\ printed' \in 1..printed'
            /\ LOG_BUFFER_LIMIT \in Nat
        BY <1>2, <1>3, <1>7, <1>8, <2>1, <2>3
      <4>2. EndsWith(Append(logs \o down, LogMessage(logSub, printed')), logSub,
                     LastLines(Append(buffer[logSub], printed'), LOG_BUFFER_LIMIT))
        BY <2>1, <4>1, PushCatchesUp
      <4> QED
        BY <1>4, <2>3, <3>2, <4>2
  <2>4. CASE x # logSub
    BY <1>4, <2>1, <2>2, <2>4
  <2> QED
    BY <2>3, <2>4
<1> QED
  BY <1>10, <1>11, <1>12, <1>13 DEF IInv

LEMMA HubReceiveKeeps ==
  ASSUME IInv, HubReceive
  PROVE  IInv'
<1> USE DEF HubReceive, HandleBrowserMessage, logVars
<1>1. LogTypes /\ SocketInv /\ UpSettles /\ SubscribesLast /\ DownCatchesUp
  BY DEF IInv
<1> DEFINE m == Head(up)
<1>2. /\ up \in Seq(Frame) /\ up # <<>> /\ up' = Tail(up)
      /\ m \in Frame /\ Tail(up) \in Seq(Frame)
  BY <1>1, HeadTailProperties DEF LogTypes
<1>3. m.node \in Nodes /\ m.subscribe \in BOOLEAN
  BY <1>2 DEF Frame
<1>4. Lines' = Lines
  BY DEF Lines
<1>5. buffer[m.node] \in Seq(1..printed) /\ Replay(m.node) \in Seq(Lines)
  <2>1. buffer[m.node] \in Seq(1..printed)
    BY <1>1, <1>3 DEF LogTypes
  <2> QED
    BY <1>3, <2>1, ReplayType
<1>6. down' \in Seq(Lines)
  <2>1. down' = IF m.subscribe THEN down \o Replay(m.node) ELSE down
    OBVIOUS
  <2>2. down \in Seq(Lines)
    BY <1>1 DEF LogTypes
  <2> QED
    BY <1>5, <2>1, <2>2
<1>7. followed' = IF m.subscribe THEN followed \cup {m.node} ELSE followed \ {m.node}
  OBVIOUS
<1>8. LogTypes'
  BY <1>1, <1>2, <1>3, <1>4, <1>6, <1>7 DEF LogTypes, SocketTypeOK
<1>9. SocketInv'
  BY <1>1 DEF SocketInv
<1>10. UpSettles'
  <2>1. \A n : WillFollow(IF m.subscribe THEN followed \cup {m.node} ELSE followed \ {m.node},
                          Tail(up), n)
                 <=> WillFollow(followed, up, n)
    BY <1>2, FollowTail
  <2>2. \A n : WillFollow(followed', up', n) <=> WillFollow(followed, up, n)
    BY <1>2, <1>7, <2>1
  <2> QED
    BY <1>1, <2>2 DEF UpSettles, Connected
<1>11. SubscribesLast'
  <2>1. up' # <<>> => up'[Len(up')] = up[Len(up)]
    BY <1>2
  <2> QED
    BY <1>1, <2>1 DEF SubscribesLast, Connected
<1>12. DownCatchesUp'
  <2> SUFFICES ASSUME Connected, logSub # None, up' = <<>>
               PROVE  EndsWith(logs \o down', logSub, buffer[logSub])
    BY DEF DownCatchesUp, Connected
  <2>1. m = up[Len(up)]
    BY <1>2, LastFrame
  <2>2. m = Subscribe(logSub)
    BY <1>1, <2>1 DEF SubscribesLast
  <2>3. m.subscribe /\ m.node = logSub
    BY <2>2 DEF Subscribe
  <2>4. logs \o down' = (logs \o down) \o Replay(logSub)
    <3>1. down' = down \o Replay(logSub)
      BY <2>3
    <3>2. down \in Seq(Lines) /\ logs \in Seq(Lines) /\ Replay(logSub) \in Seq(Lines)
      BY <1>1, <1>5, <2>3 DEF LogTypes
    <3> QED
      BY <3>1, <3>2, ConcatAssociative
  <2>5. logs \o down \in Seq(Lines)
    BY <1>1 DEF LogTypes
  <2> QED
    BY <1>5, <2>3, <2>4, <2>5, ReplayCatchesUp DEF Replay
<1> QED
  BY <1>8, <1>9, <1>10, <1>11, <1>12 DEF IInv

LEMMA HibernateKeeps ==
  ASSUME IInv, Hibernate
  PROVE  IInv'
<1> USE DEF Hibernate, Fault, logVars, wireVars
<1>1. LogTypes /\ SocketInv /\ UpSettles /\ SubscribesLast /\ DownCatchesUp
  BY DEF IInv
<1>2. Lines' = Lines /\ \A n \in Nodes : buffer'[n] = <<>>
  BY DEF Lines
<1>3. LogTypes'
  BY <1>1, <1>2 DEF LogTypes, SocketTypeOK
<1>4. SocketInv' /\ UpSettles' /\ SubscribesLast'
  BY <1>1 DEF SocketInv, UpSettles, SubscribesLast, Connected
<1>5. DownCatchesUp'
  <2>1. \A n \in Nodes : EndsWith(logs \o down, n, <<>>)
    BY <1>1 DEF EndsWith, LogTypes
  <2> QED
    BY <1>1, <1>2, <2>1 DEF DownCatchesUp, Connected, LogTypes
<1> QED
  BY <1>3, <1>4, <1>5 DEF IInv

LEMMA AcceptKeeps ==
  ASSUME IInv, Accept
  PROVE  IInv'
<1> USE DEF Accept, AcceptBrowser, logVars
<1>1. LogTypes /\ SocketInv /\ UpSettles /\ SubscribesLast /\ DownCatchesUp
  BY DEF IInv
<1>2. LogTypes'
  BY <1>1 DEF LogTypes, SocketTypeOK, Lines
<1>3. SocketInv'
  BY <1>1 DEF SocketInv
<1>4. ~Connected'
  BY DEF Connected
<1> QED
  BY <1>2, <1>3, <1>4 DEF IInv, UpSettles, SubscribesLast, DownCatchesUp

LEMMA OnOpenKeeps ==
  ASSUME IInv, OnOpen
  PROVE  IInv'
<1> USE DEF OnOpen, Opened, logVars, hubVars
<1>1. LogTypes /\ SocketInv /\ UpSettles /\ SubscribesLast /\ DownCatchesUp
  BY DEF IInv
<1> DEFINE frames == IF logSub = None THEN <<>> ELSE <<Subscribe(logSub)>>
<1>2. up = <<>> /\ followed = {} /\ frames \in Seq(Frame) /\ up' = frames
  BY <1>1, FramesAreFrames DEF SocketInv, LogTypes
<1>3. LogTypes'
  BY <1>1, <1>2 DEF LogTypes, SocketTypeOK, Lines
<1>4. SocketInv'
  BY <1>1 DEF SocketInv
<1>5. UpSettles'
  <2>1. CASE logSub = None
    BY <1>2, <2>1 DEF UpSettles, WillFollow
  <2>2. CASE logSub # None
    <3>1. up' = Append(<<>>, Subscribe(logSub)) /\ Subscribe(logSub) \in Frame
      BY <1>1, <1>2, <2>2, FramesAreFrames DEF LogTypes
    <3>2. \A n : WillFollow({}, up', n) <=> n = logSub \/ WillFollow({}, <<>>, n)
      <4>1. <<>> \in Seq(Frame) /\ logSub \in Nodes
        BY <1>1, <2>2 DEF LogTypes
      <4>2. \A n : WillFollow({}, Append(<<>>, Subscribe(logSub)), n)
                     <=> n = logSub \/ WillFollow({}, <<>>, n)
        BY <4>1, FollowChange
      <4> QED
        BY <3>1, <4>2
    <3>3. \A n : ~WillFollow({}, <<>>, n)
      BY DEF WillFollow
    <3> QED
      BY <1>2, <3>2, <3>3 DEF UpSettles
  <2> QED
    BY <2>1, <2>2
<1>6. SubscribesLast'
  BY <1>2 DEF SubscribesLast
<1>7. DownCatchesUp'
  BY <1>2 DEF DownCatchesUp
<1> QED
  BY <1>3, <1>4, <1>5, <1>6, <1>7 DEF IInv

LEMMA OnMessageKeeps ==
  ASSUME IInv, OnMessage
  PROVE  IInv'
<1> USE DEF OnMessage, hubVars
<1>1. LogTypes /\ SocketInv /\ UpSettles /\ SubscribesLast /\ DownCatchesUp
  BY DEF IInv
<1>2. /\ down \in Seq(Lines) /\ Head(down) \in Lines /\ Tail(down) \in Seq(Lines)
      /\ logs \in Seq(Lines)
  BY <1>1, HeadTailProperties DEF LogTypes
<1>3. Append(logs, Head(down)) \in Seq(Lines)
  BY <1>2
<1>4. logs' \in Seq(Lines) /\ Len(logs') <= LOG_VIEW_LIMIT
  <2>1. LOG_VIEW_LIMIT \in Nat
    OBVIOUS
  <2> QED
    BY <1>3, <2>1, LastLinesType
<1>5. LogTypes'
  BY <1>1, <1>2, <1>4 DEF LogTypes, SocketTypeOK, Lines
<1>6. SocketInv' /\ UpSettles' /\ SubscribesLast'
  BY <1>1 DEF SocketInv, UpSettles, SubscribesLast, Connected
<1>7. DownCatchesUp'
  <2> SUFFICES ASSUME Connected, logSub # None, up = <<>>
               PROVE  EndsWith(logs' \o down', logSub, buffer[logSub])
    BY DEF DownCatchesUp, Connected
  <2>1. /\ EndsWith(logs \o down, logSub, buffer[logSub])
        /\ buffer[logSub] \in Seq(1..printed) /\ Len(buffer[logSub]) <= LOG_VIEW_LIMIT
    BY <1>1 DEF DownCatchesUp, LogTypes
  <2> QED
    BY <1>2, <2>1, ReadCatchesUp
<1> QED
  BY <1>5, <1>6, <1>7 DEF IInv

LEMMA LoseKeeps ==
  ASSUME IInv, Lose
  PROVE  IInv'
<1> USE DEF Lose, Lost, Fault, logVars
<1>1. LogTypes /\ SocketInv /\ UpSettles /\ SubscribesLast /\ DownCatchesUp
  BY DEF IInv
<1>2. down' \in Seq(Lines)
  <2>1. CASE conn = "open"
    <3>1. PICK n \in 0..Len(down) : down' = SubSeq(down, 1, n)
      BY <2>1
    <3>2. down \in Seq(Lines)
      BY <1>1 DEF LogTypes
    <3> QED
      BY <3>1, <3>2
  <2>2. CASE conn # "open"
    BY <2>2
  <2> QED
    BY <2>1, <2>2
<1>3. conn' \in {"connecting", "open", "closed"} /\ faults' \in 0..MaxFaults
  BY <1>1 DEF LogTypes, SocketTypeOK
<1>6. LogTypes'
  <2>1. up' = <<>> /\ followed' = {} /\ accepted' = FALSE /\ Lines' = Lines
    BY DEF Lines
  <2>2. SocketTypeOK'
    BY <1>3, <2>1 DEF SocketTypeOK
  <2>3. <<>> \in Seq(Frame)
    OBVIOUS
  <2> QED
    BY <1>1, <1>2, <2>1, <2>2, <2>3 DEF LogTypes
<1>4. SocketInv'
  BY <1>1 DEF SocketInv
<1>5. ~Connected'
  BY DEF Connected
<1> QED
  BY <1>4, <1>5, <1>6 DEF IInv, UpSettles, SubscribesLast, DownCatchesUp

LEMMA OnCloseKeeps ==
  ASSUME IInv, OnClose \/ Reconnect
  PROVE  IInv'
<1> USE DEF OnClose, Closed, Reconnect, Retried, logVars, hubVars
<1>1. LogTypes /\ SocketInv /\ UpSettles /\ SubscribesLast /\ DownCatchesUp
  BY DEF IInv
<1>2. LogTypes'
  BY <1>1 DEF LogTypes, SocketTypeOK, Lines
<1>3. SocketInv'
  BY <1>1 DEF SocketInv
<1>4. ~Connected'
  BY DEF Connected
<1> QED
  BY <1>2, <1>3, <1>4 DEF IInv, UpSettles, SubscribesLast, DownCatchesUp

LEMMA SubscribeLogsKeeps ==
  ASSUME IInv, NEW x \in Nodes, SubscribeLogs(x)
  PROVE  IInv'
<1> USE DEF SubscribeLogs, Send, hubVars
<1>1. LogTypes /\ SocketInv /\ UpSettles /\ SubscribesLast /\ DownCatchesUp
  BY DEF IInv
<1>2. up \in Seq(Frame) /\ logSub \in Nodes \cup {None} /\ Subscribe(x) \in Frame
  BY <1>1, FramesAreFrames DEF LogTypes
<1> DEFINE prior == IF logSub = None THEN up ELSE Append(up, Unsubscribe(logSub))
<1>3. prior \in Seq(Frame)
  BY <1>2, FramesAreFrames
<1>4. up' = IF Connected THEN Append(prior, Subscribe(x)) ELSE up
  <2>1. CASE logSub = None
    BY <1>2, <2>1, AppendFrames DEF Connected, Frames
  <2>2. CASE logSub # None
    <3>1. Unsubscribe(logSub) \in Frame
      BY <1>2, <2>2, FramesAreFrames
    <3>2. up \o <<Unsubscribe(logSub), Subscribe(x)>>
            = Append(Append(up, Unsubscribe(logSub)), Subscribe(x))
      BY <1>2, <3>1, AppendFrames
    <3> QED
      BY <2>2, <3>2 DEF Connected, Frames
  <2> QED
    BY <2>1, <2>2
<1>5. up' \in Seq(Frame)
  <2> HIDE DEF prior
  <2>1. Append(prior, Subscribe(x)) \in Seq(Frame)
    BY <1>2, <1>3
  <2> QED
    BY <1>2, <1>4, <2>1
<1>6. LogTypes'
  BY <1>1, <1>5 DEF LogTypes, SocketTypeOK, Lines
<1>7. SocketInv'
  BY <1>1 DEF SocketInv
<1>8. UpSettles'
  <2> SUFFICES ASSUME Connected, NEW n \in Nodes
               PROVE  WillFollow(followed, up', n) <=> n = x
    BY DEF UpSettles, Connected
  <2>1. WillFollow(followed, up, n) <=> n = logSub
    BY <1>1 DEF UpSettles
  <2>2. ~WillFollow(followed, prior, n)
    <3>1. CASE logSub = None
      BY <2>1, <3>1
    <3>2. CASE logSub # None
      <4>1. WillFollow(followed, Append(up, Unsubscribe(logSub)), n)
              <=> n # logSub /\ WillFollow(followed, up, n)
        BY <1>2, <3>2, FollowChange
      <4> QED
        BY <2>1, <3>2, <4>1
    <3> QED
      BY <3>1, <3>2
  <2> HIDE DEF prior
  <2>3. WillFollow(followed, Append(prior, Subscribe(x)), n)
          <=> n = x \/ WillFollow(followed, prior, n)
    BY <1>3, FollowChange
  <2> QED
    BY <1>4, <2>2, <2>3
<1> HIDE DEF prior
<1>9. Connected => up' # <<>> /\ up'[Len(up')] = Subscribe(x)
  BY <1>2, <1>3, <1>4
<1>10. SubscribesLast' /\ DownCatchesUp'
  BY <1>9 DEF SubscribesLast, DownCatchesUp, Connected
<1> QED
  BY <1>6, <1>7, <1>8, <1>10 DEF IInv

LEMMA UnsubscribeLogsKeeps ==
  ASSUME IInv, UnsubscribeLogs
  PROVE  IInv'
<1> USE DEF UnsubscribeLogs, Send, hubVars
<1>1. LogTypes /\ SocketInv /\ UpSettles /\ SubscribesLast /\ DownCatchesUp
  BY DEF IInv
<1>2. up \in Seq(Frame) /\ logSub \in Nodes /\ Unsubscribe(logSub) \in Frame
  BY <1>1, FramesAreFrames DEF LogTypes
<1>3. up' = IF Connected THEN Append(up, Unsubscribe(logSub)) ELSE up
  BY <1>2, AppendFrames DEF Connected
<1>4. LogTypes'
  BY <1>1, <1>2, <1>3 DEF LogTypes, SocketTypeOK, Lines
<1>5. SocketInv'
  BY <1>1 DEF SocketInv
<1>6. UpSettles'
  <2> SUFFICES ASSUME Connected, NEW n \in Nodes
               PROVE  ~WillFollow(followed, up', n)
    BY DEF UpSettles, Connected
  <2>1. WillFollow(followed, up', n)
          <=> n # logSub /\ WillFollow(followed, up, n)
    <3>1. up' = Append(up, Unsubscribe(logSub))
      BY <1>3
    <3>2. WillFollow(followed, Append(up, Unsubscribe(logSub)), n)
            <=> n # logSub /\ WillFollow(followed, up, n)
      BY <1>2, FollowChange
    <3> QED
      BY <3>1, <3>2
  <2> QED
    BY <1>1, <2>1 DEF UpSettles
<1>7. SubscribesLast' /\ DownCatchesUp'
  BY DEF SubscribesLast, DownCatchesUp
<1> QED
  BY <1>4, <1>5, <1>6, <1>7 DEF IInv

LEMMA NextIInv == IInv /\ [Next]_vars => IInv'
<1> SUFFICES ASSUME IInv, [Next]_vars PROVE IInv'
  OBVIOUS
<1>1. CASE UNCHANGED vars
  BY <1>1 DEF vars, hubVars, logVars, wireVars, IInv, LogTypes, SocketTypeOK, Lines, SocketInv,
              UpSettles, SubscribesLast, DownCatchesUp, Connected
<1>2. ASSUME NEW n \in Nodes, PushLog(n) \/ SubscribeLogs(n)
      PROVE  IInv'
  BY <1>2, PushLogKeeps, SubscribeLogsKeeps
<1>3. CASE UnsubscribeLogs \/ HubReceive \/ Hibernate
  BY <1>3, UnsubscribeLogsKeeps, HubReceiveKeeps, HibernateKeeps
<1>4. CASE Accept \/ OnOpen \/ OnMessage \/ Lose \/ OnClose \/ Reconnect
  BY <1>4, AcceptKeeps, OnOpenKeeps, OnMessageKeeps, LoseKeeps, OnCloseKeeps
<1> QED
  BY <1>1, <1>2, <1>3, <1>4 DEF Next

LEMMA AlwaysIInv == Spec => []IInv
  BY InitIInv, NextIInv, PTL DEF Spec

(***************************************************************************)
(* Every part keeps its shape, and the hub's buffers and the browser's     *)
(* window keep their limits.                                               *)
(***************************************************************************)
THEOREM TypeCorrect == Spec => []TypeOK
<1>1. IInv => TypeOK
  <2>1. \A S : \A s \in Seq(S) : \A k \in DOMAIN s : s[k] \in S
    BY ElementOfSeq
  <2> QED
    BY <2>1 DEF IInv, LogTypes, SocketInv, TypeOK, Frame
<1> QED
  BY <1>1, AlwaysIInv, PTL

(***************************************************************************)
(* subscribeLogs, the hub's attachments and its replay together: a tab on  *)
(* a quiet socket has what the hub still has of its log.                   *)
(***************************************************************************)
THEOREM LogsAreComplete == Spec => []LogIsComplete
<1>1. IInv => LogIsComplete
  <2> SUFFICES ASSUME IInv, Settled, logSub # None, NEW k \in DOMAIN buffer[logSub]
               PROVE  buffer[logSub][k] \in Shown
    BY DEF LogIsComplete, Kept
  <2>1. /\ logs \in Seq(Lines) /\ down = <<>> /\ up = <<>> /\ Connected
        /\ buffer[logSub] \in Seq(1..printed)
    BY DEF IInv, LogTypes, Settled, Connected
  <2>2. logs \o down = logs
    BY <2>1
  <2>3. EndsWith(logs, logSub, buffer[logSub])
    BY <2>1, <2>2 DEF IInv, DownCatchesUp
  <2>4. PICK j \in DOMAIN logs : logs[j] = LogMessage(logSub, buffer[logSub][k])
    <3>1. k \in 1..Len(buffer[logSub]) /\ Len(logs) \in Nat /\ Len(buffer[logSub]) \in Nat
      BY <2>1
    <3>2. Len(logs) - Len(buffer[logSub]) + k \in DOMAIN logs
      BY <2>1, <2>3, <3>1 DEF EndsWith
    <3> QED
      BY <2>3, <3>1, <3>2 DEF EndsWith
  <2> QED
    BY <2>4 DEF Shown, LogMessage
<1> QED
  BY <1>1, AlwaysIInv, PTL

(***************************************************************************)
(* attachLogSub follows the frames of the browser: on a quiet socket the   *)
(* hub sends the log of the tab that is open, and no other.                *)
(***************************************************************************)
THEOREM FollowsOne == Spec => []OnlyTheFollowed
<1>1. IInv => OnlyTheFollowed
  BY DEF IInv, UpSettles, WillFollow, LogTypes, Settled, Connected, OnlyTheFollowed
<1> QED
  BY <1>1, AlwaysIInv, PTL
=============================================================================
