------------------------------ MODULE LiveLogs -----------------------------
(***************************************************************************)
(* The log of an instance in the browser: the hub's buffers and broadcasts *)
(* (src/src/worker/hub.ts), the log half of useHubSocket                   *)
(* (src/src/react-app/hooks/useHubSocket.ts) and the log tab               *)
(* (LogsPanel in src/src/react-app/pages/InstanceDetail.tsx), whose page   *)
(* may change from one instance to another.  The mobile panel              *)
(* (src/app/lib/src/app_state.dart) does the same.                         *)
(***************************************************************************)
EXTENDS BrowserSocket, FiniteSets

CONSTANTS
    Nodes,              \* instances
    None,               \* no log followed
    LOG_BUFFER_LIMIT,   \* lines the hub keeps of an instance: 300
    LOG_VIEW_LIMIT,     \* lines the browser keeps: 500
    MaxLines,           \* bound: lines of log
    MaxSwitches         \* bound: changes of the followed log

ASSUME NoneAssumption == None \notin Nodes
ASSUME LimitsAssumption ==
    /\ LOG_BUFFER_LIMIT \in Nat \ {0} /\ LOG_VIEW_LIMIT \in Nat
    /\ LOG_BUFFER_LIMIT <= LOG_VIEW_LIMIT

VARIABLES
    buffer,     \* hub: the last lines of each instance, in memory only
    followed,   \* hub: the logs in the attachment of the browser's socket
    logSub,     \* browser: the log it follows
    logs,       \* browser: lines it has
    printed,    \* lines so far
    switches    \* bound

logVars == <<logSub, logs, switches>>
hubVars == <<buffer, followed, printed>>
vars == <<hubVars, logVars, wireVars, faults>>

Init ==
    /\ SocketInit
    /\ buffer = [n \in Nodes |-> <<>>]
    /\ followed = {}
    /\ logSub = None /\ logs = <<>>
    /\ printed = 0 /\ switches = 0

----------------------------------------------------------------------------
(***************************************************************************)
(* The hub                                                                 *)
(***************************************************************************)
LogMessage(n, line) == [node |-> n, line |-> line]

\* Mutation: one line more than the limit stays.
LastLinesAndOne(s, limit) ==
    IF Len(s) > limit THEN SubSeq(s, Len(s) - limit, Len(s)) ELSE s

LastLines(s, limit) ==
    IF Len(s) > limit THEN SubSeq(s, Len(s) - limit + 1, Len(s)) ELSE s

\* pushLog and broadcastLogs.
PushLog(n) ==
    /\ printed < MaxLines
    /\ printed' = printed + 1
    /\ buffer' = [buffer EXCEPT ![n] = LastLines(Append(@, printed'), LOG_BUFFER_LIMIT)]
    /\ IF n \in followed THEN Broadcast(LogMessage(n, printed')) ELSE UNCHANGED down
    /\ UNCHANGED <<followed, logVars, accepted, up, conn, faults>>

Replay(n) == [k \in DOMAIN buffer[n] |-> LogMessage(n, buffer[n][k])]

\* Mutation: a subscription is for what comes.
HandleBrowserMessageWithoutReplay(m) ==
    /\ followed' = IF m.subscribe THEN followed \cup {m.node} ELSE followed \ {m.node}
    /\ UNCHANGED down

\* attachLogSub, and the replay that a subscription starts with.
HandleBrowserMessage(m) ==
    IF m.subscribe
    THEN /\ followed' = followed \cup {m.node}
         /\ down' = down \o Replay(m.node)
    ELSE /\ followed' = followed \ {m.node}
         /\ UNCHANGED down

HubReceive ==
    /\ accepted /\ up # <<>>
    /\ up' = Tail(up)
    /\ HandleBrowserMessage(Head(up))
    /\ UNCHANGED <<buffer, printed, logVars, accepted, conn, faults>>

\* The hub leaves memory: sockets and their attachments outlive it.
Hibernate ==
    /\ Fault
    /\ buffer' = [n \in Nodes |-> <<>>]
    /\ UNCHANGED <<followed, printed, logVars, wireVars>>

----------------------------------------------------------------------------
(***************************************************************************)
(* The socket                                                              *)
(***************************************************************************)
Subscribe(n) == [subscribe |-> TRUE, node |-> n]

Unsubscribe(n) == [subscribe |-> FALSE, node |-> n]

\* A socket is accepted without an attachment.
Accept == AcceptBrowser /\ followed' = {} /\ UNCHANGED <<buffer, printed, logVars>>

\* Mutation: the hub is thought to remember the subscription.
OnOpenWithoutSubscribe == Opened(<<>>) /\ UNCHANGED <<hubVars, logVars>>

OnOpen ==
    /\ Opened(IF logSub = None THEN <<>> ELSE <<Subscribe(logSub)>>)
    /\ UNCHANGED <<hubVars, logVars>>

OnMessage ==
    /\ conn = "open" /\ down # <<>>
    /\ logs' = LastLines(Append(logs, Head(down)), LOG_VIEW_LIMIT)
    /\ down' = Tail(down)
    /\ UNCHANGED <<hubVars, logSub, switches, accepted, up, conn, faults>>

Lose == Lost /\ followed' = {} /\ UNCHANGED <<buffer, printed, logVars>>

OnClose == Closed /\ UNCHANGED <<hubVars, logVars>>

Reconnect == Retried /\ UNCHANGED <<hubVars, logVars>>

----------------------------------------------------------------------------
(***************************************************************************)
(* The log tab                                                             *)
(***************************************************************************)
\* Mutation: the earlier subscription is left to the hub.
FramesWithoutUnsubscribe(n) == <<Subscribe(n)>>

Frames(n) == IF logSub = None THEN <<Subscribe(n)>> ELSE <<Unsubscribe(logSub), Subscribe(n)>>

\* The tab is opened, or its page changes to another instance: the clean-up of
\* one effect and subscribeLogs of the next.
SubscribeLogs(n) ==
    /\ logSub # n
    /\ switches < MaxSwitches
    /\ switches' = switches + 1
    /\ logSub' = n
    /\ logs' = <<>>
    /\ Send(Frames(n))
    /\ UNCHANGED <<hubVars, accepted, down, conn, faults>>

\* The tab is left.  The web panel's socket ends with it, the mobile panel's
\* goes on.
UnsubscribeLogs ==
    /\ logSub # None
    /\ switches < MaxSwitches
    /\ switches' = switches + 1
    /\ logSub' = None
    /\ Send(<<Unsubscribe(logSub)>>)
    /\ UNCHANGED <<hubVars, logs, accepted, down, conn, faults>>

----------------------------------------------------------------------------
Next ==
    \/ \E n \in Nodes : PushLog(n) \/ SubscribeLogs(n)
    \/ UnsubscribeLogs
    \/ HubReceive \/ Hibernate
    \/ Accept \/ OnOpen \/ OnMessage \/ Lose \/ OnClose \/ Reconnect

\* An open socket delivers, a closed one is retried.
Fairness ==
    /\ WF_vars(HubReceive) /\ WF_vars(Accept) /\ WF_vars(OnOpen)
    /\ WF_vars(OnMessage) /\ WF_vars(OnClose) /\ WF_vars(Reconnect)

Spec == Init /\ [][Next]_vars /\ Fairness

----------------------------------------------------------------------------
(***************************************************************************)
(* Properties                                                              *)
(***************************************************************************)
Lines == [node : Nodes, line : 1..printed]

\* Every part keeps its shape, and the two windows their limits.
TypeOK ==
    /\ SocketTypeOK
    /\ \A n \in Nodes : Len(buffer[n]) <= LOG_BUFFER_LIMIT
    /\ followed \subseteq Nodes /\ (~accepted => followed = {})
    /\ \A k \in DOMAIN down : down[k] \in Lines
    /\ \A k \in DOMAIN up : up[k] \in [subscribe : BOOLEAN, node : Nodes]
    /\ logSub \in Nodes \cup {None}
    /\ Len(logs) <= LOG_VIEW_LIMIT /\ \A k \in DOMAIN logs : logs[k] \in Lines

\* The lines of its instance that the tab shows, as it filters them.
Shown == {logs[k].line : k \in {j \in DOMAIN logs : logs[j].node = logSub}}

Kept(n) == {buffer[n][k] : k \in DOMAIN buffer[n]}

(***************************************************************************)
(* The log tab has what the hub still has of the log, after a change of    *)
(* the instance and after every reconnection: "recent agent and rathole    *)
(* output appears here" (InstanceDetail.tsx:1591).                         *)
(***************************************************************************)
LogIsComplete == Settled /\ logSub # None => Kept(logSub) \subseteq Shown

(***************************************************************************)
(* The hub sends a browser the log it follows and no other, however often  *)
(* the page changed and the connection was lost on the way.                *)
(***************************************************************************)
OnlyTheFollowed == Settled => followed = {logSub} \ {None}

(***************************************************************************)
(* Once lines and faults stop, a browser that follows a log has what the   *)
(* hub has of it.                                                          *)
(***************************************************************************)
LogCatchesUp == <>[](logSub # None => Kept(logSub) \subseteq Shown)
=============================================================================
