-------------------------------- MODULE Panel ------------------------------
(***************************************************************************)
(* What a browser shows of one instance: the hook useHubSocket of the web  *)
(* panel (src/src/react-app/hooks/useHubSocket.ts) with the hub's          *)
(* broadcasts and its list of instances (src/src/worker/hub.ts).  The      *)
(* mobile panel (src/app/lib/src/app_state.dart) follows the same          *)
(* protocol.                                                               *)
(*                                                                         *)
(* A list is asked for over HTTP, answered from D1 and from the hub's      *)
(* memory at different moments, and may be overtaken by another list and   *)
(* by the messages of the socket.                                          *)
(***************************************************************************)
EXTENDS BrowserSocket, SequencesExt

CONSTANTS
    Own,                \* the process state of the hub's own record
    MaxChanges,         \* bound: edits and the removal of the instance
    MaxReports,         \* bound: reports of the agent
    MaxLists            \* bound: lists asked for and not yet applied

ASSUME OwnAssumption == Own \notin Nat
ASSUME BoundsAssumption == MaxChanges \in Nat /\ MaxReports \in Nat /\ MaxLists \in Nat \ {0, 1}

VARIABLES
    record,     \* hub: the version of the instance's record, and whether it is there
    report,     \* D1: the version of its last report
    lists,      \* lists asked for, in the order they were
    view,       \* browser: its copy of the instance
    loading,    \* browser: no list came back yet
    loadError,  \* browser: the last list to come back had failed
    seen,       \* newest version of the record the browser has shown
    overtaken   \* the list it shows came back after newer news

hubVars == <<record, report>>
viewVars == <<view, loading, loadError, seen, overtaken>>
vars == <<hubVars, lists, viewVars, wireVars, faults>>

\* The mount of the hook: a first list and a first connection.
Asked == [at |-> "asked", rep |-> Own, v |-> 0, here |-> FALSE, late |-> FALSE]

Init ==
    /\ SocketInit
    /\ record = [v |-> 0, here |-> TRUE]
    /\ report = 0
    /\ lists = <<Asked>>
    /\ view = [v |-> 0, here |-> FALSE, rep |-> Own]
    /\ loading = TRUE /\ loadError = FALSE
    /\ seen = 0 /\ overtaken = FALSE

----------------------------------------------------------------------------
(***************************************************************************)
(* The hub                                                                 *)
(***************************************************************************)
InstanceMessage(r) == [v |-> r.v, here |-> r.here]

\* A change of the record: instance_update carries the hub's own copy.
Edit ==
    /\ record.here /\ record.v < MaxChanges
    /\ record' = [record EXCEPT !.v = @ + 1]
    /\ Broadcast(InstanceMessage(record'))
    /\ UNCHANGED <<report, lists, viewVars, accepted, up, conn, faults>>

\* remove: instance_removed.
RemoveInstance ==
    /\ record.here /\ record.v < MaxChanges
    /\ record' = [v |-> record.v + 1, here |-> FALSE]
    /\ Broadcast(InstanceMessage(record'))
    /\ UNCHANGED <<report, lists, viewVars, accepted, up, conn, faults>>

\* storeAgentReport: the hub hears nothing of it.
AgentReports ==
    /\ record.here /\ report < MaxReports
    /\ report' = report + 1
    /\ UNCHANGED <<record, lists, viewVars, wireVars, faults>>

----------------------------------------------------------------------------
(***************************************************************************)
(* The lists                                                               *)
(***************************************************************************)
Goto(k, list) == lists' = [lists EXCEPT ![k] = list]

\* listInstances waits for D1 first; without D1 the hub's own state is shown.
ReadReports(k) ==
    /\ k \in DOMAIN lists /\ lists[k].at = "asked"
    /\ \/ Goto(k, [lists[k] EXCEPT !.at = "read", !.rep = report]) /\ UNCHANGED faults
       \/ Goto(k, [lists[k] EXCEPT !.at = "read"]) /\ Fault
    /\ UNCHANGED <<hubVars, viewVars, wireVars>>

ReadRecords(k) ==
    /\ k \in DOMAIN lists /\ lists[k].at = "read"
    /\ Goto(k, [lists[k] EXCEPT !.at = "answered", !.v = record.v, !.here = record.here])
    /\ UNCHANGED <<hubVars, viewVars, wireVars, faults>>

\* List k is back; those asked for before it are late.
Returned(k) ==
    RemoveAt([j \in DOMAIN lists |-> [lists[j] EXCEPT !.late = @ \/ j < k]], k)

Newest(a, b) == IF a > b THEN a ELSE b

\* Mutation: a list replaces only records that are older than its own.
ListArrivesIfNewer(k) ==
    /\ k \in DOMAIN lists /\ lists[k].at = "answered"
    /\ view' = IF view.here /\ lists[k].v <= view.v THEN view
               ELSE [v |-> lists[k].v, here |-> lists[k].here, rep |-> lists[k].rep]
    /\ overtaken' = (lists[k].late \/ lists[k].v < seen)
    /\ seen' = Newest(seen, lists[k].v)
    /\ lists' = Returned(k)
    /\ loading' = FALSE /\ loadError' = FALSE
    /\ UNCHANGED <<hubVars, wireVars, faults>>

\* The map is replaced.
ListArrives(k) ==
    /\ k \in DOMAIN lists /\ lists[k].at = "answered"
    /\ view' = [v |-> lists[k].v, here |-> lists[k].here, rep |-> lists[k].rep]
    /\ overtaken' = (lists[k].late \/ lists[k].v < seen)
    /\ seen' = Newest(seen, lists[k].v)
    /\ lists' = Returned(k)
    /\ loading' = FALSE /\ loadError' = FALSE
    /\ UNCHANGED <<hubVars, wireVars, faults>>

\* Mutation: the error is only thrown on to the caller.
ListFailsSilently(k) ==
    /\ k \in DOMAIN lists /\ Fault
    /\ lists' = Returned(k)
    /\ loading' = FALSE
    /\ UNCHANGED <<hubVars, view, loadError, seen, overtaken, wireVars>>

\* Mutation: only a list settles the first load.
ListFailsUnsettled(k) ==
    /\ k \in DOMAIN lists /\ Fault
    /\ lists' = Returned(k)
    /\ loadError' = TRUE
    /\ UNCHANGED <<hubVars, view, loading, seen, overtaken, wireVars>>

ListFails(k) ==
    /\ k \in DOMAIN lists /\ Fault
    /\ lists' = Returned(k)
    /\ loading' = FALSE /\ loadError' = TRUE
    /\ UNCHANGED <<hubVars, view, seen, overtaken, wireVars>>

\* The timer of 30 seconds, the pulls around an operator's action, Retry.
Poll ==
    /\ Len(lists) + 1 < MaxLists
    /\ lists' = Append(lists, Asked)
    /\ UNCHANGED <<hubVars, viewVars, wireVars, faults>>

----------------------------------------------------------------------------
(***************************************************************************)
(* The socket                                                              *)
(***************************************************************************)
Accept == AcceptBrowser /\ UNCHANGED <<hubVars, lists, viewVars>>

\* Mutation: the list is left to the timer.
OnOpenWithoutRefresh == Opened(<<>>) /\ UNCHANGED <<hubVars, lists, viewVars>>

OnOpen ==
    /\ Len(lists) < MaxLists
    /\ Opened(<<>>)
    /\ lists' = Append(lists, Asked)
    /\ UNCHANGED <<hubVars, viewVars>>

OnMessage ==
    /\ conn = "open" /\ down # <<>>
    /\ view' = [v |-> Head(down).v, here |-> Head(down).here, rep |-> Own]
    /\ seen' = Newest(seen, Head(down).v)
    /\ overtaken' = FALSE
    /\ down' = Tail(down)
    /\ UNCHANGED <<hubVars, lists, loading, loadError, accepted, up, conn, faults>>

Lose == Lost /\ UNCHANGED <<hubVars, lists, viewVars>>

OnClose == Closed /\ UNCHANGED <<hubVars, lists, viewVars>>

Reconnect == Retried /\ UNCHANGED <<hubVars, lists, viewVars>>

----------------------------------------------------------------------------
ListStep(k) == ReadReports(k) \/ ReadRecords(k) \/ ListArrives(k)

Next ==
    \/ Edit \/ RemoveInstance \/ AgentReports \/ Poll
    \/ \E k \in 1..MaxLists : ListStep(k) \/ ListFails(k)
    \/ Accept \/ OnOpen \/ OnMessage \/ Lose \/ OnClose \/ Reconnect

\* Timers fire, requests are answered or fail, an open socket delivers.
Fairness ==
    /\ WF_vars(Poll)
    /\ \A k \in 1..MaxLists : WF_vars(ListStep(k))
    /\ WF_vars(Accept) /\ WF_vars(OnOpen) /\ WF_vars(OnMessage)
    /\ WF_vars(OnClose) /\ WF_vars(Reconnect)

Spec == Init /\ [][Next]_vars /\ Fairness

----------------------------------------------------------------------------
(***************************************************************************)
(* Properties                                                              *)
(***************************************************************************)
Reports == (0..MaxReports) \cup {Own}

\* Every part keeps its shape, the browser knows of no version before the hub
\* has it, and "Loading" is shown only while a list is on its way.
TypeOK ==
    /\ SocketTypeOK
    /\ record \in [v : 0..MaxChanges, here : BOOLEAN] /\ report \in 0..MaxReports
    /\ \A k \in DOMAIN down : down[k] \in [v : 0..record.v, here : BOOLEAN]
    /\ up = <<>>
    /\ Len(lists) <= MaxLists
    /\ \A k \in DOMAIN lists : lists[k].v <= record.v
    /\ loading => lists # <<>>
    /\ view \in [v : 0..record.v, here : BOOLEAN, rep : Reports]
    /\ seen \in 0..record.v

(***************************************************************************)
(* "Live" on the dashboard can be believed: on an open connection with     *)
(* nothing on its way and no error shown, the panel has the hub's record,  *)
(* whatever it missed while it was away.  The exception is a list that     *)
(* came back after newer news and replaced it (useHubSocket.ts:37).        *)
(***************************************************************************)
LiveIsCurrent ==
    Settled /\ lists = <<>> /\ ~loadError /\ ~overtaken
        => view.here = record.here /\ (record.here => view.v = record.v)

(***************************************************************************)
(* The page of an instance says "Instance not found." only of one that is  *)
(* gone: not while the first list is loading and not because one failed    *)
(* (InstanceDetail.tsx:142).                                               *)
(***************************************************************************)
NotFoundIsTrue == ~view.here /\ ~loading /\ ~loadError => ~record.here

(***************************************************************************)
(* Whatever is lost or overtaken, the panel ends at the hub's record with  *)
(* the node's last report, which no socket announces: "Poll queryable      *)
(* state while the socket remains dedicated to control events"             *)
(* (useHubSocket.ts:111).                                                  *)
(***************************************************************************)
Shows == view.here = record.here /\ (record.here => view.v = record.v /\ view.rep = report)

EndsCurrent == <>[]Shows
=============================================================================
