---------------------------- MODULE BrowserSocket --------------------------
(***************************************************************************)
(* The WebSocket between a browser and the hub: connect and its handlers   *)
(* in src/src/react-app/hooks/useHubSocket.ts, acceptBrowser and safeSend  *)
(* in src/src/worker/hub.ts.  Panel and LiveLogs say what the two ends do  *)
(* with it.                                                                *)
(***************************************************************************)
EXTENDS Naturals, Sequences

CONSTANT MaxFaults      \* bound: lost connections, failed requests, restarts

ASSUME FaultsAssumption == MaxFaults \in Nat

VARIABLES
    accepted,   \* hub: the browser's socket is open
    down,       \* frames on their way to the browser
    up,         \* frames on their way to the hub
    conn,       \* browser: the state of its connection
    faults      \* bound

wireVars == <<accepted, down, up, conn>>

SocketInit ==
    /\ accepted = FALSE /\ down = <<>> /\ up = <<>>
    /\ conn = "connecting"
    /\ faults = 0

Fault == faults < MaxFaults /\ faults' = faults + 1

\* safeSend to the browser's socket, if it has one.
Broadcast(m) == down' = IF accepted THEN Append(down, m) ELSE down

\* acceptBrowser, and the answer of the upgrade on its way.
AcceptBrowser ==
    /\ conn = "connecting" /\ ~accepted
    /\ accepted' = TRUE
    /\ UNCHANGED <<down, up, conn, faults>>

\* The browser's open event; frames are what its handler sends.
Opened(frames) ==
    /\ conn = "connecting" /\ accepted
    /\ conn' = "open"
    /\ up' = up \o frames
    /\ UNCHANGED <<accepted, down, faults>>

\* send drops what it is given while the socket is not open.
Send(frames) == up' = IF conn = "open" /\ accepted THEN up \o frames ELSE up

\* The connection is lost with what is on its way; the browser may still read
\* some of it.  Before it was open the attempt has failed.
Lost ==
    /\ Fault
    /\ conn # "closed"
    /\ accepted' = FALSE
    /\ up' = <<>>
    /\ IF conn = "open"
       THEN /\ \E n \in 0..Len(down) : down' = SubSeq(down, 1, n)
            /\ UNCHANGED conn
       ELSE /\ down' = <<>>
            /\ conn' = "closed"

\* The browser's close event.
Closed ==
    /\ conn = "open" /\ ~accepted /\ down = <<>>
    /\ conn' = "closed"
    /\ UNCHANGED <<accepted, down, up, faults>>

\* The retry's timer.
Retried ==
    /\ conn = "closed"
    /\ conn' = "connecting"
    /\ UNCHANGED <<accepted, down, up, faults>>

SocketTypeOK ==
    /\ accepted \in BOOLEAN
    /\ conn \in {"connecting", "open", "closed"}
    /\ faults \in 0..MaxFaults

\* Both ends are open and nothing is on its way.
Settled == conn = "open" /\ accepted /\ down = <<>> /\ up = <<>>
=============================================================================
