----------------------------- MODULE Enrollment ----------------------------
(***************************************************************************)
(* How a node comes to have an instance, and loses it: enrollment, the     *)
(* agent's upgrade and reports, edits and deletions in                     *)
(* src/src/worker/index.ts, each a request of several calls to the hub     *)
(* (src/src/worker/hub.ts) and to D1 (src/src/worker/agent-reports.ts)     *)
(* between which other requests run.                                       *)
(*                                                                         *)
(* The agent token is drawn with the instance and never changes, so that   *)
(* the identifier of an instance stands for both.  What an instance is     *)
(* configured with is in ConfigEditor, what a socket carries in            *)
(* ControlPlane.                                                           *)
(***************************************************************************)
EXTENDS Naturals, FiniteSets

CONSTANTS
    Nodes,          \* machines, by their machine-id
    Ids,            \* identifiers drawn by crypto.randomUUID()
    Requests,       \* requests that run at the same time
    None            \* no instance, no node

ASSUME NoneAssumption == None \notin Ids \cup Nodes

VARIABLES
    owner,          \* hub: instance -> the node that enrolled it, None if there is none
    used,           \* identifiers drawn so far
    creds,          \* D1: instances with a row in agent_credentials
    rows,           \* D1: instances with a row in agent_status
    identity,       \* node -> the instance its daemon was started for, or None
    connected,      \* node -> the instance its control socket is tagged with
    req,            \* requests in flight
    disturbed       \* instances on which two requests crossed, or one failed half-way

cloudVars == <<owner, used, creds, rows, connected>>
vars == <<cloudVars, identity, req, disturbed>>

Idle == [at |-> "idle", id |-> None, node |-> None]

Init ==
    /\ owner = [i \in Ids |-> None]
    /\ used = {} /\ creds = {} /\ rows = {} /\ disturbed = {}
    /\ identity = [n \in Nodes |-> None]
    /\ connected = [n \in Nodes |-> None]
    /\ req = [r \in Requests |-> Idle]

Alive == {i \in Ids : owner[i] # None}

Goto(r, at, id, node) == req' = [req EXCEPT ![r] = [Idle EXCEPT !.at = at, !.id = id, !.node = node]]

Finish(r) == req' = [req EXCEPT ![r] = Idle]

\* Another request carries instance i.
Carried(r, i) == \E q \in Requests \ {r} : req[q].id = i

Disturb(r, i) == disturbed' = IF Carried(r, i) THEN disturbed \cup {i} ELSE disturbed

----------------------------------------------------------------------------
(***************************************************************************)
(* POST /api/agent/enroll                                                  *)
(***************************************************************************)
\* Mutation: any connected node's instance; offline ones are not found.
InstancesOfOnline(n) == {i \in Alive : owner[i] = n /\ \E m \in Nodes : connected[m] = i}

InstancesOf(n) == {i \in Alive : owner[i] = n}

EnrollFind(r, n) ==
    /\ req[r] = Idle
    /\ \/ \E i \in InstancesOf(n) : Goto(r, "seed", i, n)
       \/ InstancesOf(n) = {} /\ Goto(r, "settings", None, n)
    /\ UNCHANGED <<cloudVars, identity, disturbed>>

EnrollSettings(r) ==
    /\ req[r].at = "settings"
    /\ Goto(r, "create", None, req[r].node)
    /\ UNCHANGED <<cloudVars, identity, disturbed>>

\* newInstance and createInstance.  The node may have got an instance since.
EnrollCreate(r) ==
    /\ req[r].at = "create"
    /\ \E i \in Ids \ used :
          /\ owner' = [owner EXCEPT ![i] = req[r].node]
          /\ used' = used \cup {i}
          /\ disturbed' = IF InstancesOf(req[r].node) = {} THEN disturbed
                          ELSE disturbed \cup {i}
          /\ Goto(r, "seed", i, req[r].node)
    /\ UNCHANGED <<creds, rows, connected, identity>>

\* Mutation: the credential is left to the node's first report.
SeedRowOnly(i) ==
    /\ rows' = rows \cup {i}
    /\ UNCHANGED creds

\* syncAgentInstance: one batch that upserts the credential and the row.
Seed(i) ==
    /\ creds' = creds \cup {i}
    /\ rows' = rows \cup {i}

\* The daemon of a node reads its identity when it starts.
StartDaemon(n, i) ==
    /\ identity' = [identity EXCEPT ![n] = i]
    /\ connected' = [connected EXCEPT ![n] = None]

\* The node saves what it is told and its daemon is started; or the answer
\* comes too late for it.
EnrollSeed(r) ==
    /\ req[r].at = "seed"
    /\ Seed(req[r].id)
    /\ \/ StartDaemon(req[r].node, req[r].id)
       \/ UNCHANGED <<identity, connected>>
    /\ Finish(r)
    /\ UNCHANGED <<owner, used, disturbed>>

\* D1 cannot be reached: the instance stays, the node hears of an error.
EnrollFails(r) ==
    /\ req[r].at = "seed"
    /\ Finish(r)
    /\ UNCHANGED <<cloudVars, identity, disturbed>>

\* GET /api/instances/:id/reveal, and INSTANCE_ID and AGENT_TOKEN set by hand.
Provision(n, i) ==
    /\ i \in Alive
    /\ StartDaemon(n, i)
    /\ UNCHANGED <<owner, used, creds, rows, req, disturbed>>

----------------------------------------------------------------------------
(***************************************************************************)
(* The agent: GET /api/agent/ws and POST /api/agent/report                 *)
(***************************************************************************)
UpgradeCheck(r, n) ==
    /\ req[r] = Idle
    /\ connected[n] = None
    /\ identity[n] \in Alive
    /\ Goto(r, "upgrade", identity[n], n)
    /\ UNCHANGED <<cloudVars, identity, disturbed>>

UpgradeSeed(r) ==
    /\ req[r].at = "upgrade"
    /\ Seed(req[r].id)
    /\ Goto(r, "accept", req[r].id, req[r].node)
    /\ UNCHANGED <<owner, used, connected, identity, disturbed>>

\* recordAgentIp and acceptAgent, which does not ask whether the instance
\* is still there.
UpgradeAccept(r) ==
    /\ req[r].at = "accept"
    /\ connected' = [connected EXCEPT ![req[r].node] = req[r].id]
    /\ Finish(r)
    /\ UNCHANGED <<owner, used, creds, rows, identity, disturbed>>

Disconnect(n) ==
    /\ connected[n] # None
    /\ connected' = [connected EXCEPT ![n] = None]
    /\ UNCHANGED <<owner, used, creds, rows, identity, req, disturbed>>

\* agentCredentialMatches, then storeAgentReport.
ReportCheck(r, n) ==
    /\ req[r] = Idle
    /\ identity[n] \in creds
    /\ Goto(r, "report", identity[n], n)
    /\ UNCHANGED <<cloudVars, identity, disturbed>>

ReportStore(r) ==
    /\ req[r].at = "report"
    /\ rows' = rows \cup {req[r].id}
    /\ Finish(r)
    /\ UNCHANGED <<owner, used, creds, connected, identity, disturbed>>

----------------------------------------------------------------------------
(***************************************************************************)
(* The panel: PUT and DELETE /api/instances/:id                            *)
(***************************************************************************)
PutRead(r, i) ==
    /\ req[r] = Idle
    /\ i \in Alive
    /\ Goto(r, "put", i, owner[i])
    /\ UNCHANGED <<cloudVars, identity, disturbed>>

\* updateInstance stores the record it is given, deleted or not.
PutWrite(r) ==
    /\ req[r].at = "put"
    /\ owner' = [owner EXCEPT ![req[r].id] = req[r].node]
    /\ Finish(r)
    /\ UNCHANGED <<used, creds, rows, connected, identity, disturbed>>

\* deleteInstance closes the sockets and removes the record.
DeleteFromHub(r, i) ==
    /\ req[r] = Idle
    /\ i \in Alive
    /\ owner' = [owner EXCEPT ![i] = None]
    /\ connected' = [n \in Nodes |-> IF connected[n] = i THEN None ELSE connected[n]]
    /\ Disturb(r, i)
    /\ Goto(r, "forget", i, None)
    /\ UNCHANGED <<used, creds, rows, identity>>

\* Mutation: the rows of agent_status are left.
ForgetCredentials(i) == creds' = creds \ {i} /\ UNCHANGED rows

\* deleteAgentState, one batch.
Forget(i) == creds' = creds \ {i} /\ rows' = rows \ {i}

DeleteAgentState(r) ==
    /\ req[r].at = "forget"
    /\ Forget(req[r].id)
    /\ Disturb(r, req[r].id)
    /\ Finish(r)
    /\ UNCHANGED <<owner, used, connected, identity>>

\* D1 cannot be reached.  The next DELETE gets a 404.
DeleteFails(r) ==
    /\ req[r].at = "forget"
    /\ disturbed' = disturbed \cup {req[r].id}
    /\ Finish(r)
    /\ UNCHANGED <<cloudVars, identity>>

----------------------------------------------------------------------------
Next ==
    \/ \E r \in Requests :
          \/ \E n \in Nodes : EnrollFind(r, n) \/ UpgradeCheck(r, n) \/ ReportCheck(r, n)
          \/ \E i \in Ids : PutRead(r, i) \/ DeleteFromHub(r, i)
          \/ EnrollSettings(r) \/ EnrollCreate(r) \/ EnrollSeed(r) \/ EnrollFails(r)
          \/ UpgradeSeed(r) \/ UpgradeAccept(r) \/ ReportStore(r) \/ PutWrite(r)
          \/ DeleteAgentState(r) \/ DeleteFails(r)
    \/ \E n \in Nodes : Disconnect(n) \/ \E i \in Ids : Provision(n, i)

Spec == Init /\ [][Next]_vars

----------------------------------------------------------------------------
(***************************************************************************)
(* Properties                                                              *)
(***************************************************************************)
\* Records, rows and requests have their shapes.
TypeOK ==
    /\ owner \in [Ids -> Nodes \cup {None}]
    /\ used \subseteq Ids /\ Alive \subseteq used
    /\ creds \subseteq used /\ rows \subseteq used /\ disturbed \subseteq used
    /\ identity \in [Nodes -> used \cup {None}]
    /\ connected \in [Nodes -> used \cup {None}]
    /\ DOMAIN req = Requests
    /\ \A r \in Requests :
          req[r].id \in used \cup {None} /\ req[r].node \in Nodes \cup {None}

(***************************************************************************)
(* Enrollment is "idempotent" (hub.ts:246, index.ts:318): a node has one   *)
(* instance however often it enrolls.  Two only come of enrollments or an  *)
(* edit and a deletion that crossed.                                       *)
(***************************************************************************)
OneInstancePerNode ==
    \A i, j \in Alive : owner[i] = owner[j] /\ i # j => {i, j} \cap disturbed # {}

(***************************************************************************)
(* Nothing is left in D1 of an instance that was deleted, and no socket is *)
(* open for it, once no request carries it: the credential of a deleted    *)
(* node opens nothing.  The exceptions are deletions that crossed another  *)
(* request or failed between the hub and D1.                               *)
(***************************************************************************)
DeletedIsForgotten ==
    \A i \in (used \ Alive) \ disturbed :
        (\A r \in Requests : req[r].id # i) =>
            i \notin creds \cup rows /\ \A n \in Nodes : connected[n] # i

(***************************************************************************)
(* The upgrade "seeds D1 ... so subsequent status reports can              *)
(* authenticate" (agent-reports.ts:132): a node connected to an instance   *)
(* has the credential for its reports, also when its enrollment failed     *)
(* half-way and it was provisioned by hand.                                *)
(***************************************************************************)
ConnectedCanReport ==
    \A n \in Nodes : connected[n] \in Alive \ disturbed => connected[n] \in creds
=============================================================================
