---------------------------- MODULE ControlPlane ----------------------------
(***************************************************************************)
(* One managed instance seen from the three places that hold a part of it: *)
(* the Worker's REST handlers (src/src/worker/index.ts), the instance      *)
(* record and the agent sockets of the hub Durable Object                  *)
(* (src/src/worker/hub.ts), and the agent with its runner                  *)
(* (src/agent/src/main.rs, src/agent/src/runner.rs).                       *)
(*                                                                         *)
(* Every hub handler indexes its maps and sockets by one instance id, so   *)
(* one instance is modelled.  A hub handler runs to completion before the  *)
(* next event (the Durable Object's input gate), so it is one action; a    *)
(* Worker handler calls the hub several times, and each call is an action  *)
(* of its own between which anything may happen.                           *)
(***************************************************************************)
EXTENDS Naturals, Sequences, FiniteSets

CONSTANTS
  Config,        \* configurations that can be stored for the instance
  NoServices,    \* the ones with an empty service list
  Unbuildable,   \* the ones the agent's config builders refuse; validateConfig
                 \* refuses them as well, so only an older panel stored one
  Unreadable,    \* the ones that pass validateConfig and do not deserialize on
                 \* the agent (a fractional heartbeatInterval, say)
  Request,       \* Worker requests that may be in progress at the same time
  Conn,          \* WebSocket connections that may exist at the same time
  NoInst,        \* the hub has no record of the instance
  NoConn,        \* the agent is not connected
  NoConfig,      \* the runner was given no configuration yet
  Nothing,       \* rathole is not running: it was never started, or stopped
  Exited,        \* rathole is not running: its task ended by itself
  MaxRequests,   \* bound: REST requests started in a behaviour
  MaxFaults      \* bound: connection losses, restarts and rathole exits

ASSUME ConfigAssumption ==
  /\ NoServices \subseteq Config
  /\ Unbuildable \subseteq Config
  /\ Unreadable \subseteq Config
  /\ NoConfig \notin Config
  /\ Nothing \notin Config
  /\ Exited \notin Config
  /\ Nothing # Exited
ASSUME NoConnAssumption == NoConn \notin Conn
ASSUME BoundAssumption == MaxRequests \in Nat /\ MaxFaults \in Nat

VARIABLES
  inst,      \* the hub's record of the instance (memory and storage agree)
  socket,    \* hub side of each connection: free, open, or closing
  toAgent,   \* frames from the hub that the agent has not read
  toHub,     \* frames from the agent that the hub has not handled
  link,      \* the connection the agent is using
  upgrading, \* a WebSocket upgrade passed the Worker's token check
  outbox,    \* the agent's to_hub channel, which outlives connections
  runner,    \* the agent's Runner: configuration held and rathole task
  req,       \* the REST requests in progress
  served,    \* REST requests started so far, for the bound
  faults     \* faults so far, for the bound

hubVars == <<inst, socket>>
netVars == <<toAgent, toHub>>
agentVars == <<link, outbox, runner>>
vars == <<inst, socket, toAgent, toHub, link, upgrading, outbox, runner, req,
          served, faults>>

\* reload is handled with restart on both sides, and renew_certificate, which
\* touches neither rathole nor the intent, stands with status.
Command == {"start", "stop", "restart", "status"}
Desired == {"unset", "running", "stopped"}

NoCommand == "none"

\* The fields of an Instance that the handlers below read or write.
Instance == [config : Config, desired : Desired,
             status : {"online", "offline"}, inSync : {"unset", "ok", "failed"}]

ASSUME NoInstAssumption == NoInst \notin Instance

HubMessage ==
  [type : {"apply_config"}, config : Config, desired : {"running", "stopped"},
   command : {NoCommand}]
  \cup
  [type : {"command"}, config : {NoConfig}, desired : {"none"},
   command : Command]

AgentMessage == [type : {"register", "config_ack"}, ok : BOOLEAN]

Register == [type |-> "register", ok |-> TRUE]
ConfigAck(ok) == [type |-> "config_ack", ok |-> ok]

Runner == [config : Config \cup {NoConfig},
           live : Config \cup {Nothing, Exited}]

RestRequest == [op : {"idle", "put", "command", "delete"},
                snap : Instance \cup {NoInst},
                config : Config \cup {NoConfig},
                command : Command \cup {NoCommand}]

Idle == [op |-> "idle", snap |-> NoInst, config |-> NoConfig,
         command |-> NoCommand]

(***************************************************************************)
(* What the hub sends.                                                     *)
(***************************************************************************)

\* desired_process_state as it is put on the wire: absent counts as running.
Wanted(i) == IF i.desired = "stopped" THEN "stopped" ELSE "running"

\* Mutation: the push forgets the stored intent.
ApplyConfigForgetful(i) == [type |-> "apply_config", config |-> i.config,
                            desired |-> "running", command |-> NoCommand]

ApplyConfig(i) == [type |-> "apply_config", config |-> i.config,
                   desired |-> Wanted(i), command |-> NoCommand]

RunCommand(c) == [type |-> "command", config |-> NoConfig,
                  desired |-> "none", command |-> c]

\* The sockets tagged agent:<id>, a closing one included.
Sockets == {c \in Conn : socket[c] # "free"}

\* safeSend: only an open socket whose other end is still there delivers.
Sent(m, targets) ==
  [c \in Conn |-> IF c \in targets /\ socket[c] = "open" /\ link = c
                  THEN Append(toAgent[c], m) ELSE toAgent[c]]

(***************************************************************************)
(* REST handlers of the Worker.  Each starts with getInstance and a 404.   *)
(***************************************************************************)

Begin(r, request) ==
  /\ req[r] = Idle
  /\ inst # NoInst
  /\ served < MaxRequests
  /\ served' = served + 1
  /\ req' = [req EXCEPT ![r] = request]
  /\ UNCHANGED <<hubVars, netVars, agentVars, upgrading, faults>>

\* PUT or PATCH: the whole record is read; the configuration of the body is
\* normalized and validated.
BeginPut(r) ==
  \E c \in Config \ Unbuildable :
    Begin(r, [op |-> "put", snap |-> inst, config |-> c, command |-> NoCommand])

BeginCommand(r) ==
  \E c \in Command :
    Begin(r, [op |-> "command", snap |-> NoInst, config |-> NoConfig, command |-> c])

BeginDelete(r) ==
  Begin(r, [op |-> "delete", snap |-> NoInst, config |-> NoConfig,
            command |-> NoCommand])

\* Mutation: what was read before the edit is pushed.
FinishPutPushesOld(r) ==
  /\ req[r].op = "put"
  /\ inst' = [req[r].snap EXCEPT !.config = req[r].config]
  /\ toAgent' = Sent(ApplyConfig(req[r].snap), Sockets)
  /\ req' = [req EXCEPT ![r] = Idle]
  /\ UNCHANGED <<socket, toHub, agentVars, upgrading, served, faults>>

\* updateInstance: the record read earlier, with its new configuration, becomes
\* the record, and the configuration is pushed to every socket.
FinishPut(r) ==
  /\ req[r].op = "put"
  /\ inst' = [req[r].snap EXCEPT !.config = req[r].config]
  /\ toAgent' = Sent(ApplyConfig(inst'), Sockets)
  /\ req' = [req EXCEPT ![r] = Idle]
  /\ UNCHANGED <<socket, toHub, agentVars, upgrading, served, faults>>

\* Mutation: the command's name is stored as the intent.
DesiredForVerbatim(c, old) == c

\* desiredStateForCommand; a status command leaves the intent alone.
DesiredFor(c, old) ==
  CASE c = "stop" -> "stopped"
    [] c \in {"start", "restart"} -> "running"
    [] OTHER -> old

\* sendCommand: refused without a socket or a record, otherwise the intent is
\* stored before the command is sent.
FinishCommand(r) ==
  LET c == req[r].command IN
  /\ req[r].op = "command"
  /\ IF Sockets = {} \/ inst = NoInst
     THEN UNCHANGED <<inst, toAgent>>
     ELSE /\ inst' = [inst EXCEPT !.desired = DesiredFor(c, @)]
          /\ toAgent' = Sent(RunCommand(c), Sockets)
  /\ req' = [req EXCEPT ![r] = Idle]
  /\ UNCHANGED <<socket, toHub, agentVars, upgrading, served, faults>>

\* deleteInstance: every socket is closed and the record removed.
FinishDelete(r) ==
  /\ req[r].op = "delete"
  /\ inst' = NoInst
  /\ socket' = [c \in Conn |-> IF socket[c] = "free" THEN "free" ELSE "closing"]
  /\ req' = [req EXCEPT ![r] = Idle]
  /\ UNCHANGED <<netVars, agentVars, upgrading, served, faults>>

(***************************************************************************)
(* The agent's connection: upgrade, receive, send, lose.                   *)
(***************************************************************************)

\* Mutation: the agent waits for its channel to drain before it reconnects.
CheckUpgradeDrained ==
  /\ link = NoConn
  /\ ~upgrading
  /\ inst # NoInst
  /\ outbox = <<>>
  /\ upgrading' = TRUE
  /\ UNCHANGED <<hubVars, netVars, agentVars, req, served, faults>>

\* The Worker half of the upgrade: getInstance and the token comparison.
CheckUpgrade ==
  /\ link = NoConn
  /\ ~upgrading
  /\ inst # NoInst
  /\ upgrading' = TRUE
  /\ UNCHANGED <<hubVars, netVars, agentVars, req, served, faults>>

\* The hub half: acceptAgent does not look whether the instance still exists.
\* The agent sends Register as soon as it is connected.
AcceptAgent ==
  /\ upgrading
  /\ upgrading' = FALSE
  /\ \E c \in Conn :
       /\ socket[c] = "free"
       /\ socket' = [socket EXCEPT ![c] = "open"]
       /\ link' = c
       /\ toHub' = [toHub EXCEPT ![c] = <<Register>>]
  /\ UNCHANGED <<inst, toAgent, outbox, runner, req, served, faults>>

\* What rathole serves once a configuration is started.
Started(c) == IF c \in NoServices \cup {NoConfig} THEN Nothing ELSE c

\* Mutation: a running rathole is not restarted for a new configuration.
AppliedWithoutRestart(m) ==
  [config |-> m.config,
   live |-> IF m.desired = "stopped" THEN Nothing
            ELSE IF runner.live \in Config THEN runner.live ELSE Started(m.config)]

\* Runner::apply_config: both builders run before anything is assigned; then
\* rathole is stopped or restarted with what was built.
Applied(m) ==
  [config |-> m.config,
   live |-> IF m.desired = "stopped" THEN Nothing ELSE Started(m.config)]

\* Runner::start, stop and restart as the Command handler calls them.
Commanded(c) ==
  CASE c = "start" /\ runner.live \in {Nothing, Exited} ->
         [runner EXCEPT !.live = IF Started(runner.config) = Nothing
                                 THEN @ ELSE runner.config]
    [] c = "stop" -> [runner EXCEPT !.live = Nothing]
    [] c = "restart" -> [runner EXCEPT !.live = Started(runner.config)]
    [] OTHER -> runner

\* Mutation: a configuration the builders refuse is not acknowledged.
HandleHubMessageSilently(m) ==
  IF m.type = "command"
  THEN runner' = Commanded(m.command) /\ outbox' = outbox
  ELSE IF m.config \in Unreadable \cup Unbuildable
  THEN UNCHANGED <<runner, outbox>>
  ELSE runner' = Applied(m) /\ outbox' = Append(outbox, ConfigAck(TRUE))

\* handle_hub_message.  A message that does not deserialize is dropped without
\* an answer; a failed start of the HTTP proxy makes the ack negative although
\* rathole itself was started.
HandleHubMessage(m) ==
  IF m.type = "command"
  THEN runner' = Commanded(m.command) /\ outbox' = outbox
  ELSE IF m.config \in Unreadable
  THEN UNCHANGED <<runner, outbox>>
  ELSE IF m.config \in Unbuildable
  THEN runner' = runner /\ outbox' = Append(outbox, ConfigAck(FALSE))
  ELSE /\ runner' = Applied(m)
       /\ \E ok \in IF runner'.live = Nothing THEN {TRUE} ELSE BOOLEAN :
            outbox' = Append(outbox, ConfigAck(ok))

AgentReceive ==
  /\ link # NoConn
  /\ toAgent[link] # <<>>
  /\ HandleHubMessage(Head(toAgent[link]))
  /\ toAgent' = [toAgent EXCEPT ![link] = Tail(@)]
  /\ UNCHANGED <<hubVars, toHub, link, upgrading, req, served, faults>>

\* The other arm of the select loop: one queued message is written.
AgentSend ==
  /\ link # NoConn
  /\ outbox # <<>>
  /\ toHub' = [toHub EXCEPT ![link] = Append(@, Head(outbox))]
  /\ outbox' = Tail(outbox)
  /\ UNCHANGED <<hubVars, toAgent, link, upgrading, runner, req, served, faults>>

\* The hub's close frame follows everything it sent before.
AgentSeesClose ==
  /\ link # NoConn
  /\ socket[link] = "closing"
  /\ toAgent[link] = <<>>
  /\ link' = NoConn
  /\ UNCHANGED <<hubVars, netVars, upgrading, outbox, runner, req, served, faults>>

\* What the hub may still receive of a connection the agent has lost.
InFlight(q) == {SubSeq(q, 1, n) : n \in 0..Len(q)}

Unlink ==
  /\ link' = NoConn
  /\ toAgent' = IF link = NoConn THEN toAgent
                ELSE [toAgent EXCEPT ![link] = <<>>]
  /\ IF link = NoConn THEN toHub' = toHub
     ELSE \E q \in InFlight(toHub[link]) : toHub' = [toHub EXCEPT ![link] = q]

Fault == faults < MaxFaults /\ faults' = faults + 1

\* The connection fails under the agent.  A message already taken out of the
\* channel for a write that failed is gone.
AgentDrops ==
  /\ Fault
  /\ link # NoConn
  /\ Unlink
  /\ \/ UNCHANGED outbox
     \/ outbox # <<>> /\ outbox' = Tail(outbox)
  /\ UNCHANGED <<hubVars, upgrading, runner, req, served>>

\* The agent process restarts: rathole runs in the same process.
AgentRestarts ==
  /\ Fault
  /\ Unlink
  /\ outbox' = <<>>
  /\ runner' = [config |-> NoConfig, live |-> Nothing]
  /\ UNCHANGED <<hubVars, upgrading, req, served>>

\* The embedded rathole server returns by itself (a bind error, say); nothing
\* restarts it, refresh only records the error.
RatholeExits ==
  /\ Fault
  /\ runner.live \in Config
  /\ runner' = [runner EXCEPT !.live = Exited]
  /\ UNCHANGED <<hubVars, netVars, link, upgrading, outbox, req, served>>

(***************************************************************************)
(* The hub's WebSocket events.                                             *)
(***************************************************************************)

\* Mutation: a registration is recorded and no configuration is pushed.
HandleAgentMessageWithoutPush(c, m) ==
  /\ inst' = IF inst = NoInst THEN inst
             ELSE IF m.type = "register"
             THEN [inst EXCEPT !.status = "online",
                               !.desired = IF @ = "unset" THEN "running" ELSE @]
             ELSE [inst EXCEPT !.inSync = IF m.ok THEN "ok" ELSE "failed"]
  /\ UNCHANGED toAgent

\* handleAgentMessage.  Without a record nothing changes and the socket stays.
HandleAgentMessage(c, m) ==
  IF inst = NoInst THEN UNCHANGED <<inst, toAgent>>
  ELSE IF m.type = "register"
  THEN /\ inst' = [inst EXCEPT !.status = "online",
                               !.desired = IF @ = "unset" THEN "running" ELSE @]
       /\ toAgent' = Sent(ApplyConfig(inst'), {c})
  ELSE /\ inst' = [inst EXCEPT !.inSync = IF m.ok THEN "ok" ELSE "failed"]
       /\ UNCHANGED toAgent

HubReceive(c) ==
  /\ socket[c] # "free"
  /\ toHub[c] # <<>>
  /\ HandleAgentMessage(c, Head(toHub[c]))
  /\ toHub' = [toHub EXCEPT ![c] = Tail(@)]
  /\ UNCHANGED <<socket, agentVars, upgrading, req, served, faults>>

\* webSocketClose: only the last socket of the instance takes it offline.
HubClose(c) ==
  /\ socket[c] # "free"
  /\ link # c
  /\ toHub[c] = <<>>
  /\ inst' = IF inst # NoInst /\ Sockets = {c}
             THEN [inst EXCEPT !.status = "offline"] ELSE inst
  /\ socket' = [socket EXCEPT ![c] = "free"]
  /\ UNCHANGED <<netVars, agentVars, upgrading, req, served, faults>>

\* The Durable Object starts again on a new host: the constructor restores the
\* record from storage, every connection is gone and no handler ran for it.
HubRestarts ==
  /\ Fault
  /\ socket' = [c \in Conn |-> "free"]
  /\ toAgent' = [c \in Conn |-> <<>>]
  /\ toHub' = [c \in Conn |-> <<>>]
  /\ link' = NoConn
  /\ UNCHANGED <<inst, upgrading, outbox, runner, req, served>>

(***************************************************************************)
(* The specification.                                                      *)
(***************************************************************************)

\* An enrolled instance whose agent was never connected to this deployment; an
\* older panel stored no intent.
Init ==
  /\ inst \in [config : Config, desired : {"unset", "running"},
               status : {"offline"}, inSync : {"unset"}]
  /\ socket = [c \in Conn |-> "free"]
  /\ toAgent = [c \in Conn |-> <<>>]
  /\ toHub = [c \in Conn |-> <<>>]
  /\ link = NoConn
  /\ upgrading = FALSE
  /\ outbox = <<>>
  /\ runner = [config |-> NoConfig, live |-> Nothing]
  /\ req = [r \in Request |-> Idle]
  /\ served = 0
  /\ faults = 0

RestStep == \E r \in Request :
  BeginPut(r) \/ BeginCommand(r) \/ BeginDelete(r)
    \/ FinishPut(r) \/ FinishCommand(r) \/ FinishDelete(r)

AgentStep ==
  CheckUpgrade \/ AcceptAgent \/ AgentReceive \/ AgentSend \/ AgentSeesClose

HubStep == \E c \in Conn : HubReceive(c) \/ HubClose(c)

FaultStep == AgentDrops \/ AgentRestarts \/ RatholeExits \/ HubRestarts

Next == RestStep \/ AgentStep \/ HubStep \/ FaultStep

Spec == Init /\ [][Next]_vars

\* The platform delivers what it accepted (HubReceive, HubClose), a Worker
\* handler that made its first call makes its second, and the agent's
\* reconnect loop and select loop never give up.
Fairness ==
  /\ \A r \in Request : /\ WF_vars(FinishPut(r))
                        /\ WF_vars(FinishCommand(r))
                        /\ WF_vars(FinishDelete(r))
  /\ \A c \in Conn : WF_vars(HubReceive(c)) /\ WF_vars(HubClose(c))
  /\ WF_vars(CheckUpgrade) /\ WF_vars(AcceptAgent)
  /\ WF_vars(AgentReceive) /\ WF_vars(AgentSend) /\ WF_vars(AgentSeesClose)

FairSpec == Spec /\ Fairness

(***************************************************************************)
(* Properties.                                                             *)
(***************************************************************************)

\* Every variable keeps its type; in particular the record is only ever
\* replaced by a whole, well-formed one (updateInstance, persist).
TypeOK ==
  /\ inst \in Instance \cup {NoInst}
  /\ socket \in [Conn -> {"free", "open", "closing"}]
  /\ toAgent \in [Conn -> Seq(HubMessage)]
  /\ toHub \in [Conn -> Seq(AgentMessage)]
  /\ link \in Conn \cup {NoConn}
  /\ upgrading \in BOOLEAN
  /\ outbox \in Seq(AgentMessage)
  /\ runner \in Runner
  /\ req \in [Request -> RestRequest]
  /\ served \in Nat
  /\ faults \in Nat

Applicable(c) == c \notin Unreadable \cup Unbuildable

\* The agent's connection is accepted, its Register was handled and it has
\* read everything it was sent.
RegisterPending(c) == \E k \in 1..Len(toHub[c]) : toHub[c][k].type = "register"
Settled ==
  /\ inst # NoInst
  /\ link # NoConn
  /\ socket[link] = "open"
  /\ toAgent[link] = <<>>
  /\ ~RegisterPending(link)

\* rathole runs exactly when the record says so, with the record's services.
RunsAsWanted ==
  IF Wanted(inst) = "stopped" THEN runner.live = Nothing
  ELSE runner.live \in {Started(inst.config), Exited}

\* Whatever races between edits, commands, deletes, reconnects and restarts: an
\* agent that has caught up holds the configuration of the hub's record and
\* runs, or does not run, as the record says.
Agreement ==
  Settled /\ Applicable(inst.config) =>
    runner.config = inst.config /\ RunsAsWanted

\* What a message makes the agent do about running rathole.
IsApply(m) == m.type = "apply_config"
SetsIntent(m) == IsApply(m) \/ m.command \in {"start", "stop", "restart"}
Intends(m) == IF IsApply(m) THEN m.desired
              ELSE IF m.command = "stop" THEN "stopped" ELSE "running"

LastApply(q, k) ==
  k \in 1..Len(q) /\ IsApply(q[k]) /\ \A j \in (k+1)..Len(q) : ~IsApply(q[j])
LastIntent(q, k) ==
  k \in 1..Len(q) /\ SetsIntent(q[k]) /\ \A j \in (k+1)..Len(q) : ~SetsIntent(q[j])

\* A registered agent, caught up or not: the last configuration on its way to
\* it, or the one it holds, is the record's, and the same goes for the intent.
ChannelCarriesRecord ==
  inst # NoInst /\ link # NoConn /\ socket[link] = "open"
    /\ ~RegisterPending(link) /\ Applicable(inst.config)
  => LET q == toAgent[link] IN
     /\ \A k \in 1..Len(q) : LastApply(q, k) => q[k].config = inst.config
     /\ (\A k \in 1..Len(q) : ~IsApply(q[k])) => runner.config = inst.config
     /\ \A k \in 1..Len(q) : LastIntent(q, k) => Intends(q[k]) = Wanted(inst)
     /\ (\A k \in 1..Len(q) : ~SetsIntent(q[k])) => RunsAsWanted

\* rathole is never left running an earlier configuration than the runner's.
RunsHeldConfig == runner.live \in {Nothing, Exited, Started(runner.config)}

\* A caught-up agent's answer is never lost for good: when nothing is on its
\* way any more, the panel shows that the configuration was applied or that it
\* failed.  (A configuration the agent cannot read is not answered at all.)
PanelHearsBack ==
  /\ Settled
  /\ inst.config \notin Unreadable
  /\ outbox = <<>>
  /\ \A c \in Conn : toHub[c] = <<>>
  => inst.inSync # "unset"

\* Strengthening that makes the above inductive: what a request carries for its
\* second call was valid when its first call returned.
WellFormedRequests ==
  \A r \in Request :
    /\ req[r].op = "put" => req[r].snap \in Instance /\ req[r].config \in Config
    /\ req[r].op = "command" => req[r].command \in Command

\* The panel's out-of-date warning can be trusted when nothing is on its way:
\* "Whether the config on disk matches the config the panel expects".
InSyncIsTrue ==
  /\ Settled
  /\ outbox = <<>>
  /\ \A c \in Conn : toHub[c] = <<>>
  /\ inst.inSync = "ok"
  => runner.config = inst.config

\* Once requests and faults stop, the agent of an instance that still exists
\* reconnects, and from then on holds and runs what the record says.
Converges ==
  <>[]( inst # NoInst /\ Applicable(inst.config) =>
          link # NoConn /\ runner.config = inst.config /\ RunsAsWanted )

(***************************************************************************)
(* The abstract specification that this one implements.                    *)
(***************************************************************************)

\* The configurations on their way to the agent; a command has none.
Pending ==
  IF link = NoConn THEN <<>>
  ELSE [k \in 1..Len(toAgent[link]) |-> toAgent[link][k].config]

Rollout == INSTANCE DesiredState WITH
  Refusable <- Unreadable \cup Unbuildable,
  wish <- IF inst = NoInst THEN NoConfig ELSE inst.config,
  pending <- Pending,
  node <- runner.config

\* A node takes the configurations of the hub's record in the order in which
\* they were recorded or offered again at a registration, and each one it can,
\* whatever races and whatever is lost on the way.
FollowsRecord == Rollout!Spec

=============================================================================
