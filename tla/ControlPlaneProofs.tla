-------------------------- MODULE ControlPlaneProofs -------------------------
(***************************************************************************)
(* Proofs about ControlPlane, for any sets of configurations, requests and *)
(* connections and without the bounds.                                     *)
(*                                                                         *)
(* Agreement speaks of an agent that has read everything it was sent, and  *)
(* is not inductive: what the unread messages will make the agent do must  *)
(* be related to the record as well.  ChannelCarriesRecord does that: it   *)
(* follows the last configuration and the last intent in the channel.  It  *)
(* needs RunsHeldConfig for a start command, which leaves a running        *)
(* rathole alone.                                                          *)
(*                                                                         *)
(* The refinement of DesiredState needs, beside the types, that nothing is *)
(* left in the channel of a connection the agent does not use: a new       *)
(* connection would begin with old orders.  The panel's answer needs to be *)
(* followed on its way: it is still to be given, in the agent's channel,   *)
(* or on its way to the hub.                                               *)
(***************************************************************************)
EXTENDS ControlPlane, SequenceTheorems, TLAPS

IInv == TypeOK /\ WellFormedRequests /\ RunsHeldConfig /\ ChannelCarriesRecord

USE ConfigAssumption, NoConnAssumption

(***************************************************************************)
(* The channel to the agent as a queue.                                    *)
(***************************************************************************)

NoApplyIn(q) == \A k \in 1..Len(q) : ~IsApply(q[k])
NoIntentIn(q) == \A k \in 1..Len(q) : ~SetsIntent(q[k])

\* A configuration also says whether to run.
LEMMA ApplySetsIntent == \A m : IsApply(m) => SetsIntent(m)
BY DEF SetsIntent

\* Appending a configuration: it is the last one, and the last word on running.
LEMMA AppendApply ==
  ASSUME NEW q \in Seq(HubMessage), NEW m \in HubMessage, IsApply(m)
  PROVE  LET p == Append(q, m) IN
         /\ \A k : LastApply(p, k) \/ LastIntent(p, k) => p[k] = m
         /\ ~NoApplyIn(p) /\ ~NoIntentIn(p)
<1> DEFINE p == Append(q, m)
<1>1. Len(p) = Len(q) + 1 /\ p[Len(p)] = m /\ Len(p) \in 1..Len(p)
  OBVIOUS
<1>2. SetsIntent(p[Len(p)]) /\ IsApply(p[Len(p)])
  BY <1>1, ApplySetsIntent
<1>3. \A k \in 1..Len(p) : k = Len(p) \/ Len(p) \in (k+1)..Len(p)
  BY <1>1
<1> QED
  BY <1>1, <1>2, <1>3 DEF LastApply, LastIntent, NoApplyIn, NoIntentIn

\* Appending a command: the configurations in the channel are what they were.
LEMMA AppendCommand ==
  ASSUME NEW q \in Seq(HubMessage), NEW m \in HubMessage, ~IsApply(m)
  PROVE  LET p == Append(q, m) IN
         /\ \A k : LastApply(p, k) => LastApply(q, k) /\ p[k] = q[k]
         /\ NoApplyIn(p) => NoApplyIn(q)
         /\ SetsIntent(m) => /\ \A k : LastIntent(p, k) => p[k] = m
                             /\ ~NoIntentIn(p)
         /\ ~SetsIntent(m) => /\ \A k : LastIntent(p, k) => LastIntent(q, k) /\ p[k] = q[k]
                              /\ NoIntentIn(p) => NoIntentIn(q)
<1> DEFINE p == Append(q, m)
<1>1. /\ Len(p) = Len(q) + 1 /\ p[Len(p)] = m /\ Len(p) \in 1..Len(p)
      /\ \A k \in 1..Len(q) : k \in 1..Len(p) /\ p[k] = q[k]
      /\ \A k \in 1..Len(p) : k = Len(p) \/ k \in 1..Len(q)
      /\ \A k \in 1..Len(q) : \A j \in (k+1)..Len(q) : j \in (k+1)..Len(p) /\ p[j] = q[j]
  OBVIOUS
<1>2. \A k \in 1..Len(p) : k = Len(p) \/ Len(p) \in (k+1)..Len(p)
  BY <1>1
<1>3. /\ \A k : LastApply(p, k) => LastApply(q, k) /\ p[k] = q[k]
      /\ NoApplyIn(p) => NoApplyIn(q)
  BY <1>1 DEF LastApply, NoApplyIn
<1>4. SetsIntent(m) => (\A k : LastIntent(p, k) => p[k] = m) /\ ~NoIntentIn(p)
  BY <1>1, <1>2 DEF LastIntent, NoIntentIn
<1>5. ~SetsIntent(m) => /\ \A k : LastIntent(p, k) => LastIntent(q, k) /\ p[k] = q[k]
                        /\ NoIntentIn(p) => NoIntentIn(q)
  BY <1>1 DEF LastIntent, NoIntentIn
<1> QED
  BY <1>3, <1>4, <1>5

\* Reading the first message: the last ones of each kind stay last, unless the
\* one that was read was the only one.
LEMMA ReadHead ==
  ASSUME NEW q \in Seq(HubMessage), q # <<>>
  PROVE  LET p == Tail(q) IN
         /\ \A k : LastApply(p, k) => LastApply(q, k+1) /\ p[k] = q[k+1]
         /\ \A k : LastIntent(p, k) => LastIntent(q, k+1) /\ p[k] = q[k+1]
         /\ NoApplyIn(p) => IF IsApply(Head(q)) THEN LastApply(q, 1) ELSE NoApplyIn(q)
         /\ NoIntentIn(p) => IF SetsIntent(Head(q)) THEN LastIntent(q, 1) ELSE NoIntentIn(q)
         /\ NoIntentIn(p) => NoApplyIn(p)
<1> DEFINE p == Tail(q)
<1>1. /\ Len(q) \in Nat \ {0} /\ Len(p) = Len(q) - 1 /\ Head(q) = q[1]
      /\ \A k \in 1..Len(p) : p[k] = q[k+1]
  OBVIOUS
<1>2. /\ \A k \in 1..Len(p) : k+1 \in 1..Len(q)
      /\ \A k \in 1..Len(p) : \A j \in (k+2)..Len(q) : j-1 \in (k+1)..Len(p) /\ p[j-1] = q[j]
      /\ \A k \in 1..Len(q) : k = 1 \/ (k-1 \in 1..Len(p) /\ p[k-1] = q[k])
      /\ \A j \in (1+1)..Len(q) : j-1 \in 1..Len(p) /\ p[j-1] = q[j]
      /\ 1 \in 1..Len(q)
  BY <1>1
<1>3. \A k \in 1..Len(p) : (k+1)+1 = k+2
  OBVIOUS
<1>4. /\ \A k : LastApply(p, k) => LastApply(q, k+1) /\ p[k] = q[k+1]
      /\ \A k : LastIntent(p, k) => LastIntent(q, k+1) /\ p[k] = q[k+1]
  BY <1>1, <1>2, <1>3 DEF LastApply, LastIntent
<1>5. NoApplyIn(p) => IF IsApply(Head(q)) THEN LastApply(q, 1) ELSE NoApplyIn(q)
  <2> SUFFICES ASSUME NoApplyIn(p)
               PROVE  IF IsApply(Head(q)) THEN LastApply(q, 1) ELSE NoApplyIn(q)
    OBVIOUS
  <2>1. \A j \in (1+1)..Len(q) : ~IsApply(q[j])
    BY <1>2 DEF NoApplyIn
  <2>2. CASE IsApply(Head(q))
    BY <1>1, <1>2, <2>1, <2>2 DEF LastApply
  <2>3. CASE ~IsApply(Head(q))
    <3>1. \A k \in 1..Len(q) : ~IsApply(q[k])
      BY <1>1, <1>2, <2>3 DEF NoApplyIn
    <3> QED
      BY <2>3, <3>1 DEF NoApplyIn
  <2> QED
    BY <2>2, <2>3
<1>6. NoIntentIn(p) => IF SetsIntent(Head(q)) THEN LastIntent(q, 1) ELSE NoIntentIn(q)
  <2> SUFFICES ASSUME NoIntentIn(p)
               PROVE  IF SetsIntent(Head(q)) THEN LastIntent(q, 1) ELSE NoIntentIn(q)
    OBVIOUS
  <2>1. \A j \in (1+1)..Len(q) : ~SetsIntent(q[j])
    BY <1>2 DEF NoIntentIn
  <2>2. CASE SetsIntent(Head(q))
    BY <1>1, <1>2, <2>1, <2>2 DEF LastIntent
  <2>3. CASE ~SetsIntent(Head(q))
    <3>1. \A k \in 1..Len(q) : ~SetsIntent(q[k])
      BY <1>1, <1>2, <2>3 DEF NoIntentIn
    <3> QED
      BY <2>3, <3>1 DEF NoIntentIn
  <2> QED
    BY <2>2, <2>3
<1>7. NoIntentIn(p) => NoApplyIn(p)
  BY ApplySetsIntent DEF NoIntentIn, NoApplyIn
<1> QED
  BY <1>4, <1>5, <1>6, <1>7

(***************************************************************************)
(* Messages and types.                                                     *)
(***************************************************************************)

\* What the hub pushes carries the record's configuration and intent.
LEMMA ApplyConfigCarries ==
  ASSUME NEW i \in Instance
  PROVE  /\ ApplyConfig(i) \in HubMessage
         /\ IsApply(ApplyConfig(i))
         /\ ApplyConfig(i).config = i.config
         /\ Intends(ApplyConfig(i)) = Wanted(i)
BY DEF ApplyConfig, HubMessage, Instance, IsApply, Intends, Wanted

\* A command asks for what the hub stores as the intent.
LEMMA CommandCarries ==
  ASSUME NEW i \in Instance, NEW c \in Command
  PROVE  /\ RunCommand(c) \in HubMessage
         /\ ~IsApply(RunCommand(c))
         /\ DesiredFor(c, i.desired) \in Desired
         /\ SetsIntent(RunCommand(c)) =>
              Intends(RunCommand(c)) = Wanted([i EXCEPT !.desired = DesiredFor(c, @)])
         /\ ~SetsIntent(RunCommand(c)) => DesiredFor(c, i.desired) = i.desired
<1>1. i.desired \in Desired
  BY DEF Instance
<1>2. [i EXCEPT !.desired = DesiredFor(c, @)].desired = DesiredFor(c, i.desired)
  BY DEF Instance
<1>3. RunCommand(c) \in HubMessage
  BY DEF RunCommand, HubMessage
<1>4. CASE c = "stop"
  BY <1>1, <1>2, <1>3, <1>4
  DEF RunCommand, IsApply, DesiredFor, SetsIntent, Intends, Wanted, Desired
<1>5. CASE c \in {"start", "restart"}
  BY <1>1, <1>2, <1>3, <1>5
  DEF RunCommand, IsApply, DesiredFor, SetsIntent, Intends, Wanted, Desired
<1>6. CASE c = "status"
  BY <1>1, <1>2, <1>3, <1>6
  DEF RunCommand, IsApply, DesiredFor, SetsIntent, Intends, Wanted, Desired
<1> QED
  BY <1>4, <1>5, <1>6 DEF Command

\* safeSend appends to the agent's channel or does nothing.
LEMMA SentTo ==
  ASSUME TypeOK, NEW m \in HubMessage, NEW targets
  PROVE  /\ Sent(m, targets) \in [Conn -> Seq(HubMessage)]
         /\ \A c \in Conn : Sent(m, targets)[c] =
              IF c \in targets /\ socket[c] = "open" /\ link = c
              THEN Append(toAgent[c], m) ELSE toAgent[c]
BY DEF TypeOK, Sent

\* The requests of the Worker and the steps that only move the connection.
LEMMA RestTypes ==
  ASSUME IInv, RestStep
  PROVE  TypeOK' /\ WellFormedRequests'
<1>1. TypeOK /\ WellFormedRequests
  BY DEF IInv
<1>2. Idle \in RestRequest /\ Idle.op = "idle"
  BY DEF Idle, RestRequest
<1>3. ASSUME NEW r \in Request, NEW q \in RestRequest, Begin(r, q),
             q.op = "put" => q.snap \in Instance /\ q.config \in Config,
             q.op = "command" => q.command \in Command
      PROVE  TypeOK' /\ WellFormedRequests'
  BY <1>1, <1>3
  DEF TypeOK, WellFormedRequests, Begin, hubVars, netVars, agentVars
<1>4. ASSUME NEW r \in Request, BeginPut(r)
      PROVE  TypeOK' /\ WellFormedRequests'
  <2>1. PICK c \in Config \ Unbuildable :
          Begin(r, [op |-> "put", snap |-> inst, config |-> c, command |-> NoCommand])
    BY <1>4 DEF BeginPut
  <2>2. inst \in Instance
    BY <1>1, <2>1 DEF TypeOK, Begin
  <2> DEFINE q == [op |-> "put", snap |-> inst, config |-> c, command |-> NoCommand]
  <2>3. q \in RestRequest /\ q.op = "put" /\ q.snap = inst /\ q.config = c
    BY <2>2 DEF RestRequest
  <2> QED
    BY <1>3, <2>1, <2>2, <2>3
<1>5. ASSUME NEW r \in Request, BeginCommand(r)
      PROVE  TypeOK' /\ WellFormedRequests'
  <2>1. PICK c \in Command :
          Begin(r, [op |-> "command", snap |-> NoInst, config |-> NoConfig, command |-> c])
    BY <1>5 DEF BeginCommand
  <2> DEFINE q == [op |-> "command", snap |-> NoInst, config |-> NoConfig, command |-> c]
  <2>2. q \in RestRequest /\ q.op = "command" /\ q.command = c
    BY DEF RestRequest
  <2> QED
    BY <1>3, <2>1, <2>2
<1>6. ASSUME NEW r \in Request, BeginDelete(r)
      PROVE  TypeOK' /\ WellFormedRequests'
  <2> DEFINE q == [op |-> "delete", snap |-> NoInst, config |-> NoConfig,
                   command |-> NoCommand]
  <2>1. q \in RestRequest /\ q.op = "delete"
    BY DEF RestRequest
  <2> QED
    BY <1>3, <1>6, <2>1 DEF BeginDelete
<1>7. ASSUME NEW r \in Request, FinishPut(r)
      PROVE  TypeOK' /\ WellFormedRequests'
  <2>1. req[r].snap \in Instance /\ req[r].config \in Config
    BY <1>1, <1>7 DEF FinishPut, WellFormedRequests
  <2>2. inst' = [req[r].snap EXCEPT !.config = req[r].config]
    BY <1>7 DEF FinishPut
  <2>3. inst' \in Instance
    BY <2>1, <2>2 DEF Instance
  <2>4. toAgent' \in [Conn -> Seq(HubMessage)]
    BY <1>1, <1>7, <2>3, ApplyConfigCarries, SentTo DEF FinishPut
  <2> QED
    BY <1>1, <1>2, <1>7, <2>3, <2>4
    DEF TypeOK, WellFormedRequests, FinishPut, agentVars
<1>8. ASSUME NEW r \in Request, FinishCommand(r)
      PROVE  TypeOK' /\ WellFormedRequests'
  <2>1. req[r].command \in Command
    BY <1>1, <1>8 DEF FinishCommand, WellFormedRequests
  <2>2. inst' \in Instance \cup {NoInst} /\ toAgent' \in [Conn -> Seq(HubMessage)]
    <3>1. CASE Sockets = {} \/ inst = NoInst
      BY <1>1, <1>8, <3>1 DEF FinishCommand, TypeOK
    <3>2. CASE ~(Sockets = {} \/ inst = NoInst)
      <4>1. inst \in Instance
        BY <1>1, <3>2 DEF TypeOK
      <4>2. /\ inst' = [inst EXCEPT !.desired = DesiredFor(req[r].command, @)]
            /\ toAgent' = Sent(RunCommand(req[r].command), Sockets)
        BY <1>8, <3>2 DEF FinishCommand
      <4>3. inst' \in Instance
        BY <2>1, <4>1, <4>2, CommandCarries DEF Instance
      <4> QED
        BY <1>1, <2>1, <4>1, <4>2, <4>3, CommandCarries, SentTo
    <3> QED
      BY <3>1, <3>2
  <2> QED
    BY <1>1, <1>2, <1>8, <2>2
    DEF TypeOK, WellFormedRequests, FinishCommand, agentVars
<1>9. ASSUME NEW r \in Request, FinishDelete(r)
      PROVE  TypeOK' /\ WellFormedRequests'
  BY <1>1, <1>2, <1>9
  DEF TypeOK, WellFormedRequests, FinishDelete, agentVars, netVars
<1> QED
  BY <1>4, <1>5, <1>6, <1>7, <1>8, <1>9 DEF RestStep

\* What the agent's handler makes of the runner, and what it keeps.
LEMMA HandlerTypes ==
  ASSUME TypeOK, RunsHeldConfig, NEW m \in HubMessage, HandleHubMessage(m)
  PROVE  /\ runner' \in Runner
         /\ outbox' \in Seq(AgentMessage)
         /\ RunsHeldConfig'
<1>1. /\ \A ok \in BOOLEAN : ConfigAck(ok) \in AgentMessage
      /\ ConfigAck(FALSE) \in AgentMessage
  BY DEF ConfigAck, AgentMessage
<1>2. runner \in Runner /\ outbox \in Seq(AgentMessage)
  BY DEF TypeOK
<1>3. CASE m.type = "command"
  <2>1. runner' = Commanded(m.command) /\ outbox' = outbox
    BY <1>3 DEF HandleHubMessage
  <2>2. Commanded(m.command) \in Runner
    BY <1>2 DEF Commanded, Runner, Started
  <2>3. RunsHeldConfig'
    BY <1>2, <2>1 DEF Commanded, RunsHeldConfig, Runner, Started
  <2> QED
    BY <1>2, <2>1, <2>2, <2>3
<1>4. CASE m.type # "command"
  <2>1. m.config \in Config /\ m.desired \in {"running", "stopped"}
    BY <1>4 DEF HubMessage
  <2>2. CASE m.config \in Unreadable
    <3>1. runner' = runner /\ outbox' = outbox
      BY <1>4, <2>2 DEF HandleHubMessage
    <3> QED
      BY <1>2, <3>1 DEF RunsHeldConfig
  <2>3. CASE m.config \notin Unreadable /\ m.config \in Unbuildable
    <3>1. runner' = runner /\ outbox' = Append(outbox, ConfigAck(FALSE))
      BY <1>4, <2>3 DEF HandleHubMessage
    <3>2. \E a \in AgentMessage : outbox' = Append(outbox, a)
      BY <1>1, <3>1, Zenon
    <3>3. outbox' \in Seq(AgentMessage)
      BY <1>2, <3>2
    <3> QED
      BY <1>2, <3>1, <3>3 DEF RunsHeldConfig
  <2>4. CASE m.config \notin Unreadable /\ m.config \notin Unbuildable
    <3>1. /\ runner' = Applied(m)
          /\ \E ok \in BOOLEAN : outbox' = Append(outbox, ConfigAck(ok))
      BY <1>4, <2>4 DEF HandleHubMessage
    <3>2. Applied(m) \in Runner
      BY <2>1 DEF Applied, Runner, Started
    <3>3. RunsHeldConfig'
      BY <2>1, <3>1 DEF Applied, RunsHeldConfig, Started
    <3> QED
      BY <1>1, <1>2, <3>1, <3>2, <3>3
  <2> QED
    BY <2>2, <2>3, <2>4
<1> QED
  BY <1>3, <1>4

\* The agent's steps keep the types, and rathole on the configuration held.
LEMMA AgentTypes ==
  ASSUME IInv, AgentStep
  PROVE  TypeOK' /\ WellFormedRequests' /\ RunsHeldConfig'
<1>1. TypeOK /\ WellFormedRequests /\ RunsHeldConfig
  BY DEF IInv
<1>2. Register \in AgentMessage
  BY DEF Register, AgentMessage
<1>3. ASSUME UNCHANGED <<req, runner>>
      PROVE  WellFormedRequests' /\ RunsHeldConfig'
  BY <1>1, <1>3 DEF WellFormedRequests, RunsHeldConfig
<1>4. CASE CheckUpgrade
  BY <1>1, <1>3, <1>4 DEF CheckUpgrade, TypeOK, hubVars, netVars, agentVars
<1>5. CASE AcceptAgent
  <2>1. PICK c \in Conn :
          /\ socket' = [socket EXCEPT ![c] = "open"]
          /\ link' = c
          /\ toHub' = [toHub EXCEPT ![c] = <<Register>>]
    BY <1>5 DEF AcceptAgent
  <2>2. toHub' \in [Conn -> Seq(AgentMessage)]
    BY <1>1, <1>2, <2>1 DEF TypeOK
  <2> QED
    BY <1>1, <1>3, <1>5, <2>1, <2>2 DEF AcceptAgent, TypeOK
<1>6. CASE AgentReceive
  <2>1. /\ link \in Conn /\ toAgent[link] \in Seq(HubMessage) /\ toAgent[link] # <<>>
        /\ HandleHubMessage(Head(toAgent[link]))
        /\ toAgent' = [toAgent EXCEPT ![link] = Tail(@)]
        /\ UNCHANGED <<hubVars, toHub, link, upgrading, req, served, faults>>
    BY <1>1, <1>6 DEF AgentReceive, TypeOK
  <2>2. Head(toAgent[link]) \in HubMessage /\ Tail(toAgent[link]) \in Seq(HubMessage)
    BY <2>1
  <2>3. runner' \in Runner /\ outbox' \in Seq(AgentMessage) /\ RunsHeldConfig'
    BY <1>1, <2>1, <2>2, HandlerTypes
  <2>4. toAgent' \in [Conn -> Seq(HubMessage)]
    BY <1>1, <2>1, <2>2 DEF TypeOK
  <2> QED
    BY <1>1, <2>1, <2>3, <2>4 DEF TypeOK, hubVars, WellFormedRequests
<1>7. CASE AgentSend
  <2>1. /\ link \in Conn /\ outbox \in Seq(AgentMessage) /\ outbox # <<>>
        /\ toHub' = [toHub EXCEPT ![link] = Append(@, Head(outbox))]
        /\ outbox' = Tail(outbox)
    BY <1>1, <1>7 DEF AgentSend, TypeOK
  <2>2. Head(outbox) \in AgentMessage /\ Tail(outbox) \in Seq(AgentMessage)
    BY <2>1
  <2>3. toHub' \in [Conn -> Seq(AgentMessage)]
    BY <1>1, <2>1, <2>2 DEF TypeOK
  <2> QED
    BY <1>1, <1>3, <1>7, <2>1, <2>2, <2>3 DEF AgentSend, TypeOK, hubVars
<1>8. CASE AgentSeesClose
  BY <1>1, <1>3, <1>8 DEF AgentSeesClose, TypeOK, hubVars, netVars
<1> QED
  BY <1>4, <1>5, <1>6, <1>7, <1>8 DEF AgentStep

\* The hub's WebSocket handlers keep the types.
LEMMA HubTypes ==
  ASSUME IInv, HubStep
  PROVE  TypeOK' /\ WellFormedRequests'
<1>1. TypeOK /\ WellFormedRequests
  BY DEF IInv
<1>2. ASSUME NEW c \in Conn, HubReceive(c)
      PROVE  TypeOK' /\ WellFormedRequests'
  <2> DEFINE m == Head(toHub[c])
  <2>1. /\ toHub[c] \in Seq(AgentMessage) /\ toHub[c] # <<>>
        /\ HandleAgentMessage(c, m)
        /\ toHub' = [toHub EXCEPT ![c] = Tail(@)]
        /\ UNCHANGED <<socket, agentVars, upgrading, req, served, faults>>
    BY <1>1, <1>2 DEF HubReceive, TypeOK
  <2>2. Tail(toHub[c]) \in Seq(AgentMessage)
    BY <2>1
  <2>3. toHub' \in [Conn -> Seq(AgentMessage)]
    BY <1>1, <2>1, <2>2 DEF TypeOK
  <2>4. inst' \in Instance \cup {NoInst} /\ toAgent' \in [Conn -> Seq(HubMessage)]
    <3>1. CASE inst = NoInst
      BY <1>1, <2>1, <3>1 DEF HandleAgentMessage, TypeOK
    <3>2. CASE inst # NoInst /\ m.type = "register"
      <4>1. inst \in Instance
        BY <1>1, <3>2 DEF TypeOK
      <4>2. inst' \in Instance /\ toAgent' = Sent(ApplyConfig(inst'), {c})
        BY <2>1, <3>2, <4>1 DEF HandleAgentMessage, Instance, Desired
      <4> QED
        BY <1>1, <4>2, ApplyConfigCarries, SentTo
    <3>3. CASE inst # NoInst /\ m.type # "register"
      <4>1. inst \in Instance
        BY <1>1, <3>3 DEF TypeOK
      <4>2. inst' \in Instance /\ toAgent' = toAgent
        BY <2>1, <3>3, <4>1 DEF HandleAgentMessage, Instance
      <4> QED
        BY <1>1, <4>2 DEF TypeOK
    <3> QED
      BY <3>1, <3>2, <3>3
  <2> QED
    BY <1>1, <2>1, <2>3, <2>4 DEF TypeOK, WellFormedRequests, agentVars
<1>3. ASSUME NEW c \in Conn, HubClose(c)
      PROVE  TypeOK' /\ WellFormedRequests'
  <2>1. inst' \in Instance \cup {NoInst}
    BY <1>1, <1>3 DEF HubClose, TypeOK, Instance
  <2>2. socket' \in [Conn -> {"free", "open", "closing"}]
    BY <1>1, <1>3 DEF HubClose, TypeOK
  <2> QED
    BY <1>1, <1>3, <2>1, <2>2
    DEF HubClose, TypeOK, WellFormedRequests, netVars, agentVars
<1> QED
  BY <1>2, <1>3 DEF HubStep

\* Faults keep the types.
LEMMA FaultTypes ==
  ASSUME IInv, FaultStep
  PROVE  TypeOK' /\ WellFormedRequests' /\ link' \in {link, NoConn}
<1>1. TypeOK /\ WellFormedRequests
  BY DEF IInv
<1>2. ASSUME Unlink
      PROVE  /\ link' = NoConn
             /\ toAgent' \in [Conn -> Seq(HubMessage)]
             /\ toHub' \in [Conn -> Seq(AgentMessage)]
  <2>1. link' = NoConn /\ toAgent' \in [Conn -> Seq(HubMessage)]
    BY <1>1, <1>2 DEF Unlink, TypeOK
  <2>2. CASE link = NoConn
    BY <1>1, <1>2, <2>1, <2>2 DEF Unlink, TypeOK
  <2>3. CASE link # NoConn
    <3>1. toHub[link] \in Seq(AgentMessage)
      BY <1>1, <2>3 DEF TypeOK
    <3>2. \A n \in 0..Len(toHub[link]) : SubSeq(toHub[link], 1, n) \in Seq(AgentMessage)
      BY <3>1, SubSeqProperties
    <3>3. PICK n \in 0..Len(toHub[link]) :
            toHub' = [toHub EXCEPT ![link] = SubSeq(toHub[link], 1, n)]
      BY <1>2, <2>3 DEF Unlink, InFlight
    <3> QED
      BY <1>1, <2>1, <3>2, <3>3 DEF TypeOK
  <2> QED
    BY <2>2, <2>3
<1>3. ASSUME Fault
      PROVE  faults' \in Nat
  BY <1>1, <1>3 DEF Fault, TypeOK
<1>4. CASE AgentDrops
  <2>1. outbox \in Seq(AgentMessage)
    BY <1>1 DEF TypeOK
  <2>2. outbox' = outbox \/ (outbox # <<>> /\ outbox' = Tail(outbox))
    BY <1>4 DEF AgentDrops
  <2>3. outbox' \in Seq(AgentMessage)
    BY <2>1, <2>2
  <2> QED
    BY <1>1, <1>2, <1>3, <1>4, <2>3 DEF AgentDrops, TypeOK, WellFormedRequests, hubVars
<1>5. CASE AgentRestarts
  BY <1>1, <1>2, <1>3, <1>5 DEF AgentRestarts, TypeOK, WellFormedRequests, hubVars, Runner
<1>6. CASE RatholeExits
  BY <1>1, <1>3, <1>6
  DEF RatholeExits, TypeOK, WellFormedRequests, hubVars, netVars, Runner
<1>7. CASE HubRestarts
  BY <1>1, <1>3, <1>7 DEF HubRestarts, TypeOK, WellFormedRequests
<1> QED
  BY <1>4, <1>5, <1>6, <1>7 DEF FaultStep, AgentDrops, AgentRestarts, RatholeExits,
                                HubRestarts, Unlink

\* Nobody but the agent's handler, a restart and rathole itself touch the runner.
LEMMA HeldStep ==
  ASSUME IInv, Next
  PROVE  RunsHeldConfig'
<1>1. RunsHeldConfig
  BY DEF IInv
<1>2. ASSUME UNCHANGED runner
      PROVE  RunsHeldConfig'
  BY <1>1, <1>2 DEF RunsHeldConfig
<1>3. CASE AgentStep
  BY <1>3, AgentTypes
<1>4. CASE RestStep
  BY <1>2, <1>4 DEF RestStep, BeginPut, BeginCommand, BeginDelete, Begin, FinishPut,
                    FinishCommand, FinishDelete, agentVars
<1>5. CASE HubStep
  BY <1>2, <1>5 DEF HubStep, HubReceive, HubClose, agentVars
<1>6. CASE FaultStep
  <2>1. runner' = [config |-> NoConfig, live |-> Nothing] => RunsHeldConfig'
    BY DEF RunsHeldConfig
  <2>2. runner' = [runner EXCEPT !.live = Exited] /\ TypeOK => RunsHeldConfig'
    BY DEF RunsHeldConfig, TypeOK, Runner
  <2> QED
    BY <1>2, <1>6, <2>1, <2>2
    DEF FaultStep, AgentDrops, AgentRestarts, RatholeExits, HubRestarts, IInv
<1> QED
  BY <1>3, <1>4, <1>5, <1>6 DEF Next

(***************************************************************************)
(* The channel carries the record.                                         *)
(***************************************************************************)

\* RunsAsWanted and the conclusion of ChannelCarriesRecord for any record,
\* runner and queue.
RunsAs(i, run) ==
  IF Wanted(i) = "stopped" THEN run.live = Nothing
  ELSE run.live \in {Started(i.config), Exited}

Carries(q, i, run) ==
  /\ \A k : LastApply(q, k) => q[k].config = i.config
  /\ NoApplyIn(q) => run.config = i.config
  /\ \A k : LastIntent(q, k) => Intends(q[k]) = Wanted(i)
  /\ NoIntentIn(q) => RunsAs(i, run)

\* The agent is registered over an open connection, and can apply the record.
Registered ==
  /\ inst # NoInst
  /\ link # NoConn
  /\ socket[link] = "open"
  /\ ~RegisterPending(link)
  /\ Applicable(inst.config)

\* A push makes the channel carry the record whatever was in it.
LEMMA PushCarries ==
  ASSUME NEW i \in Instance, NEW q \in Seq(HubMessage), NEW run
  PROVE  Carries(Append(q, ApplyConfig(i)), i, run)
<1> DEFINE m == ApplyConfig(i)
<1>1. m \in HubMessage /\ IsApply(m) /\ m.config = i.config /\ Intends(m) = Wanted(i)
  BY ApplyConfigCarries
<1> HIDE DEF m
<1>2. /\ \A k : LastApply(Append(q, m), k) \/ LastIntent(Append(q, m), k)
               => Append(q, m)[k] = m
      /\ ~NoApplyIn(Append(q, m)) /\ ~NoIntentIn(Append(q, m))
  BY <1>1, AppendApply
<1>3. Carries(Append(q, m), i, run)
  BY <1>1, <1>2 DEF Carries
<1> QED
  BY <1>3 DEF m

\* A command that asks for the intent of the new record j, or that leaves the
\* intent alone, keeps the channel carrying the record.
LEMMA CommandKeepsCarrying ==
  ASSUME NEW i, NEW j, NEW q \in Seq(HubMessage), NEW m \in HubMessage, NEW run,
         Carries(q, i, run), ~IsApply(m), j.config = i.config,
         SetsIntent(m) => Intends(m) = Wanted(j),
         ~SetsIntent(m) => j.desired = i.desired
  PROVE  Carries(Append(q, m), j, run)
<1> DEFINE p == Append(q, m)
<1>1. /\ \A k : LastApply(p, k) => LastApply(q, k) /\ p[k] = q[k]
      /\ NoApplyIn(p) => NoApplyIn(q)
      /\ SetsIntent(m) => (\A k : LastIntent(p, k) => p[k] = m) /\ ~NoIntentIn(p)
      /\ ~SetsIntent(m) => /\ \A k : LastIntent(p, k) => LastIntent(q, k) /\ p[k] = q[k]
                           /\ NoIntentIn(p) => NoIntentIn(q)
  BY AppendCommand
<1> HIDE DEF p
<1>2. ~SetsIntent(m) => Wanted(j) = Wanted(i) /\ (RunsAs(i, run) => RunsAs(j, run))
  BY DEF Wanted, RunsAs
<1>3. (\A k : LastApply(p, k) => p[k].config = j.config) /\ (NoApplyIn(p) => run.config = j.config)
  BY <1>1 DEF Carries
<1>4. \A k : LastIntent(p, k) => Intends(p[k]) = Wanted(j)
  <2>1. CASE SetsIntent(m)
    BY <1>1, <2>1
  <2>2. CASE ~SetsIntent(m)
    BY <1>1, <1>2, <2>2 DEF Carries
  <2> QED
    BY <2>1, <2>2
<1>5. NoIntentIn(p) => RunsAs(j, run)
  <2>1. CASE SetsIntent(m)
    BY <1>1, <2>1
  <2>2. CASE ~SetsIntent(m)
    BY <1>1, <1>2, <2>2 DEF Carries
  <2> QED
    BY <2>1, <2>2
<1>6. Carries(p, j, run)
  BY <1>3, <1>4, <1>5 DEF Carries
<1> QED
  BY <1>6 DEF p

\* sendCommand changes the intent in the record and in the channel together.
LEMMA CommandCarriesOn ==
  ASSUME NEW i \in Instance, NEW q \in Seq(HubMessage), NEW run, NEW c \in Command,
         Carries(q, i, run),
         NEW j, j = [i EXCEPT !.desired = DesiredFor(c, @)]
  PROVE  Carries(Append(q, RunCommand(c)), j, run)
<1>1. /\ RunCommand(c) \in HubMessage /\ ~IsApply(RunCommand(c))
      /\ SetsIntent(RunCommand(c)) => Intends(RunCommand(c)) = Wanted(j)
      /\ ~SetsIntent(RunCommand(c)) => DesiredFor(c, i.desired) = i.desired
  BY CommandCarries
<1>2. j.config = i.config /\ j.desired = DesiredFor(c, i.desired)
  BY DEF Instance
<1> QED
  BY <1>1, <1>2, CommandKeepsCarrying

\* Reading an element q[1] that is the last of its kind: an apply_config leaves
\* the agent as the record wants it, and so does a command, given that rathole
\* never runs anything but the configuration held.
LEMMA Received ==
  ASSUME NEW q \in Seq(HubMessage), q # <<>>, NEW i \in Instance, Applicable(i.config),
         TypeOK, RunsHeldConfig, Carries(q, i, runner), HandleHubMessage(Head(q))
  PROVE  Carries(Tail(q), i, runner')
<1> DEFINE p == Tail(q)
           h == Head(q)
<1>1. /\ \A k : LastApply(p, k) => LastApply(q, k+1) /\ p[k] = q[k+1]
      /\ \A k : LastIntent(p, k) => LastIntent(q, k+1) /\ p[k] = q[k+1]
      /\ NoApplyIn(p) => IF IsApply(h) THEN LastApply(q, 1) ELSE NoApplyIn(q)
      /\ NoIntentIn(p) => IF SetsIntent(h) THEN LastIntent(q, 1) ELSE NoIntentIn(q)
      /\ NoIntentIn(p) => NoApplyIn(p)
  BY ReadHead
<1>2. h = q[1] /\ h \in HubMessage
  BY HeadTailProperties
<1>3. (\A k : LastApply(p, k) => p[k].config = i.config)
        /\ (\A k : LastIntent(p, k) => Intends(p[k]) = Wanted(i))
  BY <1>1 DEF Carries
<1>4. /\ NoApplyIn(p) /\ IsApply(h) => h.config = i.config
      /\ NoApplyIn(p) /\ ~IsApply(h) => runner.config = i.config
      /\ NoIntentIn(p) /\ SetsIntent(h) => Intends(h) = Wanted(i)
      /\ NoIntentIn(p) /\ ~SetsIntent(h) => RunsAs(i, runner)
      /\ NoIntentIn(p) => NoApplyIn(p)
  BY <1>1, <1>2 DEF Carries
<1> HIDE DEF p, h
<1>5. runner \in Runner /\ (h.type = "command" \/ h.type = "apply_config")
  BY <1>2 DEF TypeOK, HubMessage
<1>6. CASE h.type = "command"
  <2>1. runner' = Commanded(h.command) /\ ~IsApply(h) /\ h.command \in Command
    BY <1>2, <1>6 DEF HandleHubMessage, HubMessage, IsApply, h
  <2>2. runner'.config = runner.config
    BY <1>5, <2>1 DEF Commanded, Runner
  <2>3. ASSUME NoIntentIn(p)
        PROVE  RunsAs(i, runner')
    <3>1. runner.config = i.config
      BY <1>4, <2>1, <2>3
    <3>2. CASE h.command = "stop"
      <4>1. runner'.live = Nothing
        BY <1>5, <2>1, <3>2 DEF Commanded, Runner
      <4>2. Wanted(i) = "stopped"
        BY <1>4, <2>1, <2>3, <3>2 DEF SetsIntent, Intends
      <4> QED
        BY <4>1, <4>2 DEF RunsAs
    <3>3. CASE h.command \in {"start", "restart"}
      <4>1. Wanted(i) = "running"
        BY <1>4, <2>1, <2>3, <3>3 DEF SetsIntent, Intends
      <4>2. runner'.live \in {Started(i.config), Exited}
        BY <1>5, <2>1, <3>1, <3>3 DEF Commanded, Runner, RunsHeldConfig, Started
      <4> QED
        BY <4>1, <4>2 DEF RunsAs
    <3>4. CASE h.command = "status"
      <4>1. runner' = runner
        BY <2>1, <3>4 DEF Commanded
      <4>2. ~SetsIntent(h)
        BY <2>1, <3>4 DEF SetsIntent
      <4> QED
        BY <1>4, <2>3, <4>1, <4>2
    <3> QED
      BY <2>1, <3>2, <3>3, <3>4 DEF Command
  <2> QED
    BY <1>3, <1>4, <2>1, <2>2, <2>3 DEF Carries, p
<1>7. CASE h.type = "apply_config"
  <2>1. IsApply(h) /\ SetsIntent(h) /\ Intends(h) = h.desired
    BY <1>7 DEF IsApply, SetsIntent, Intends
  <2>2. ASSUME NoApplyIn(p)
        PROVE  runner'.config = i.config
    <3>1. runner' = Applied(h)
      BY <1>4, <1>7, <2>1, <2>2 DEF HandleHubMessage, Applicable, h
    <3> QED
      BY <1>4, <2>1, <2>2, <3>1 DEF Applied
  <2>3. ASSUME NoIntentIn(p)
        PROVE  RunsAs(i, runner')
    <3>1. runner' = Applied(h) /\ h.config = i.config /\ h.desired = Wanted(i)
      BY <1>4, <1>7, <2>1, <2>3 DEF HandleHubMessage, Applicable, h
    <3> QED
      BY <3>1 DEF Applied, RunsAs, Wanted
  <2> QED
    BY <1>3, <2>2, <2>3 DEF Carries, p
<1> QED
  BY <1>5, <1>6, <1>7 DEF p

\* ChannelCarriesRecord in the terms used here, before and after a step.
LEMMA Restated ==
  /\ ChannelCarriesRecord <=> (Registered => Carries(toAgent[link], inst, runner))
  /\ ChannelCarriesRecord' <=> (Registered' => Carries(toAgent'[link'], inst', runner'))
<1>1. \A q : /\ \A k : LastApply(q, k) => k \in 1..Len(q)
             /\ \A k : LastIntent(q, k) => k \in 1..Len(q)
  BY DEF LastApply, LastIntent
<1>2. /\ RunsAsWanted <=> RunsAs(inst, runner)
      /\ RunsAsWanted' <=> RunsAs(inst', runner')
  BY DEF RunsAsWanted, RunsAs
<1>3. ChannelCarriesRecord <=> (Registered => Carries(toAgent[link], inst, runner))
  BY <1>1, <1>2 DEF ChannelCarriesRecord, Registered, Carries, NoApplyIn, NoIntentIn
<1>4. ChannelCarriesRecord' <=> (Registered' => Carries(toAgent'[link'], inst', runner'))
  BY <1>1, <1>2 DEF ChannelCarriesRecord, Registered, Carries, NoApplyIn, NoIntentIn
<1> QED
  BY <1>3, <1>4

\* A step that leaves the channel, the runner and what the record wants alone.
LEMMA QuietStep ==
  ASSUME ChannelCarriesRecord,
         Registered' => /\ Registered /\ link' = link /\ runner' = runner
                        /\ toAgent'[link] = toAgent[link]
                        /\ inst'.config = inst.config /\ Wanted(inst') = Wanted(inst)
  PROVE  ChannelCarriesRecord'
<1>1. Registered' => Carries(toAgent[link], inst, runner)
  BY Restated
<1>2. \A q, i, j, run : Carries(q, i, run) /\ j.config = i.config /\ Wanted(j) = Wanted(i)
                          => Carries(q, j, run)
  BY DEF Carries, RunsAs
<1>3. Registered' => Carries(toAgent'[link'], inst', runner')
  BY <1>1, <1>2
<1> QED
  BY <1>3, Restated

\* The Worker's requests: an edit pushes what it stored, a command is sent with
\* the intent it stored, and a delete leaves no record.
LEMMA ChannelRest ==
  ASSUME IInv, RestStep
  PROVE  ChannelCarriesRecord'
<1>1. TypeOK /\ WellFormedRequests /\ ChannelCarriesRecord /\ TypeOK'
  BY RestTypes DEF IInv
<1> PICK r \in Request : BeginPut(r) \/ BeginCommand(r) \/ BeginDelete(r)
                           \/ FinishPut(r) \/ FinishCommand(r) \/ FinishDelete(r)
  BY DEF RestStep
<1>2. CASE BeginPut(r) \/ BeginCommand(r) \/ BeginDelete(r)
  <2>1. UNCHANGED <<inst, socket, toAgent, toHub, link, runner>>
    BY <1>2 DEF BeginPut, BeginCommand, BeginDelete, Begin, hubVars, netVars, agentVars
  <2> QED
    BY <1>1, <2>1, QuietStep DEF Registered, RegisterPending
<1>3. ASSUME FinishPut(r), Registered'
      PROVE  Carries(toAgent'[link'], inst', runner')
  <2>1. /\ toAgent' = Sent(ApplyConfig(inst'), Sockets)
        /\ link' = link /\ socket' = socket
        /\ link \in Conn /\ link \in Sockets /\ socket[link] = "open"
        /\ inst' \in Instance
    BY <1>1, <1>3 DEF FinishPut, agentVars, Registered, Sockets, TypeOK
  <2>2. ApplyConfig(inst') \in HubMessage
    BY <2>1, ApplyConfigCarries
  <2>3. toAgent'[link'] = Append(toAgent[link], ApplyConfig(inst'))
    BY <1>1, <2>1, <2>2, SentTo
  <2> QED
    BY <1>1, <2>1, <2>3, PushCarries DEF TypeOK
<1>4. ASSUME FinishCommand(r), Registered'
      PROVE  Carries(toAgent'[link'], inst', runner')
  <2> DEFINE c == req[r].command
  <2>1. link' = link /\ socket' = socket /\ runner' = runner /\ toHub' = toHub
        /\ c \in Command
    BY <1>1, <1>4 DEF FinishCommand, agentVars, WellFormedRequests
  <2>2. CASE Sockets = {} \/ inst = NoInst
    <3>1. inst' = inst /\ toAgent' = toAgent
      BY <1>4, <2>2 DEF FinishCommand
    <3>2. Registered
      BY <1>4, <2>1, <3>1 DEF Registered, RegisterPending
    <3>3. Carries(toAgent[link], inst, runner)
      BY <1>1, <3>2, Restated
    <3> QED
      BY <2>1, <3>1, <3>3
  <2>3. CASE ~(Sockets = {} \/ inst = NoInst)
    <3>1. /\ inst' = [inst EXCEPT !.desired = DesiredFor(c, @)]
          /\ toAgent' = Sent(RunCommand(c), Sockets)
          /\ inst \in Instance
      BY <1>1, <1>4, <2>3 DEF FinishCommand, TypeOK
    <3>2. inst'.config = inst.config
      BY <3>1 DEF Instance
    <3>3. Registered /\ link \in Conn /\ link \in Sockets /\ socket[link] = "open"
      BY <1>1, <1>4, <2>1, <2>3, <3>2 DEF Registered, RegisterPending, Sockets, TypeOK
    <3>4. Carries(toAgent[link], inst, runner)
      BY <1>1, <3>3, Restated
    <3>5. RunCommand(c) \in HubMessage
      BY <2>1, <3>1, CommandCarries
    <3>6. toAgent'[link'] = Append(toAgent[link], RunCommand(c))
      BY <1>1, <2>1, <3>1, <3>3, <3>5, SentTo
    <3>7. toAgent[link] \in Seq(HubMessage)
      BY <1>1, <3>3 DEF TypeOK
    <3>8. Carries(Append(toAgent[link], RunCommand(c)), inst', runner)
      BY <2>1, <3>1, <3>4, <3>7, CommandCarriesOn
    <3> QED
      BY <2>1, <3>6, <3>8
  <2> QED
    BY <2>2, <2>3
<1>5. FinishDelete(r) => ~Registered'
  BY DEF FinishDelete, Registered
<1> QED
  BY <1>2, <1>3, <1>4, <1>5, Restated

\* The agent: a new connection is not registered, reading is Received, and
\* sending adds to the other direction only.
LEMMA ChannelAgent ==
  ASSUME IInv, AgentStep
  PROVE  ChannelCarriesRecord'
<1>1. TypeOK /\ RunsHeldConfig /\ ChannelCarriesRecord
  BY DEF IInv
<1>2. CASE CheckUpgrade
  BY <1>1, <1>2, QuietStep
  DEF CheckUpgrade, hubVars, netVars, agentVars, Registered, RegisterPending
<1>3. CASE AcceptAgent
  <2>1. PICK c \in Conn : link' = c /\ toHub' = [toHub EXCEPT ![c] = <<Register>>]
    BY <1>3 DEF AcceptAgent
  <2>2. toHub'[link'] = <<Register>>
    BY <1>1, <2>1 DEF TypeOK
  <2>3. Len(<<Register>>) = 1 /\ <<Register>>[1] = Register /\ Register.type = "register"
    BY DEF Register
  <2>4. RegisterPending(link)'
    BY <2>2, <2>3 DEF RegisterPending
  <2> QED
    BY <2>4, Restated DEF Registered
<1>4. CASE AgentReceive
  <2>1. /\ inst' = inst /\ socket' = socket /\ toHub' = toHub /\ link' = link
        /\ link \in Conn /\ toAgent[link] # <<>>
        /\ HandleHubMessage(Head(toAgent[link]))
        /\ toAgent'[link] = Tail(toAgent[link])
        /\ toAgent[link] \in Seq(HubMessage)
    BY <1>1, <1>4 DEF AgentReceive, hubVars, TypeOK
  <2>2. ASSUME Registered'
        PROVE  Carries(toAgent'[link'], inst', runner')
    <3>1. Registered
      BY <2>1, <2>2 DEF Registered, RegisterPending
    <3>2. Carries(toAgent[link], inst, runner)
      BY <1>1, <3>1, Restated
    <3>3. inst \in Instance /\ Applicable(inst.config)
      BY <1>1, <3>1 DEF TypeOK, Registered
    <3>4. Carries(Tail(toAgent[link]), inst, runner')
      BY <1>1, <2>1, <3>2, <3>3, Received
    <3> QED
      BY <2>1, <3>4
  <2> QED
    BY <2>2, Restated
<1>5. CASE AgentSend
  <2>1. /\ inst' = inst /\ socket' = socket /\ toAgent' = toAgent /\ link' = link
        /\ runner' = runner /\ link \in Conn /\ outbox # <<>>
        /\ toHub'[link] = Append(toHub[link], Head(outbox))
        /\ toHub[link] \in Seq(AgentMessage) /\ outbox \in Seq(AgentMessage)
    BY <1>1, <1>5 DEF AgentSend, hubVars, TypeOK
  <2>2. Head(outbox) \in AgentMessage
    BY <2>1, HeadTailProperties
  <2>3. /\ Len(toHub'[link]) = Len(toHub[link]) + 1
        /\ \A k \in 1..Len(toHub[link]) : toHub'[link][k] = toHub[link][k]
    BY <2>1, <2>2
  <2>4. RegisterPending(link) => RegisterPending(link)'
    BY <2>1, <2>3 DEF RegisterPending
  <2>5. Registered' => Registered
    BY <2>1, <2>4 DEF Registered
  <2> QED
    BY <1>1, <2>1, <2>5, QuietStep
<1>6. CASE AgentSeesClose
  BY <1>6, Restated DEF AgentSeesClose, Registered
<1> QED
  BY <1>2, <1>3, <1>4, <1>5, <1>6 DEF AgentStep

\* The hub: a registration is answered by a push to its socket and changes
\* nothing the record wants, an answer only its in-sync flag, and a close, of a
\* connection the agent no longer uses, only its status.
LEMMA ChannelHub ==
  ASSUME IInv, HubStep
  PROVE  ChannelCarriesRecord'
<1>1. TypeOK /\ ChannelCarriesRecord /\ TypeOK'
  BY HubTypes DEF IInv
<1> PICK c \in Conn : HubReceive(c) \/ HubClose(c)
  BY DEF HubStep
<1>2. CASE HubClose(c)
  <2>1. /\ UNCHANGED <<toAgent, toHub, link, runner>> /\ link # c
        /\ inst' = (IF inst # NoInst /\ Sockets = {c}
                    THEN [inst EXCEPT !.status = "offline"] ELSE inst)
        /\ socket' = [socket EXCEPT ![c] = "free"]
    BY <1>2 DEF HubClose, netVars, agentVars
  <2>2. inst \in Instance => inst'.config = inst.config /\ inst'.desired = inst.desired
    BY <2>1 DEF Instance
  <2>3. Registered' => inst # NoInst
    BY <2>1 DEF Registered
  <2>4. Registered' => inst'.config = inst.config /\ Wanted(inst') = Wanted(inst)
    BY <1>1, <2>2, <2>3 DEF TypeOK, Wanted
  <2>5. Registered' => Registered
    BY <1>1, <2>1, <2>3, <2>4 DEF Registered, RegisterPending, TypeOK
  <2> QED
    BY <1>1, <2>1, <2>4, <2>5, QuietStep
<1>3. CASE HubReceive(c)
  <2> DEFINE m == Head(toHub[c])
  <2>1. /\ socket' = socket /\ link' = link /\ runner' = runner
        /\ toHub[c] # <<>> /\ HandleAgentMessage(c, m)
        /\ toHub' = [toHub EXCEPT ![c] = Tail(@)]
    BY <1>3 DEF HubReceive, agentVars
  <2>2. CASE inst = NoInst
    BY <2>1, <2>2, Restated DEF HandleAgentMessage, Registered
  <2>3. CASE inst # NoInst /\ m.type = "register"
    <3>1. /\ inst' = [inst EXCEPT !.status = "online",
                                  !.desired = IF @ = "unset" THEN "running" ELSE @]
          /\ toAgent' = Sent(ApplyConfig(inst'), {c})
          /\ inst \in Instance /\ inst' \in Instance
      BY <1>1, <2>1, <2>3 DEF HandleAgentMessage, TypeOK, Instance, Desired
    <3>2. inst'.config = inst.config /\ Wanted(inst') = Wanted(inst)
      BY <3>1 DEF Instance, Wanted
    <3>3. ApplyConfig(inst') \in HubMessage
      BY <3>1, ApplyConfigCarries
    <3>4. CASE link = c
      <4>1. ASSUME Registered'
            PROVE  toAgent'[link'] = Append(toAgent[link], ApplyConfig(inst'))
        BY <1>1, <2>1, <3>1, <3>3, <3>4, <4>1, SentTo DEF Registered
      <4>2. toAgent[link] \in Seq(HubMessage)
        BY <1>1, <3>4 DEF TypeOK
      <4>3. Carries(Append(toAgent[link], ApplyConfig(inst')), inst', runner')
        BY <3>1, <4>2, PushCarries
      <4>4. Registered' => Carries(toAgent'[link'], inst', runner')
        BY <4>1, <4>3
      <4> QED
        BY <4>4, Restated
    <3>5. CASE link # c
      <4>1. Registered' => toAgent'[link] = toAgent[link] /\ toHub'[link] = toHub[link]
        BY <1>1, <2>1, <3>1, <3>3, <3>5, SentTo DEF Registered, TypeOK
      <4>2. Registered' => Registered
        BY <2>1, <2>3, <3>2, <4>1 DEF Registered, RegisterPending
      <4> QED
        BY <1>1, <2>1, <3>2, <4>1, <4>2, QuietStep
    <3> QED
      BY <3>4, <3>5
  <2>4. CASE inst # NoInst /\ m.type # "register"
    <3>1. /\ inst' = [inst EXCEPT !.inSync = IF m.ok THEN "ok" ELSE "failed"]
          /\ toAgent' = toAgent /\ inst \in Instance
      BY <1>1, <2>1, <2>4 DEF HandleAgentMessage, TypeOK
    <3>2. inst'.config = inst.config /\ Wanted(inst') = Wanted(inst)
      BY <3>1 DEF Instance, Wanted
    <3>3. \A d \in Conn : RegisterPending(d) =>
            \E k \in 1..Len(toHub'[d]) : toHub'[d][k].type = "register"
      <4>1. toHub[c] \in Seq(AgentMessage) /\ toHub'[c] = Tail(toHub[c])
              /\ \A d \in Conn \ {c} : toHub'[d] = toHub[d]
        BY <1>1, <2>1 DEF TypeOK
      <4>2. toHub[c][1].type # "register"
        BY <2>1, <2>4, <4>1
      <4>3. \A k \in 1..Len(toHub[c]) : k # 1 => /\ k - 1 \in 1..Len(toHub'[c])
                                                 /\ toHub'[c][k-1] = toHub[c][k]
        <5>1. \A q \in Seq(AgentMessage) : q # <<>> =>
                \A k \in 1..Len(q) : k # 1 => /\ k - 1 \in 1..Len(Tail(q))
                                              /\ Tail(q)[k-1] = q[k]
          OBVIOUS
        <5> QED
          BY <2>1, <4>1, <5>1
      <4>4. RegisterPending(c) =>
              \E k \in 1..Len(toHub'[c]) : toHub'[c][k].type = "register"
        BY <4>2, <4>3 DEF RegisterPending
      <4> QED
        BY <4>1, <4>4 DEF RegisterPending
    <3>4. Registered' => Registered
      BY <1>1, <2>1, <2>4, <3>2, <3>3 DEF Registered, RegisterPending, TypeOK
    <3> QED
      BY <1>1, <2>1, <3>1, <3>2, <3>4, QuietStep
  <2> QED
    BY <2>2, <2>3, <2>4
<1> QED
  BY <1>2, <1>3

\* Faults: most of them end the connection, and a rathole that returned by
\* itself is one the record wants.
LEMMA ChannelFault ==
  ASSUME IInv, FaultStep
  PROVE  ChannelCarriesRecord'
<1>1. TypeOK /\ ChannelCarriesRecord
  BY DEF IInv
<1>2. CASE AgentDrops \/ AgentRestarts \/ HubRestarts
  <2>1. link' = NoConn
    BY <1>2 DEF AgentDrops, AgentRestarts, HubRestarts, Unlink
  <2> QED
    BY <2>1, Restated DEF Registered
<1>3. CASE RatholeExits
  <2>1. /\ inst' = inst /\ socket' = socket /\ toAgent' = toAgent /\ toHub' = toHub
        /\ link' = link /\ runner.live \in Config
        /\ runner' = [runner EXCEPT !.live = Exited]
    BY <1>3 DEF RatholeExits, hubVars, netVars
  <2>2. runner'.config = runner.config /\ runner'.live = Exited
    BY <1>1, <2>1 DEF TypeOK, Runner
  <2>3. RunsAs(inst, runner) => RunsAs(inst, runner')
    BY <2>1, <2>2 DEF RunsAs
  <2>4. Registered' => Registered
    BY <2>1 DEF Registered, RegisterPending
  <2>5. Registered => Carries(toAgent[link], inst, runner)
    BY <1>1, Restated
  <2>6. Registered => Carries(toAgent[link], inst, runner')
    BY <2>2, <2>3, <2>5 DEF Carries
  <2> QED
    BY <2>1, <2>4, <2>6, Restated
<1> QED
  BY <1>2, <1>3 DEF FaultStep

(***************************************************************************)
(* The theorems.                                                           *)
(***************************************************************************)

\* The initial states satisfy the invariant: there is no connection.
LEMMA InitIInv == Init => IInv
<1> SUFFICES ASSUME Init PROVE IInv
  OBVIOUS
<1>1. TypeOK
  <2>1. inst \in Instance
    BY DEF Init, Instance, Desired
  <2>2. /\ toAgent \in [Conn -> Seq(HubMessage)] /\ toHub \in [Conn -> Seq(AgentMessage)]
        /\ outbox \in Seq(AgentMessage)
    BY DEF Init
  <2>3. req \in [Request -> RestRequest]
    BY DEF Init, Idle, RestRequest
  <2>4. runner \in Runner
    BY DEF Init, Runner
  <2> QED
    BY <2>1, <2>2, <2>3, <2>4 DEF Init, TypeOK
<1>2. WellFormedRequests
  BY DEF Init, Idle, WellFormedRequests
<1>3. RunsHeldConfig
  BY DEF Init, RunsHeldConfig
<1>4. ChannelCarriesRecord
  BY DEF Init, ChannelCarriesRecord
<1> QED
  BY <1>1, <1>2, <1>3, <1>4 DEF IInv

\* Every step keeps the invariant.
LEMMA NextIInv == IInv /\ [Next]_vars => IInv'
<1> SUFFICES ASSUME IInv, [Next]_vars PROVE IInv'
  OBVIOUS
<1>1. CASE UNCHANGED vars
  BY <1>1
  DEF vars, IInv, TypeOK, WellFormedRequests, RunsHeldConfig, ChannelCarriesRecord,
      RegisterPending, RunsAsWanted
<1>2. CASE Next
  <2>1. TypeOK' /\ WellFormedRequests'
    BY <1>2, RestTypes, AgentTypes, HubTypes, FaultTypes DEF Next
  <2>2. RunsHeldConfig'
    BY <1>2, HeldStep
  <2>3. ChannelCarriesRecord'
    BY <1>2, ChannelRest, ChannelAgent, ChannelHub, ChannelFault DEF Next
  <2> QED
    BY <2>1, <2>2, <2>3 DEF IInv
<1> QED
  BY <1>1, <1>2

\* The inductive invariant holds in every behaviour of Worker, hub and agent.
THEOREM Inductive == Spec => []IInv
BY InitIInv, NextIInv, PTL DEF Spec

\* Records, frames and requests keep their types, whatever interleaves.
THEOREM TypeCorrect == Spec => []TypeOK
<1>1. IInv => TypeOK
  BY DEF IInv
<1> QED
  BY Inductive, <1>1, PTL

\* Runner::start, stop, restart and apply_config never leave rathole running a
\* configuration the runner has replaced.
THEOREM NothingStaleRuns == Spec => []RunsHeldConfig
<1>1. IInv => RunsHeldConfig
  BY DEF IInv
<1> QED
  BY Inductive, <1>1, PTL

\* What is on its way to a registered agent ends in the record's configuration
\* and intent, for any number of overlapping requests and sockets.
THEOREM ChannelIsFaithful == Spec => []ChannelCarriesRecord
<1>1. IInv => ChannelCarriesRecord
  BY DEF IInv
<1> QED
  BY Inductive, <1>1, PTL

\* An agent that has caught up holds and runs what the hub's record says.
THEOREM CaughtUpAgrees == Spec => []Agreement
<1>1. IInv => Agreement
  <2> SUFFICES ASSUME IInv, Settled, Applicable(inst.config)
               PROVE  runner.config = inst.config /\ RunsAsWanted
    BY DEF Agreement
  <2>1. ChannelCarriesRecord
    BY DEF IInv
  <2>2. 1..Len(toAgent[link]) = {}
    BY DEF Settled
  <2> QED
    BY <2>1, <2>2 DEF ChannelCarriesRecord, Settled
<1> QED
  BY Inductive, <1>1, PTL

----------------------------------------------------------------------------
(***************************************************************************)
(* ControlPlane implements DesiredState, and the panel hears of every      *)
(* configuration the agent can read.                                       *)
(***************************************************************************)
USE NoInstAssumption

\* Nothing is on its way on a connection the agent does not use.
UnusedAreEmpty == \A c \in Conn : c # link => toAgent[c] = <<>>

AckIn(q) == \E k \in 1..Len(q) : q[k].type = "config_ack"

ReadableIn(q) == \E k \in 1..Len(q) : IsApply(q[k]) /\ q[k].config \notin Unreadable

\* The registered agent's answer is still to be given or on its way.
Unanswered ==
  /\ inst # NoInst /\ link # NoConn
  /\ socket[link] = "open" /\ ~RegisterPending(link)
  /\ inst.config \notin Unreadable /\ inst.inSync = "unset"

AnswerIsComing ==
  Unanswered =>
    ReadableIn(toAgent[link]) \/ AckIn(outbox) \/ \E c \in Conn : AckIn(toHub[c])

\* The agent connects only when it has no connection.
UpgradesAlone == upgrading => link = NoConn

Delivery == UnusedAreEmpty /\ AnswerIsComing

RInv == Delivery /\ UpgradesAlone

(***************************************************************************)
(* The configurations in a queue of messages.                              *)
(***************************************************************************)
Conf(q) == [k \in 1..Len(q) |-> q[k].config]

LEMMA ConfAppend ==
  ASSUME NEW q \in Seq(HubMessage), NEW m \in HubMessage
  PROVE  Conf(Append(q, m)) = Append(Conf(q), m.config)
<1> DEFINE p == Append(q, m)
<1>1. Len(q) \in Nat /\ Len(p) = Len(q) + 1 /\ p[Len(q) + 1] = m
      /\ \A k \in 1..Len(q) : p[k] = q[k]
  OBVIOUS
<1>2. Conf(q) \in Seq({q[k].config : k \in 1..Len(q)})
  BY <1>1 DEF Conf
<1>3. Len(Conf(q)) = Len(q) /\ \A k \in 1..Len(q) : Conf(q)[k] = q[k].config
  BY <1>1 DEF Conf
<1>4. Append(Conf(q), m.config) =
        [k \in 1..Len(q) + 1 |-> IF k = Len(q) + 1 THEN m.config ELSE q[k].config]
  BY <1>1, <1>3 DEF Conf
<1> QED
  BY <1>1, <1>4 DEF Conf

LEMMA ConfTail ==
  ASSUME NEW q \in Seq(HubMessage), q # <<>>
  PROVE  /\ Conf(q) # <<>> /\ Head(Conf(q)) = Head(q).config
         /\ Conf(Tail(q)) = Tail(Conf(q))
<1>1. /\ Len(q) \in Nat \ {0} /\ Len(Tail(q)) = Len(q) - 1 /\ Head(q) = q[1]
      /\ \A k \in 1..(Len(q) - 1) : Tail(q)[k] = q[k+1]
  OBVIOUS
<1>2. Len(Conf(q)) = Len(q) /\ \A k \in 1..Len(q) : Conf(q)[k] = q[k].config
  BY <1>1 DEF Conf
<1>3. Conf(q) \in Seq({q[k].config : k \in 1..Len(q)})
  BY <1>1 DEF Conf
<1>4. Conf(q) # <<>> /\ Head(Conf(q)) = Head(q).config
  BY <1>1, <1>2, <1>3
<1>5. /\ Tail(Conf(q)) \in Seq({q[k].config : k \in 1..Len(q)})
      /\ Len(Tail(Conf(q))) = Len(q) - 1
      /\ \A k \in 1..(Len(q) - 1) : Tail(Conf(q))[k] = q[k+1].config
  BY <1>1, <1>2, <1>3, <1>4, HeadTailProperties
<1>6. /\ Conf(Tail(q)) \in Seq({q[k].config : k \in 1..Len(q)})
      /\ Len(Conf(Tail(q))) = Len(q) - 1
      /\ \A k \in 1..(Len(q) - 1) : Conf(Tail(q))[k] = q[k+1].config
  BY <1>1 DEF Conf
<1>7. Conf(Tail(q)) = Tail(Conf(q))
  <2> DEFINE S == {q[k].config : k \in 1..Len(q)}
  <2> DEFINE c == Conf(Tail(q))
  <2> DEFINE d == Tail(Conf(q))
  <2>1. c \in Seq(S) /\ d \in Seq(S) /\ Len(c) = Len(d) /\ \A k \in 1..Len(c) : c[k] = d[k]
    BY <1>1, <1>5, <1>6
  <2> HIDE DEF S, c, d
  <2>2. c = d
    BY <2>1, SeqEqual
  <2> QED
    BY <2>2 DEF c, d
<1> QED
  BY <1>4, <1>7

LEMMA ConfEmpty == Conf(<<>>) = <<>>
BY DEF Conf

\* What the abstract specification sees of the channel.
LEMMA PendingIs ==
  Pending = IF link = NoConn THEN <<>> ELSE Conf(toAgent[link])
BY DEF Pending, Conf

(***************************************************************************)
(* The strengthening is inductive.                                         *)
(***************************************************************************)
LEMMA AppendKeepsAnswer ==
  ASSUME NEW T, NEW q \in Seq(T), NEW m
  PROVE  /\ AckIn(q) => AckIn(Append(q, m))
         /\ ReadableIn(q) => ReadableIn(Append(q, m))
         /\ m.type = "config_ack" => AckIn(Append(q, m))
         /\ IsApply(m) /\ m.config \notin Unreadable => ReadableIn(Append(q, m))
<1>1. /\ Len(Append(q, m)) = Len(q) + 1 /\ Append(q, m)[Len(q) + 1] = m
      /\ Len(q) + 1 \in 1..(Len(q) + 1)
      /\ \A k \in 1..Len(q) : k \in 1..(Len(q) + 1) /\ Append(q, m)[k] = q[k]
  OBVIOUS
<1> QED
  BY <1>1 DEF AckIn, ReadableIn

LEMMA TailKeepsAnswer ==
  ASSUME NEW T, NEW q \in Seq(T), q # <<>>
  PROVE  /\ AckIn(q) => AckIn(Tail(q)) \/ Head(q).type = "config_ack"
         /\ ReadableIn(q) => \/ ReadableIn(Tail(q))
                             \/ IsApply(Head(q)) /\ Head(q).config \notin Unreadable
<1>1. /\ Head(q) = q[1] /\ Len(Tail(q)) = Len(q) - 1 /\ Len(q) \in Nat \ {0}
      /\ \A k \in 1..Len(q) : k = 1 \/ (k-1 \in 1..Len(Tail(q)) /\ Tail(q)[k-1] = q[k])
  OBVIOUS
<1> QED
  BY <1>1 DEF AckIn, ReadableIn

\* The Worker's second calls append to the channel in use, if to any.
LEMMA RestKeeps == IInv /\ RInv /\ RestStep => Delivery'
<1> SUFFICES ASSUME IInv, RInv, NEW r \in Request,
                    BeginPut(r) \/ BeginCommand(r) \/ BeginDelete(r)
                      \/ FinishPut(r) \/ FinishCommand(r) \/ FinishDelete(r)
             PROVE  Delivery'
  BY DEF RestStep
<1>1. TypeOK /\ WellFormedRequests
  BY DEF IInv
<1>2. CASE BeginPut(r) \/ BeginCommand(r) \/ BeginDelete(r)
  <2>1. UNCHANGED <<hubVars, netVars, agentVars>>
    BY <1>2 DEF BeginPut, BeginCommand, BeginDelete, Begin
  <2> QED
    BY <2>1 DEF RInv, Delivery, UnusedAreEmpty, AnswerIsComing, Unanswered, RegisterPending,
                hubVars, netVars, agentVars
<1>3. CASE FinishPut(r)
  <2>1. req[r].snap \in Instance /\ req[r].config \in Config
    BY <1>1, <1>3 DEF FinishPut, WellFormedRequests
  <2>2. inst' = [req[r].snap EXCEPT !.config = req[r].config]
    BY <1>3 DEF FinishPut
  <2>3. inst' \in Instance
    BY <2>1, <2>2 DEF Instance
  <2>4. /\ ApplyConfig(inst') \in HubMessage /\ IsApply(ApplyConfig(inst'))
        /\ ApplyConfig(inst').config = inst'.config
    BY <2>3, ApplyConfigCarries
  <2>5. \A c \in Conn : toAgent'[c] =
          IF c \in Sockets /\ socket[c] = "open" /\ link = c
          THEN Append(toAgent[c], ApplyConfig(inst')) ELSE toAgent[c]
    BY <1>1, <1>3, <2>4, SentTo DEF FinishPut
  <2>6. UNCHANGED <<socket, toHub, link, outbox>>
    BY <1>3 DEF FinishPut, agentVars
  <2>7. UnusedAreEmpty'
    BY <2>5, <2>6 DEF RInv, Delivery, UnusedAreEmpty
  <2>8. AnswerIsComing'
    <3> SUFFICES ASSUME Unanswered' PROVE ReadableIn(toAgent'[link])
      BY <2>6 DEF AnswerIsComing
    <3>1. link \in Conn /\ socket[link] = "open" /\ inst'.config \notin Unreadable
      BY <1>1, <2>6 DEF Unanswered, TypeOK
    <3>2. toAgent'[link] = Append(toAgent[link], ApplyConfig(inst'))
      BY <2>5, <3>1 DEF Sockets
    <3>3. toAgent[link] \in Seq(HubMessage)
      BY <1>1, <3>1 DEF TypeOK
    <3> QED
      BY <2>4, <3>1, <3>2, <3>3, AppendKeepsAnswer
  <2> QED
    BY <2>7, <2>8 DEF RInv, Delivery
<1>4. CASE FinishCommand(r)
  <2> DEFINE m == RunCommand(req[r].command)
  <2>1. req[r].command \in Command
    BY <1>1, <1>4 DEF FinishCommand, WellFormedRequests
  <2>2. m \in HubMessage
    BY <2>1 DEF RunCommand, HubMessage
  <2>3. UNCHANGED <<socket, toHub, link, outbox>>
    BY <1>4 DEF FinishCommand, agentVars
  <2>4. CASE Sockets = {} \/ inst = NoInst
    <3>1. UNCHANGED <<inst, toAgent>>
      BY <1>4, <2>4 DEF FinishCommand
    <3> QED
      BY <2>3, <3>1 DEF RInv, Delivery, UnusedAreEmpty, AnswerIsComing, Unanswered, RegisterPending
  <2>5. CASE ~(Sockets = {} \/ inst = NoInst)
    <3>1. /\ inst' = [inst EXCEPT !.desired = DesiredFor(req[r].command, @)]
          /\ toAgent' = Sent(m, Sockets)
      BY <1>4, <2>5 DEF FinishCommand
    <3>2. inst \in Instance
      BY <1>1, <2>5 DEF TypeOK
    <3>3. inst'.config = inst.config /\ inst'.inSync = inst.inSync
      BY <3>1, <3>2 DEF Instance
    <3>4. \A c \in Conn : toAgent'[c] =
            IF c \in Sockets /\ socket[c] = "open" /\ link = c
            THEN Append(toAgent[c], m) ELSE toAgent[c]
      BY <1>1, <2>2, <3>1, SentTo
    <3>5. UnusedAreEmpty'
      BY <2>3, <3>4 DEF RInv, Delivery, UnusedAreEmpty
    <3>6. ASSUME Unanswered'
          PROVE  ReadableIn(toAgent'[link]) \/ AckIn(outbox) \/ \E c \in Conn : AckIn(toHub[c])
      <4>1. Unanswered
        BY <2>3, <2>5, <3>3, <3>6 DEF Unanswered, RegisterPending
      <4>2. link \in Conn /\ toAgent[link] \in Seq(HubMessage)
        BY <1>1, <4>1 DEF TypeOK, Unanswered
      <4>3. ReadableIn(toAgent[link]) => ReadableIn(toAgent'[link])
        BY <3>4, <4>2, AppendKeepsAnswer
      <4> QED
        BY <4>1, <4>3 DEF RInv, Delivery, AnswerIsComing
    <3> QED
      BY <2>3, <3>5, <3>6 DEF RInv, Delivery, AnswerIsComing
  <2> QED
    BY <2>4, <2>5
<1>5. CASE FinishDelete(r)
  <2>1. inst' = NoInst /\ UNCHANGED <<netVars, agentVars>>
    BY <1>5 DEF FinishDelete
  <2> QED
    BY <2>1 DEF RInv, Delivery, UnusedAreEmpty, AnswerIsComing, Unanswered, netVars, agentVars
<1> QED
  BY <1>2, <1>3, <1>4, <1>5

\* The agent reads what is on its connection and answers on it.
LEMMA AgentKeeps == IInv /\ RInv /\ AgentStep => Delivery'
<1> SUFFICES ASSUME IInv, RInv, AgentStep PROVE Delivery'
  OBVIOUS
<1>1. TypeOK
  BY DEF IInv
<1>2. CASE CheckUpgrade
  BY <1>2 DEF CheckUpgrade, RInv, Delivery, UnusedAreEmpty, AnswerIsComing, Unanswered,
              RegisterPending, hubVars, netVars, agentVars
<1>3. CASE AcceptAgent
  <2>1. PICK c \in Conn : link' = c /\ toHub' = [toHub EXCEPT ![c] = <<Register>>]
    BY <1>3 DEF AcceptAgent
  <2>2. toAgent' = toAgent
    BY <1>3 DEF AcceptAgent
  <2>3. RegisterPending(link)'
    BY <1>1, <2>1 DEF TypeOK, RegisterPending, Register
  <2>4. link = NoConn
    BY <1>3 DEF AcceptAgent, RInv, UpgradesAlone
  <2>5. \A d \in Conn : toAgent[d] = <<>>
    BY <2>4, NoConnAssumption DEF RInv, Delivery, UnusedAreEmpty
  <2>6. AnswerIsComing'
    BY <2>3 DEF AnswerIsComing, Unanswered
  <2> QED
    BY <2>2, <2>5, <2>6 DEF Delivery, UnusedAreEmpty
<1>4. CASE AgentReceive
  <2> DEFINE m == Head(toAgent[link])
  <2>1. link \in Conn /\ toAgent[link] \in Seq(HubMessage) /\ toAgent[link] # <<>>
    BY <1>1, <1>4 DEF AgentReceive, TypeOK
  <2>2. /\ toAgent' = [toAgent EXCEPT ![link] = Tail(@)]
        /\ UNCHANGED <<hubVars, toHub, link>> /\ HandleHubMessage(m)
    BY <1>4 DEF AgentReceive
  <2>3. UnusedAreEmpty'
    BY <1>1, <2>2 DEF TypeOK, RInv, Delivery, UnusedAreEmpty
  <2>4. Unanswered' => Unanswered
    BY <2>2 DEF Unanswered, RegisterPending, hubVars
  <2>5. outbox \in Seq(AgentMessage) /\ m \in HubMessage
    BY <1>1, <2>1 DEF TypeOK
  <2>6. AckIn(outbox) => AckIn(outbox')
    BY <2>2, <2>5, AppendKeepsAnswer DEF HandleHubMessage
  <2>7. IsApply(m) /\ m.config \notin Unreadable => AckIn(outbox')
    <3> SUFFICES ASSUME IsApply(m), m.config \notin Unreadable PROVE AckIn(outbox')
      OBVIOUS
    <3>1. \E ok \in BOOLEAN : outbox' = Append(outbox, ConfigAck(ok))
      BY <2>2 DEF HandleHubMessage, IsApply
    <3> QED
      BY <2>5, <3>1, AppendKeepsAnswer DEF ConfigAck
  <2>8. ReadableIn(toAgent[link]) => ReadableIn(toAgent'[link]) \/ AckIn(outbox')
    BY <1>1, <2>1, <2>2, <2>7, TailKeepsAnswer DEF TypeOK
  <2>9. toHub' = toHub /\ link' = link
    BY <2>2
  <2> QED
    BY <2>3, <2>4, <2>6, <2>8, <2>9 DEF RInv, Delivery, AnswerIsComing
<1>5. CASE AgentSend
  <2>1. /\ link \in Conn /\ outbox # <<>> /\ outbox' = Tail(outbox)
        /\ toHub' = [toHub EXCEPT ![link] = Append(@, Head(outbox))]
        /\ UNCHANGED <<hubVars, toAgent, link>>
    BY <1>1, <1>5 DEF AgentSend, TypeOK
  <2>2. outbox \in Seq(AgentMessage) /\ toHub \in [Conn -> Seq(AgentMessage)]
    BY <1>1 DEF TypeOK
  <2>3. UnusedAreEmpty'
    BY <2>1 DEF RInv, Delivery, UnusedAreEmpty
  <2>4. toHub'[link] = Append(toHub[link], Head(outbox))
    BY <2>1, <2>2
  <2>5. RegisterPending(link) => RegisterPending(link)'
    BY <2>1, <2>2, <2>4 DEF RegisterPending
  <2>6. Unanswered' => Unanswered
    BY <2>1, <2>5 DEF Unanswered, hubVars
  <2>7. AckIn(outbox) => AckIn(outbox') \/ AckIn(toHub'[link])
    BY <2>1, <2>2, <2>4, TailKeepsAnswer, AppendKeepsAnswer
  <2>8. ASSUME NEW c \in Conn, AckIn(toHub[c]) PROVE AckIn(toHub'[c])
    BY <2>1, <2>2, <2>4, <2>8, AppendKeepsAnswer
  <2>9. toAgent'[link] = toAgent[link] /\ link' = link
    BY <2>1
  <2> QED
    BY <2>1, <2>3, <2>6, <2>7, <2>8, <2>9 DEF RInv, Delivery, AnswerIsComing
<1>6. CASE AgentSeesClose
  <2>1. link' = NoConn /\ toAgent' = toAgent /\ toAgent[link] = <<>>
    BY <1>6 DEF AgentSeesClose, netVars
  <2> QED
    BY <2>1 DEF RInv, Delivery, UnusedAreEmpty, AnswerIsComing, Unanswered
<1> QED
  BY <1>2, <1>3, <1>4, <1>5, <1>6 DEF AgentStep

\* The hub takes an answer into the record and pushes to who registers.
LEMMA HubKeeps == IInv /\ RInv /\ HubStep => Delivery'
<1> SUFFICES ASSUME IInv, RInv, NEW c \in Conn, HubReceive(c) \/ HubClose(c) PROVE Delivery'
  BY DEF HubStep
<1>1. TypeOK
  BY DEF IInv
<1>2. CASE HubReceive(c)
  <2> DEFINE m == Head(toHub[c])
  <2>1. /\ toHub' = [toHub EXCEPT ![c] = Tail(@)] /\ toHub[c] # <<>>
        /\ UNCHANGED <<socket, agentVars>> /\ HandleAgentMessage(c, m)
    BY <1>2 DEF HubReceive
  <2>2. toHub[c] \in Seq(AgentMessage) /\ toHub'[c] = Tail(toHub[c]) /\ m \in AgentMessage
        /\ \A d \in Conn : d # c => toHub'[d] = toHub[d]
    BY <1>1, <2>1 DEF TypeOK
  <2>3. AckIn(toHub[c]) => AckIn(toHub'[c]) \/ m.type = "config_ack"
    BY <2>1, <2>2, TailKeepsAnswer
  <2>4. ASSUME link # NoConn, RegisterPending(link)
        PROVE  RegisterPending(link)' \/ (m.type = "register" /\ link = c)
    <3>1. /\ Head(toHub[c]) = toHub[c][1] /\ Len(Tail(toHub[c])) = Len(toHub[c]) - 1
          /\ Len(toHub[c]) \in Nat \ {0}
          /\ \A k \in 1..Len(toHub[c]) :
               k = 1 \/ (k-1 \in 1..Len(Tail(toHub[c])) /\ Tail(toHub[c])[k-1] = toHub[c][k])
      BY <2>1, <2>2
    <3>2. link' = link /\ link \in Conn
      BY <1>1, <2>1, <2>4 DEF agentVars, TypeOK
    <3>3. CASE link = c
      <4>1. PICK k \in 1..Len(toHub[c]) : toHub[c][k].type = "register"
        BY <2>4, <3>3 DEF RegisterPending
      <4>2. CASE k = 1
        BY <3>1, <3>3, <4>1, <4>2
      <4>3. CASE k # 1
        <5>1. toHub'[c] = Tail(toHub[c])
          BY <2>2
        <5>2. k-1 \in 1..Len(toHub'[c]) /\ toHub'[c][k-1].type = "register"
          BY <3>1, <4>1, <4>3, <5>1
        <5> QED
          BY <3>2, <3>3, <5>2 DEF RegisterPending
      <4> QED
        BY <4>2, <4>3
    <3>4. CASE link # c
      BY <2>2, <2>4, <3>2, <3>4 DEF RegisterPending
    <3> QED
      BY <3>3, <3>4
  <2>5. link' = link /\ outbox' = outbox
    BY <1>2 DEF HubReceive, agentVars
  <2>6. CASE inst = NoInst
    <3>1. inst' = NoInst /\ toAgent' = toAgent
      BY <2>1, <2>6 DEF HandleAgentMessage
    <3> QED
      BY <2>5, <3>1 DEF RInv, Delivery, UnusedAreEmpty, AnswerIsComing, Unanswered
  <2>7. CASE inst # NoInst /\ m.type = "register"
    <3>1. /\ inst' = [inst EXCEPT !.status = "online",
                                  !.desired = IF @ = "unset" THEN "running" ELSE @]
          /\ toAgent' = Sent(ApplyConfig(inst'), {c})
      BY <2>1, <2>7 DEF HandleAgentMessage
    <3>2. inst \in Instance
      BY <1>1, <2>7 DEF TypeOK
    <3>3. /\ inst' \in Instance /\ inst'.config = inst.config
          /\ inst'.inSync = inst.inSync
      BY <3>1, <3>2 DEF Instance, Desired
    <3>4. /\ ApplyConfig(inst') \in HubMessage /\ IsApply(ApplyConfig(inst'))
          /\ ApplyConfig(inst').config = inst'.config
      BY <3>3, ApplyConfigCarries
    <3>5. \A d \in Conn : toAgent'[d] =
            IF d \in {c} /\ socket[d] = "open" /\ link = d
            THEN Append(toAgent[d], ApplyConfig(inst')) ELSE toAgent[d]
      BY <1>1, <3>1, <3>4, SentTo
    <3>6. UnusedAreEmpty'
      BY <2>5, <3>5 DEF RInv, Delivery, UnusedAreEmpty
    <3>7. ASSUME Unanswered'
          PROVE  \/ ReadableIn(toAgent'[link]) \/ AckIn(outbox)
                 \/ \E d \in Conn : AckIn(toHub'[d])
      <4>1. /\ link \in Conn /\ link # NoConn /\ toAgent[link] \in Seq(HubMessage)
            /\ socket[link] = "open" /\ ~RegisterPending(link)' /\ inst'.config \notin Unreadable
            /\ inst'.inSync = "unset"
        BY <1>1, <2>1, <2>5, <3>7 DEF TypeOK, Unanswered
      <4>2. CASE link = c
        BY <3>4, <3>5, <4>1, <4>2, AppendKeepsAnswer
      <4>3. CASE link # c
        <5>1. ~RegisterPending(link)
          BY <2>4, <4>1, <4>3
        <5>2. Unanswered
          BY <2>7, <3>3, <4>1, <5>1 DEF Unanswered
        <5>3. toAgent'[link] = toAgent[link]
          BY <3>5, <4>1, <4>3
        <5>4. ASSUME NEW d \in Conn, AckIn(toHub[d]) PROVE AckIn(toHub'[d])
          BY <2>2, <2>3, <2>7, <5>4
        <5> QED
          BY <5>2, <5>3, <5>4 DEF RInv, Delivery, AnswerIsComing
      <4> QED
        BY <4>2, <4>3
    <3> QED
      BY <2>5, <3>6, <3>7 DEF RInv, Delivery, AnswerIsComing
  <2>8. CASE inst # NoInst /\ m.type # "register"
    <3>1. /\ inst' = [inst EXCEPT !.inSync = IF m.ok THEN "ok" ELSE "failed"]
          /\ toAgent' = toAgent
      BY <2>1, <2>8 DEF HandleAgentMessage
    <3>2. inst'.inSync # "unset"
      BY <1>1, <2>8, <3>1 DEF TypeOK, Instance
    <3> QED
      BY <2>5, <3>1, <3>2 DEF RInv, Delivery, UnusedAreEmpty, AnswerIsComing, Unanswered
  <2> QED
    BY <2>6, <2>7, <2>8
<1>3. CASE HubClose(c)
  <2>1. /\ UNCHANGED <<netVars, agentVars>> /\ link # c
        /\ socket' = [socket EXCEPT ![c] = "free"]
        /\ inst' = IF inst # NoInst /\ Sockets = {c}
                   THEN [inst EXCEPT !.status = "offline"] ELSE inst
    BY <1>3 DEF HubClose
  <2>2. inst' # NoInst => /\ inst # NoInst /\ inst'.config = inst.config
                          /\ inst'.inSync = inst.inSync
    BY <1>1, <2>1 DEF TypeOK, Instance
  <2>3. socket'[link] = "open" /\ link # NoConn => socket[link] = "open"
    BY <1>1, <2>1 DEF TypeOK
  <2>4. Unanswered' => Unanswered
    BY <2>1, <2>2, <2>3 DEF Unanswered, RegisterPending, netVars, agentVars
  <2> QED
    BY <2>1, <2>4 DEF RInv, Delivery, UnusedAreEmpty, AnswerIsComing, netVars, agentVars
<1> QED
  BY <1>2, <1>3

\* A connection that is lost takes what was on its way to the agent with it.
LEMMA FaultKeeps == IInv /\ RInv /\ FaultStep => Delivery'
<1> SUFFICES ASSUME IInv, RInv, FaultStep PROVE Delivery'
  OBVIOUS
<1>1. TypeOK
  BY DEF IInv
<1>2. CASE Unlink
  <2>1. link' = NoConn /\ \A c \in Conn : toAgent'[c] = <<>>
    <3>1. \A c \in Conn : c # link => toAgent[c] = <<>>
      BY DEF RInv, Delivery, UnusedAreEmpty
    <3>2. link' = NoConn
      BY <1>2 DEF Unlink
    <3>3. CASE link = NoConn
      BY <1>2, <3>1, <3>2, <3>3, NoConnAssumption DEF Unlink
    <3>4. CASE link # NoConn
      <4>1. toAgent' = [toAgent EXCEPT ![link] = <<>>] /\ link \in Conn
        BY <1>1, <1>2, <3>4 DEF Unlink, TypeOK
      <4>2. \A c \in Conn : toAgent'[c] = IF c = link THEN <<>> ELSE toAgent[c]
        BY <1>1, <4>1 DEF TypeOK
      <4> QED
        BY <3>1, <3>2, <4>2
    <3> QED
      BY <3>3, <3>4
  <2> QED
    BY <2>1 DEF Delivery, UnusedAreEmpty, AnswerIsComing, Unanswered
<1>3. CASE RatholeExits
  <2>1. UNCHANGED <<hubVars, netVars, link, outbox>>
    BY <1>3 DEF RatholeExits
  <2> QED
    BY <2>1 DEF RInv, Delivery, UnusedAreEmpty, AnswerIsComing, Unanswered,
                RegisterPending, hubVars, netVars
<1>4. CASE HubRestarts
  <2>1. link' = NoConn /\ \A c \in Conn : toAgent'[c] = <<>>
    BY <1>4 DEF HubRestarts
  <2> QED
    BY <2>1 DEF Delivery, UnusedAreEmpty, AnswerIsComing, Unanswered
<1> QED
  BY <1>2, <1>3, <1>4 DEF FaultStep, AgentDrops, AgentRestarts

\* The agent begins an upgrade without a connection and gets none meanwhile.
LEMMA UpgradesKept == RInv /\ Next => UpgradesAlone'
<1> SUFFICES ASSUME RInv, Next PROVE UpgradesAlone'
  OBVIOUS
<1>1. UpgradesAlone
  BY DEF RInv
<1>2. CASE RestStep
  BY <1>1, <1>2
  DEF RestStep, BeginPut, BeginCommand, BeginDelete, Begin, FinishPut, FinishCommand,
      FinishDelete, agentVars, UpgradesAlone
<1>3. CASE AgentStep
  BY <1>1, <1>3
  DEF AgentStep, CheckUpgrade, AcceptAgent, AgentReceive, AgentSend, AgentSeesClose,
      agentVars, UpgradesAlone
<1>4. CASE HubStep
  BY <1>1, <1>4 DEF HubStep, HubReceive, HubClose, agentVars, UpgradesAlone
<1>5. CASE FaultStep
  BY <1>1, <1>5
  DEF FaultStep, AgentDrops, AgentRestarts, RatholeExits, HubRestarts, Unlink, UpgradesAlone
<1> QED
  BY <1>2, <1>3, <1>4, <1>5 DEF Next

LEMMA InitRInv == Init => RInv
BY DEF Init, RInv, Delivery, UnusedAreEmpty, AnswerIsComing, Unanswered, UpgradesAlone

LEMMA NextRInv == IInv /\ RInv /\ [Next]_vars => RInv'
<1> SUFFICES ASSUME IInv, RInv, [Next]_vars PROVE RInv'
  OBVIOUS
<1>1. CASE UNCHANGED vars
  BY <1>1
  DEF vars, RInv, Delivery, UnusedAreEmpty, AnswerIsComing, Unanswered, RegisterPending,
      UpgradesAlone
<1>2. CASE Next
  <2>1. Delivery'
    BY <1>2, RestKeeps, AgentKeeps, HubKeeps, FaultKeeps DEF Next
  <2> QED
    BY <1>2, <2>1, UpgradesKept DEF RInv
<1> QED
  BY <1>1, <1>2

LEMMA AlwaysRInv == Spec => [](IInv /\ RInv)
<1>1. IInv /\ RInv /\ [Next]_vars => IInv' /\ RInv'
  BY NextIInv, NextRInv
<1> QED
  BY InitIInv, InitRInv, <1>1, PTL DEF Spec

\* When nothing is on its way, the panel has heard of every configuration the
\* agent can read (config_ack in handle_hub_message and in handleAgentMessage).
THEOREM PanelHears == Spec => []PanelHearsBack
<1>1. IInv /\ RInv => PanelHearsBack
  <2> SUFFICES ASSUME IInv, RInv, Settled, inst.config \notin Unreadable, outbox = <<>>,
                      \A c \in Conn : toHub[c] = <<>>, inst.inSync = "unset"
               PROVE  FALSE
    BY DEF PanelHearsBack
  <2>1. Unanswered
    BY DEF Settled, Unanswered
  <2>2. toAgent[link] = <<>>
    BY DEF Settled
  <2> QED
    BY <2>1, <2>2 DEF RInv, Delivery, AnswerIsComing, AckIn, ReadableIn
<1> QED
  BY AlwaysRInv, <1>1, PTL

(***************************************************************************)
(* ControlPlane implements DesiredState.                                   *)
(***************************************************************************)
Wish == IF inst = NoInst THEN NoConfig ELSE inst.config

\* What an action of DesiredState says of the three parts it sees.
LEMMA Abstractly ==
  /\ (Wish' \in Config /\ Pending' \in {Pending, Append(Pending, Wish')}
        /\ runner'.config = runner.config) => Rollout!Next
  /\ (Wish' = NoConfig /\ Pending' = Pending /\ runner'.config = runner.config)
        => Rollout!Next
  /\ (Wish # NoConfig /\ Wish' = Wish /\ Pending' = Append(Pending, Wish)
        /\ runner'.config = runner.config) => Rollout!Next
  /\ (Wish' = Wish /\ Pending' = Append(Pending, NoConfig)
        /\ runner'.config = runner.config) => Rollout!Next
  /\ (Wish' = Wish /\ Pending # <<>> /\ Pending' = Tail(Pending)
        /\ (\/ Head(Pending) \in Config /\ runner'.config = Head(Pending)
            \/ /\ Head(Pending) \in Unreadable \cup Unbuildable \cup {NoConfig}
               /\ runner'.config = runner.config)) => Rollout!Next
  /\ (Wish' = Wish /\ Pending' = <<>> /\ runner'.config \in {runner.config, NoConfig})
        => Rollout!Next
  /\ (Wish' = Wish /\ Pending' = Pending /\ runner'.config = runner.config)
        => UNCHANGED Rollout!vars
BY DEF Wish, Rollout!Next, Rollout!Record, Rollout!Delete, Rollout!Offer, Rollout!Order,
       Rollout!CarryOut, Rollout!Lose, Rollout!vars

\* What safeSend does to the orders the agent has not carried out.
LEMMA SentPending ==
  ASSUME TypeOK, NEW m \in HubMessage, NEW targets,
         toAgent' = Sent(m, targets), link' = link
  PROVE  Pending' \in {Pending, Append(Pending, m.config)}
<1>1. CASE link = NoConn
  BY <1>1, PendingIs DEF Pending
<1>2. CASE link # NoConn
  <2>1. link \in Conn /\ toAgent[link] \in Seq(HubMessage)
    BY <1>2 DEF TypeOK
  <2>2. toAgent'[link] \in {toAgent[link], Append(toAgent[link], m)}
    BY <2>1, SentTo
  <2>3. Pending = Conf(toAgent[link]) /\ Pending' = Conf(toAgent'[link])
    BY <1>2 DEF Pending, Conf
  <2> QED
    BY <2>1, <2>2, <2>3, ConfAppend
<1> QED
  BY <1>1, <1>2

\* A step that leaves the channel in use alone.
LEMMA SamePending ==
  ASSUME link' = link, toAgent'[link] = toAgent[link]
  PROVE  Pending' = Pending
BY DEF Pending

\* The Worker's requests record, delete and order.
LEMMA RestRefines ==
  IInv /\ RestStep => Rollout!Next \/ UNCHANGED Rollout!vars
<1> SUFFICES ASSUME IInv, NEW r \in Request,
                    BeginPut(r) \/ BeginCommand(r) \/ BeginDelete(r)
                      \/ FinishPut(r) \/ FinishCommand(r) \/ FinishDelete(r)
             PROVE  Rollout!Next \/ UNCHANGED Rollout!vars
  BY DEF RestStep
<1>1. TypeOK /\ WellFormedRequests
  BY DEF IInv
<1>2. CASE BeginPut(r) \/ BeginCommand(r) \/ BeginDelete(r)
  <2>1. UNCHANGED <<inst, toAgent, link, runner>>
    BY <1>2 DEF BeginPut, BeginCommand, BeginDelete, Begin, hubVars, netVars, agentVars
  <2>2. Wish' = Wish /\ Pending' = Pending
    BY <2>1 DEF Wish, Pending
  <2> QED
    BY <2>1, <2>2, Abstractly
<1>3. CASE FinishPut(r)
  <2>1. req[r].snap \in Instance /\ req[r].config \in Config
    BY <1>1, <1>3 DEF FinishPut, WellFormedRequests
  <2>2. inst' = [req[r].snap EXCEPT !.config = req[r].config]
    BY <1>3 DEF FinishPut
  <2>3. inst' \in Instance
    BY <2>1, <2>2 DEF Instance
  <2>4. Wish' = inst'.config /\ Wish' \in Config
    BY <2>3 DEF Wish, Instance
  <2>5. ApplyConfig(inst') \in HubMessage /\ ApplyConfig(inst').config = Wish'
    BY <2>3, <2>4, ApplyConfigCarries
  <2>6. toAgent' = Sent(ApplyConfig(inst'), Sockets) /\ UNCHANGED <<link, runner>>
    BY <1>3 DEF FinishPut, agentVars
  <2>7. Pending' \in {Pending, Append(Pending, Wish')}
    BY <1>1, <2>5, <2>6, SentPending
  <2> QED
    BY <2>4, <2>6, <2>7, Abstractly
<1>4. CASE FinishCommand(r)
  <2> DEFINE m == RunCommand(req[r].command)
  <2>1. m \in HubMessage /\ m.config = NoConfig
    BY <1>1, <1>4 DEF FinishCommand, WellFormedRequests, RunCommand, HubMessage
  <2>2. UNCHANGED <<link, runner>>
    BY <1>4 DEF FinishCommand, agentVars
  <2>3. CASE Sockets = {} \/ inst = NoInst
    <3>1. UNCHANGED <<inst, toAgent>>
      BY <1>4, <2>3 DEF FinishCommand
    <3> QED
      BY <2>2, <3>1, Abstractly DEF Wish, Pending
  <2>4. CASE ~(Sockets = {} \/ inst = NoInst)
    <3>1. /\ inst' = [inst EXCEPT !.desired = DesiredFor(req[r].command, @)]
          /\ toAgent' = Sent(m, Sockets) /\ inst \in Instance
      BY <1>1, <1>4, <2>4 DEF FinishCommand, TypeOK
    <3>2. inst' \in Instance /\ inst'.config = inst.config
      <4>1. req[r].command \in Command
        BY <1>1, <1>4 DEF FinishCommand, WellFormedRequests
      <4> QED
        BY <3>1, <4>1, CommandCarries DEF Instance
    <3>3. Wish' = Wish
      BY <3>1, <3>2 DEF Wish
    <3>4. Pending' \in {Pending, Append(Pending, NoConfig)}
      BY <1>1, <2>1, <2>2, <3>1, SentPending
    <3> QED
      BY <2>2, <3>3, <3>4, Abstractly
  <2> QED
    BY <2>3, <2>4
<1>5. CASE FinishDelete(r)
  <2>1. inst' = NoInst /\ UNCHANGED <<toAgent, link, runner>>
    BY <1>5 DEF FinishDelete, netVars, agentVars
  <2>2. Wish' = NoConfig /\ Pending' = Pending
    BY <2>1 DEF Wish, Pending
  <2> QED
    BY <2>1, <2>2, Abstractly
<1> QED
  BY <1>2, <1>3, <1>4, <1>5

\* The agent carries out what it reads; the rest is not seen.
LEMMA AgentRefines ==
  IInv /\ RInv /\ AgentStep => Rollout!Next \/ UNCHANGED Rollout!vars
<1> SUFFICES ASSUME IInv, RInv, AgentStep PROVE Rollout!Next \/ UNCHANGED Rollout!vars
  OBVIOUS
<1>1. TypeOK
  BY DEF IInv
<1>2. CASE CheckUpgrade \/ AgentSend
  <2>1. UNCHANGED <<inst, toAgent, link, runner>>
    BY <1>2 DEF CheckUpgrade, AgentSend, hubVars, netVars, agentVars
  <2> QED
    BY <2>1, Abstractly DEF Wish, Pending
<1>3. CASE AcceptAgent
  <2>1. link = NoConn /\ link' \in Conn /\ UNCHANGED <<inst, toAgent, runner>>
    BY <1>3 DEF AcceptAgent, RInv, UpgradesAlone
  <2>2. toAgent'[link'] = <<>>
    BY <2>1, NoConnAssumption DEF RInv, Delivery, UnusedAreEmpty
  <2>3. Pending = <<>> /\ Pending' = <<>>
    BY <2>1, <2>2, NoConnAssumption DEF Pending
  <2> QED
    BY <2>1, <2>3, Abstractly DEF Wish
<1>4. CASE AgentReceive
  <2> DEFINE q == toAgent[link]
  <2> DEFINE m == Head(q)
  <2>1. link \in Conn /\ q \in Seq(HubMessage) /\ q # <<>> /\ m \in HubMessage
    BY <1>1, <1>4 DEF AgentReceive, TypeOK
  <2>2. /\ toAgent' = [toAgent EXCEPT ![link] = Tail(@)]
        /\ UNCHANGED <<inst, link>> /\ HandleHubMessage(m)
    BY <1>4 DEF AgentReceive, hubVars
  <2>3. Pending = Conf(q) /\ Pending' = Conf(Tail(q))
    <3>1. toAgent'[link] = Tail(q)
      BY <1>1, <2>1, <2>2 DEF TypeOK
    <3> QED
      BY <1>4, <2>2, <3>1 DEF AgentReceive, Pending, Conf
  <2>4. Pending # <<>> /\ Head(Pending) = m.config /\ Pending' = Tail(Pending)
    BY <2>1, <2>3, ConfTail
  <2>5. \/ m.config \in Config /\ runner'.config = m.config
        \/ /\ m.config \in Unreadable \cup Unbuildable \cup {NoConfig}
           /\ runner'.config = runner.config
    <3>1. CASE m.type = "command"
      <4>1. m.config = NoConfig /\ runner' = Commanded(m.command) /\ runner \in Runner
        BY <1>1, <2>1, <2>2, <3>1 DEF HubMessage, HandleHubMessage, TypeOK
      <4>2. runner'.config = runner.config
        BY <4>1 DEF Commanded, Runner
      <4> QED
        BY <4>1, <4>2
    <3>2. CASE m.type # "command"
      <4>1. m.config \in Config
        BY <2>1, <3>2 DEF HubMessage
      <4>2. CASE m.config \in Unreadable \cup Unbuildable
        <5>1. runner' = runner
          BY <2>2, <3>2, <4>2 DEF HandleHubMessage
        <5> QED
          BY <4>2, <5>1
      <4>3. CASE m.config \notin Unreadable \cup Unbuildable
        <5>1. runner' = Applied(m)
          BY <2>2, <3>2, <4>3 DEF HandleHubMessage
        <5> QED
          BY <4>1, <5>1 DEF Applied
      <4> QED
        BY <4>2, <4>3
    <3> QED
      BY <3>1, <3>2
  <2>6. Wish' = Wish
    BY <2>2 DEF Wish
  <2> QED
    BY <2>4, <2>5, <2>6, Abstractly
<1>5. CASE AgentSeesClose
  <2>1. /\ link # NoConn /\ link' = NoConn /\ toAgent[link] = <<>>
        /\ UNCHANGED <<inst, runner>>
    BY <1>5 DEF AgentSeesClose, hubVars
  <2>2. Pending = <<>> /\ Pending' = <<>>
    BY <2>1 DEF Pending
  <2> QED
    BY <2>1, <2>2, Abstractly DEF Wish
<1> QED
  BY <1>2, <1>3, <1>4, <1>5 DEF AgentStep

\* The hub offers the record to the agent that registers.
LEMMA HubRefines ==
  IInv /\ HubStep => Rollout!Next \/ UNCHANGED Rollout!vars
<1> SUFFICES ASSUME IInv, NEW c \in Conn, HubReceive(c) \/ HubClose(c)
             PROVE  Rollout!Next \/ UNCHANGED Rollout!vars
  BY DEF HubStep
<1>1. TypeOK
  BY DEF IInv
<1>2. UNCHANGED <<link, runner>>
  BY DEF HubReceive, HubClose, agentVars
<1>3. CASE inst = NoInst
  <2>1. UNCHANGED <<inst, toAgent>>
    BY <1>3 DEF HubReceive, HubClose, HandleAgentMessage, netVars
  <2> QED
    BY <1>2, <2>1, Abstractly DEF Wish, Pending
<1>4. CASE inst # NoInst
  <2>1. inst \in Instance
    BY <1>1, <1>4 DEF TypeOK
  <2>2. CASE HubReceive(c) /\ Head(toHub[c]).type = "register"
    <3>1. /\ inst' = [inst EXCEPT !.status = "online",
                                  !.desired = IF @ = "unset" THEN "running" ELSE @]
          /\ toAgent' = Sent(ApplyConfig(inst'), {c})
      BY <1>4, <2>2 DEF HubReceive, HandleAgentMessage
    <3>2. inst' \in Instance /\ inst'.config = inst.config
      BY <2>1, <3>1 DEF Instance, Desired
    <3>3. Wish' = Wish /\ Wish = inst.config /\ Wish \in Config /\ Wish # NoConfig
      <4>1. Wish' = Wish /\ Wish = inst.config
        BY <1>4, <3>2 DEF Wish
      <4>2. inst.config \in Config
        BY <2>1 DEF Instance
      <4> QED
        BY <4>1, <4>2, ConfigAssumption
    <3>4. ApplyConfig(inst') \in HubMessage /\ ApplyConfig(inst').config = Wish
      BY <3>2, <3>3, ApplyConfigCarries
    <3>5. Pending' \in {Pending, Append(Pending, Wish)}
      BY <1>1, <1>2, <3>1, <3>4, SentPending
    <3> QED
      BY <1>2, <3>3, <3>5, Abstractly
  <2>3. CASE ~(HubReceive(c) /\ Head(toHub[c]).type = "register")
    <3>1. toAgent' = toAgent
      BY <1>4, <2>3 DEF HubReceive, HubClose, HandleAgentMessage, netVars
    <3>2. inst' \in Instance /\ inst'.config = inst.config
      BY <1>4, <2>1, <2>3 DEF HubReceive, HubClose, HandleAgentMessage, Instance
    <3>3. Wish' = Wish
      BY <1>4, <3>2 DEF Wish
    <3> QED
      BY <1>2, <3>1, <3>3, Abstractly DEF Pending
  <2> QED
    BY <2>2, <2>3
<1> QED
  BY <1>3, <1>4

\* A fault that the abstract specification sees loses the orders.
LEMMA FaultRefines ==
  IInv /\ FaultStep => Rollout!Next \/ UNCHANGED Rollout!vars
<1> SUFFICES ASSUME IInv, FaultStep PROVE Rollout!Next \/ UNCHANGED Rollout!vars
  OBVIOUS
<1>1. runner \in Runner
  BY DEF IInv, TypeOK
<1>2. CASE RatholeExits
  <2>1. UNCHANGED <<inst, toAgent, link>> /\ runner'.config = runner.config
    BY <1>1, <1>2 DEF RatholeExits, hubVars, netVars, Runner
  <2> QED
    BY <2>1, Abstractly DEF Wish, Pending
<1>3. CASE ~RatholeExits
  <2>1. inst' = inst /\ link' = NoConn /\ runner'.config \in {runner.config, NoConfig}
    BY <1>3 DEF FaultStep, AgentDrops, AgentRestarts, HubRestarts, Unlink, hubVars
  <2>2. Wish' = Wish /\ Pending' = <<>>
    BY <2>1 DEF Wish, Pending
  <2> QED
    BY <2>1, <2>2, Abstractly
<1> QED
  BY <1>2, <1>3

\* Whatever races, and whatever is lost on the way, a node takes the
\* configurations of the hub's record in the order in which they were recorded
\* or offered again (updateInstance, handleAgentMessage, apply_config).
THEOREM Implements == Spec => FollowsRecord
<1>1. Init => Rollout!Init
  <2> SUFFICES ASSUME Init PROVE Rollout!Init
    OBVIOUS
  <2>1. inst \in Instance /\ inst.config \in Config
    BY DEF Init, Instance, Desired
  <2>2. inst # NoInst
    BY <2>1
  <2>3. link = NoConn /\ runner.config = NoConfig
    BY DEF Init
  <2> QED
    BY <2>1, <2>2, <2>3 DEF Rollout!Init, Pending
<1>2. IInv /\ RInv /\ [Next]_vars => [Rollout!Next]_(Rollout!vars)
  <2> SUFFICES ASSUME IInv, RInv, [Next]_vars PROVE Rollout!Next \/ UNCHANGED Rollout!vars
    OBVIOUS
  <2>1. CASE UNCHANGED vars
    BY <2>1 DEF vars, Rollout!vars, Pending
  <2>2. CASE Next
    BY <2>2, RestRefines, AgentRefines, HubRefines, FaultRefines DEF Next
  <2> QED
    BY <2>1, <2>2
<1> QED
  BY AlwaysRInv, <1>1, <1>2, PTL DEF Spec, FollowsRecord, Rollout!Spec
=============================================================================
