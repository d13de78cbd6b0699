---------------------------- MODULE StatusReports ---------------------------
(***************************************************************************)
(* Status reports of one agent: the reporting loop (src/agent/src/main.rs),*)
(* the Worker's report endpoint and the D1 tables with their traffic       *)
(* triggers (src/src/worker/agent-reports.ts, src/migrations), the status  *)
(* frames older agents send to the hub instead, the seeding of the tables  *)
(* from the hub's record, and the merge of both for the panel.             *)
(*                                                                         *)
(* Each report is a task and a request of its own, so reports overtake     *)
(* each other.  They are ordered by the agent's clock.  Services are       *)
(* counted one by one, and in and out alike: the model has one service and *)
(* one direction.  A counter lives as long as the agent's process and      *)
(* belongs to the service's address, while reports give it under the       *)
(* service's name.  All months count as one.  What else a report says of   *)
(* the process, its metrics and its services goes with its time.           *)
(***************************************************************************)
EXTENDS Integers, FiniteSets

CONSTANTS
  Name,         \* names the service may have
  NoService,    \* no configured service
  NoTraffic,    \* traffic_json is NULL
  NoRow,        \* no row in agent_status
  NoReport,     \* the reporting loop has not reported yet
  NoUpgrade, Synced,   \* no upgrade or enrollment, and one that has seeded D1
  SeedTime,     \* times of the cloud's clock that a record may hold
  MaxClock, MaxBytes, MaxProcs, MaxFlights,   \* bounds
  MaxDisturbances   \* bound: edits, and corrections of the clock

ASSUME NoServiceAssumption == NoService \notin Name
ASSUME SeedTimeAssumption == SeedTime \subseteq Nat

VARIABLES
  clock,      \* the agent's clock
  agent,      \* process number, legacy or not, its service and counter
  nudge,      \* report_now was sent, or is about to be
  last,       \* the last report of this process, and whether it was in time
  flights,    \* report requests, admitted by the Worker or not yet
  d1,         \* the credential, the status row and the monthly total
  hub,        \* the instance, its socket, and what the hub's record holds
  upgrade,    \* the record an upgrade or enrollment read before it seeds D1
  deleting,   \* a DELETE is between the hub and D1
  service,    \* the configured name of the service
  carried,    \* bytes recorded by legacy and by current processes
  newest,     \* greatest time of a report so far
  edits, setbacks

boundVars == <<edits, setbacks>>
cloudVars == <<d1, hub, upgrade, deleting>>
vars == <<clock, agent, nudge, last, flights, d1, hub, upgrade, deleting,
          service, carried, newest, edits, setbacks>>

Kind(legacy) == IF legacy THEN "legacy" ELSE "current"

\* A counter as a report gives it.  total is not in the code: the bytes that
\* processes of the same kind had carried by then.
Traffic == [name : Name, bytes : Nat, total : Nat]

Report == [at : Nat, traffic : Traffic \cup {NoTraffic}, admitted : BOOLEAN]

\* fresh: received_at is not before the hub's lastSeen.
Row == [at : Nat, traffic : Traffic \cup {NoTraffic}, fresh : BOOLEAN]

\* The record of an instance, as far as D1 is seeded from it.
Snapshot == [traffic : Traffic \cup {NoTraffic}, monthly : Nat, at : Nat]

\* The marks of what is absent are no values of it.
ASSUME AbsentAssumption ==
  /\ NoTraffic \notin Traffic /\ NoRow \notin Row
  /\ NoUpgrade # Synced /\ {NoUpgrade, Synced} \cap Snapshot = {}

\* Mutation: the counter of a service that is not configured.
CountedAlways ==
  [name |-> agent.name, bytes |-> agent.bytes, total |-> carried[Kind(agent.legacy)]]

\* Runner::traffic: nothing without services.
Counted ==
  IF agent.name = NoService THEN NoTraffic
  ELSE [name |-> agent.name, bytes |-> agent.bytes,
        total |-> carried[Kind(agent.legacy)]]

(***************************************************************************)
(* The agent.                                                              *)
(***************************************************************************)

Carry ==
  /\ agent.name # NoService
  /\ carried.legacy + carried.current < MaxBytes
  /\ agent' = [agent EXCEPT !.bytes = @ + 1]
  /\ carried' = [carried EXCEPT ![Kind(agent.legacy)] = @ + 1]
  /\ UNCHANGED <<clock, nudge, last, flights, cloudVars, service, newest, boundVars>>

\* The process ends and starts anew, its version another one or not.  It has no
\* service before it is sent its configuration.
Restart(legacy) ==
  /\ agent.proc < MaxProcs
  /\ agent' = [proc |-> agent.proc + 1, legacy |-> legacy, name |-> NoService,
               bytes |-> 0]
  /\ nudge' = FALSE
  /\ last' = NoReport
  /\ hub' = [hub EXCEPT !.connected = FALSE]
  /\ UNCHANGED <<clock, flights, d1, upgrade, deleting, service, carried, newest,
                 boundVars>>

Tick ==
  /\ clock < MaxClock
  /\ clock' = clock + 1
  /\ UNCHANGED <<agent, nudge, last, flights, cloudVars, service, carried, newest,
                 boundVars>>

\* The node's clock is corrected.
SetBack ==
  /\ clock > 0
  /\ edits + setbacks < MaxDisturbances
  /\ clock' = clock - 1
  /\ setbacks' = setbacks + 1
  /\ UNCHANGED <<agent, nudge, last, flights, cloudVars, service, carried, newest,
                 edits>>

\* One pass of the reporting loop: at a heartbeat, for a change, or for the
\* nudges sent so far.  The request is a task of its own.
TakeReport(nudged) ==
  /\ ~agent.legacy
  /\ nudged => nudge
  /\ Cardinality(flights) < MaxFlights
  /\ flights' = flights \cup
       {[at |-> clock, traffic |-> Counted, admitted |-> FALSE]}
  /\ last' = [at |-> clock,
              inTime |-> clock > newest /\ (d1.row # NoRow => clock > d1.row.at)]
  /\ newest' = IF clock > newest THEN clock ELSE newest
  /\ nudge' = (nudge /\ ~nudged)
  /\ UNCHANGED <<clock, agent, cloudVars, service, carried, boundVars>>

(***************************************************************************)
(* The report endpoint.                                                    *)
(***************************************************************************)

\* The request fails or is refused: nobody sends this report again.
Dropped(f) ==
  /\ flights' = flights \ {f}
  /\ last' = IF last # NoReport /\ last.at = f.at THEN [last EXCEPT !.inTime = FALSE]
             ELSE last
  /\ UNCHANGED <<clock, agent, nudge, cloudVars, service, carried, newest, boundVars>>

Lose(f) == ~f.admitted /\ Dropped(f)

Refuse(f) == ~f.admitted /\ ~d1.credential /\ Dropped(f)

\* agentCredentialMatches; the report is stored after another await.
Admit(f) ==
  /\ ~f.admitted
  /\ d1.credential
  /\ flights' = (flights \ {f}) \cup {[f EXCEPT !.admitted = TRUE]}
  /\ UNCHANGED <<clock, agent, nudge, last, cloudVars, service, carried, newest,
                 boundVars>>

\* The traffic triggers, and accumulateMonthlyTraffic: what a snapshot adds to
\* the month.  A counter that dropped, or has no predecessor, counts in full.
Delta(before, now) ==
  IF before # NoTraffic /\ before.name = now.name /\ now.bytes >= before.bytes
  THEN now.bytes - before.bytes ELSE now.bytes

\* Mutation: a counter without a predecessor is taken for the first reading.
AddedSinceFirst(before, now) ==
  IF NoTraffic \in {before, now} THEN 0 ELSE Delta(before, now)

Added(before, now) == IF now = NoTraffic THEN 0 ELSE Delta(before, now)

OldTraffic == IF d1.row = NoRow THEN NoTraffic ELSE d1.row.traffic

\* Mutation: the upsert without its WHERE.
NewerOrLate(f) == TRUE

\* The upsert's WHERE.
Newer(f) == d1.row # NoRow => f.at > d1.row.at

\* storeAgentReport with the trigger it fires; COALESCE keeps a counter that the
\* report does not give.
Store(f) ==
  /\ f.admitted
  /\ flights' = flights \ {f}
  /\ d1' = IF Newer(f)
           THEN [d1 EXCEPT
             !.row = [at |-> f.at, fresh |-> TRUE,
                      traffic |-> IF f.traffic = NoTraffic THEN OldTraffic ELSE f.traffic],
             !.monthly = @ + Added(OldTraffic, f.traffic)]
           ELSE d1
  /\ UNCHANGED <<clock, agent, nudge, last, hub, upgrade, deleting, service, carried,
                 newest, boundVars>>

(***************************************************************************)
(* The hub and its record.                                                 *)
(***************************************************************************)

\* The hub heard from the agent: what D1 received before is older than lastSeen,
\* or of the same millisecond.
Stale(row) ==
  IF row = NoRow THEN {NoRow} ELSE {row, [row EXCEPT !.fresh = FALSE]}

\* A legacy agent's status frame, sent and handled in order.
HubStatus ==
  /\ agent.legacy
  /\ hub.connected
  /\ hub' = [hub EXCEPT
       !.traffic = IF agent.name = NoService THEN @ ELSE Counted,
       !.monthly = @ + Added(hub.traffic, Counted)]
  /\ \E row \in Stale(d1.row) : d1' = [d1 EXCEPT !.row = row]
  /\ UNCHANGED <<clock, agent, nudge, last, flights, upgrade, deleting, service,
                 carried, newest, boundVars>>

\* An upgrade or an enrollment reads the record.  at is its lastSeen or else its
\* updatedAt, a time of the cloud's clock, which the agent's may be behind.
BeginSync(at) ==
  /\ hub.there
  /\ upgrade = NoUpgrade
  /\ upgrade' = [traffic |-> hub.traffic, monthly |-> hub.monthly,
                 at |-> at]
  /\ UNCHANGED <<clock, agent, nudge, last, flights, d1, hub, deleting, service,
                 carried, newest, boundVars>>

\* What the hub has counted already, in the row: no current process counted it.
Accounted(t) == IF t = NoTraffic THEN t ELSE [t EXCEPT !.total = 0]

\* INSERT OR IGNORE without traffic, then the UPDATE that adds it to a row of the
\* same time and fires no trigger.  The hub may have heard from the agent meanwhile.
Seeded(u) ==
  LET rows == IF d1.row # NoRow THEN {d1.row}
              ELSE Stale([at |-> u.at, traffic |-> NoTraffic, fresh |-> TRUE])
  IN {IF row.at = u.at /\ row.traffic = NoTraffic
      THEN [row EXCEPT !.traffic = Accounted(u.traffic)] ELSE row : row \in rows}

\* Mutation: the hub's total is added, as the triggers add.
SummedMonthly(u) == d1.monthly + u.monthly

\* The hub's total and D1's are of the same month: the greater one stays.
SeededMonthly(u) == IF u.monthly > d1.monthly THEN u.monthly ELSE d1.monthly

\* syncAgentInstance, one batch; an enrollment ends with it, an upgrade goes on.
FinishSync(goesOn) ==
  /\ upgrade \notin {NoUpgrade, Synced}
  /\ \E row \in Seeded(upgrade) :
       d1' = [credential |-> TRUE, row |-> row, monthly |-> SeededMonthly(upgrade)]
  /\ upgrade' = IF goesOn THEN Synced ELSE NoUpgrade
  /\ UNCHANGED <<clock, agent, nudge, last, flights, hub, deleting, service, carried,
                 newest, boundVars>>

\* acceptAgent and the registration: lastSeen advances, the configuration is
\* pushed, and the agent's loop is nudged for both.
Register ==
  /\ upgrade = Synced
  /\ upgrade' = NoUpgrade
  /\ hub.there
  /\ hub' = [hub EXCEPT !.connected = TRUE]
  /\ agent' = [agent EXCEPT !.name = service]
  /\ nudge' = TRUE
  /\ \E row \in Stale(d1.row) : d1' = [d1 EXCEPT !.row = row]
  /\ UNCHANGED <<clock, last, flights, deleting, service, carried, newest, boundVars>>

\* The upgrade is given up, or refused because the instance is gone.
GiveUp ==
  /\ upgrade = Synced
  /\ upgrade' = NoUpgrade
  /\ UNCHANGED <<clock, agent, nudge, last, flights, d1, hub, deleting, service, carried,
                 newest, boundVars>>

Disconnect ==
  /\ hub.connected
  /\ hub' = [hub EXCEPT !.connected = FALSE]
  /\ UNCHANGED <<clock, agent, nudge, last, flights, d1, upgrade, deleting, service,
                 carried, newest, boundVars>>

\* The service is renamed, removed or added again; a connected agent gets the
\* configuration at once.  Its address stays, and with it the counter.
Edit(name) ==
  /\ hub.there
  /\ edits + setbacks < MaxDisturbances
  /\ edits' = edits + 1
  /\ service' = name
  /\ agent' = IF hub.connected THEN [agent EXCEPT !.name = name] ELSE agent
  /\ nudge' = (nudge \/ hub.connected)
  /\ UNCHANGED <<clock, last, flights, cloudVars, carried, newest, setbacks>>

\* DELETE: first the hub, then deleteAgentState.
DeleteInstance ==
  /\ hub.there
  /\ hub' = [hub EXCEPT !.there = FALSE, !.connected = FALSE]
  /\ deleting' = TRUE
  /\ UNCHANGED <<clock, agent, nudge, last, flights, d1, upgrade, service, carried,
                 newest, boundVars>>

DeleteAgentState ==
  /\ deleting
  /\ deleting' = FALSE
  /\ d1' = [credential |-> FALSE, row |-> NoRow, monthly |-> 0]
  /\ UNCHANGED <<clock, agent, nudge, last, flights, hub, upgrade, service, carried,
                 newest, boundVars>>

(***************************************************************************)
(* The panel: mergeAgentState.                                             *)
(***************************************************************************)

UseReport == d1.row # NoRow /\ d1.row.fresh

(***************************************************************************)
(* The specification.                                                      *)
(***************************************************************************)

\* An instance that was just created, and its agent's first process.
Init ==
  /\ clock = 1
  /\ \E legacy \in BOOLEAN :
       agent = [proc |-> 1, legacy |-> legacy, name |-> NoService, bytes |-> 0]
  /\ nudge = FALSE /\ last = NoReport /\ flights = {}
  /\ d1 = [credential |-> FALSE, row |-> NoRow, monthly |-> 0]
  /\ hub = [there |-> TRUE, connected |-> FALSE, traffic |-> NoTraffic, monthly |-> 0]
  /\ upgrade = NoUpgrade /\ deleting = FALSE
  /\ service \in Name
  /\ carried = [legacy |-> 0, current |-> 0]
  /\ newest = 0 /\ edits = 0 /\ setbacks = 0

AgentStep ==
  \/ Carry \/ Tick \/ SetBack
  \/ \E b \in BOOLEAN : Restart(b) \/ TakeReport(b)

ReportStep == \E f \in flights : Lose(f) \/ Refuse(f) \/ Admit(f) \/ Store(f)

SyncStep ==
  \/ \E at \in SeedTime : BeginSync(at)
  \/ \E b \in BOOLEAN : FinishSync(b)
  \/ Register \/ GiveUp

HubStep ==
  \/ HubStatus \/ Disconnect \/ DeleteInstance \/ DeleteAgentState
  \/ \E name \in Name \cup {NoService} : Edit(name)

Next == AgentStep \/ ReportStep \/ SyncStep \/ HubStep

Spec == Init /\ [][Next]_vars

(***************************************************************************)
(* Properties.                                                             *)
(***************************************************************************)

\* Every variable keeps its type.
TypeOK ==
  /\ clock \in Nat /\ newest \in Nat /\ edits \in Nat /\ setbacks \in Nat
  /\ agent \in [proc : Nat, legacy : BOOLEAN, name : Name \cup {NoService},
                bytes : Nat]
  /\ nudge \in BOOLEAN /\ deleting \in BOOLEAN
  /\ last \in {NoReport} \cup [at : Nat, inTime : BOOLEAN]
  /\ \A f \in flights : f \in Report
  /\ d1 \in [credential : BOOLEAN, row : {NoRow} \cup Row, monthly : Nat]
  /\ hub \in [there : BOOLEAN, connected : BOOLEAN,
              traffic : Traffic \cup {NoTraffic}, monthly : Nat]
  /\ upgrade \in {NoUpgrade, Synced} \cup Snapshot
  /\ service \in Name \cup {NoService}
  /\ carried \in [legacy : Nat, current : Nat]

\* While services keep their names and the node's clock is not set back, no byte
\* is counted twice: not by a late report, a restart, the seeding of D1, nor by
\* the hub and D1 both during a rolling upgrade.
NeverOvercounts ==
  edits = 0 /\ setbacks = 0
    => d1.monthly <= carried.legacy + carried.current /\ hub.monthly <= carried.legacy

\* In the life of one process, whatever reports were lost or overtaken, the
\* month holds exactly what the newest stored report counted.
EveryByteCounts ==
  edits = 0 /\ setbacks = 0 /\ agent.proc = 1 /\ ~agent.legacy /\ OldTraffic # NoTraffic
    => d1.monthly = OldTraffic.bytes

\* When nothing is on its way to a connected agent or from it, the panel shows the
\* last report: a registration or a late report never hides it.  Excepted are a
\* report that was lost, and one whose millisecond is not a new one.
PanelIsCurrent ==
  hub.connected /\ flights = {} /\ ~nudge /\ last # NoReport /\ last.inTime
    => UseReport /\ d1.row.at = last.at

=============================================================================
