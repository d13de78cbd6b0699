------------------------- MODULE StatusReportsProofs ------------------------
(***************************************************************************)
(* What StatusReports promises, for any names, times and bounds.           *)
(*                                                                         *)
(* The panel: the last report in time is shown, or it is on its way and    *)
(* newer than the row (Shown).  That needs the row of a connected instance *)
(* (Sockets) and that no report is newer than the last (InTime).           *)
(*                                                                         *)
(* The month: for two snapshots in the order of their times, what the      *)
(* triggers would add between them is at most what was carried between     *)
(* them (Before), and so from any snapshot to the agent as it is now       *)
(* (Behind).  The month is then at most what legacy processes carried and  *)
(* what the row's snapshot had seen of current ones (Totals).              *)
(*                                                                         *)
(* One process: its snapshots grow with their times (OneReports), so that  *)
(* the month holds the row's counter (OneTotal).                           *)
(***************************************************************************)
EXTENDS StatusReports, TLAPS

\* A connected instance is there, and its row exists.
Sockets ==
  /\ deleting => ~hub.there
  /\ hub.connected => hub.there
  /\ hub.connected \/ (hub.there /\ upgrade = Synced) => d1.row # NoRow
  /\ agent.legacy => last = NoReport

\* A report in time is the newest.
InTime ==
  /\ \A f \in flights : f.at <= newest
  /\ last # NoReport /\ last.inTime => last.at = newest

\* The last report is shown, or it is on its way and newer than the row.
Shown ==
  hub.connected /\ ~nudge /\ last # NoReport /\ last.inTime
    => \/ UseReport /\ d1.row.at = last.at
       \/ d1.row.at < last.at /\ \E f \in flights : f.at = last.at

\* No edit yet and no correction of the clock.
Clean == edits = 0 /\ setbacks = 0

\* What the agent's process has counted, whether it has its service yet or not.
Reading == [name |-> service, bytes |-> agent.bytes, total |-> carried.current]

\* Between two snapshots at least that was carried which the month is told.
Before(t, u) == t.total + Delta(t, u) <= u.total

\* No snapshot is ahead of the agent.
Behind(t) ==
  IF agent.legacy THEN t.total <= carried.current ELSE Before(t, Reading)

\* The agent counts under the configured name no more than was carried.
Counter ==
  /\ agent.name \in {NoService, service}
  /\ agent.bytes <= carried[Kind(agent.legacy)]

\* The snapshots on their way and in the row, in the order of their times.
Snapshots ==
  /\ newest <= clock
  /\ OldTraffic # NoTraffic => Behind(OldTraffic)
  /\ \A f \in flights : f.traffic # NoTraffic =>
       /\ f.traffic.bytes <= f.traffic.total
       /\ Behind(f.traffic)
       /\ OldTraffic # NoTraffic /\ f.at > d1.row.at => Before(OldTraffic, f.traffic)
       /\ \A g \in flights :
            g.traffic # NoTraffic /\ f.at < g.at => Before(f.traffic, g.traffic)

\* What the hub has counted, and would count at the next frame.
HubCounted ==
  hub.monthly + (IF agent.legacy THEN Delta(hub.traffic, Reading) ELSE 0)
    <= carried.legacy

\* What the hub has counted, an upgrade has read and the month holds.
Totals ==
  /\ HubCounted
  /\ upgrade \in Snapshot => upgrade.monthly <= carried.legacy
  /\ d1.monthly <= carried.legacy
       + (IF OldTraffic = NoTraffic THEN 0 ELSE OldTraffic.total)

Counting == Clean => Counter /\ Snapshots /\ Totals

\* One process that is not a legacy one: all that is counted is its counter.
Single == Clean /\ agent.proc = 1 /\ ~agent.legacy

\* Of two reports the later has the greater counter, the row being one of them.
OneReports ==
  /\ \A f \in flights : f.traffic # NoTraffic =>
       /\ f.traffic.name = service /\ f.traffic.bytes <= agent.bytes
       /\ OldTraffic # NoTraffic /\ f.at > d1.row.at
            => f.traffic.bytes >= OldTraffic.bytes
       /\ \A g \in flights : g.traffic # NoTraffic /\ f.at < g.at
            => f.traffic.bytes <= g.traffic.bytes
  /\ OldTraffic # NoTraffic =>
       OldTraffic.name = service /\ OldTraffic.bytes <= agent.bytes

\* The month holds the row's counter.
OneTotal ==
  d1.monthly = IF OldTraffic = NoTraffic THEN 0 ELSE OldTraffic.bytes

\* The hub has counted nothing, so it seeds nothing.
HubSilent ==
  /\ hub.traffic = NoTraffic /\ hub.monthly = 0
  /\ upgrade \in Snapshot => upgrade.traffic = NoTraffic /\ upgrade.monthly = 0

OneCounter ==
  agent.proc > 0 /\ (Single => HubSilent /\ OneReports /\ OneTotal)

IInv == TypeOK /\ Sockets /\ InTime /\ Shown /\ Counting /\ OneCounter

(***************************************************************************)
(* Facts about the operators.                                              *)
(***************************************************************************)

\* A reading, between the counters as they are.
LEMMA DeltaFacts ==
  ASSUME NEW t \in Traffic \cup {NoTraffic}, NEW u, u.bytes \in Nat
  PROVE  Delta(t, u) \in Nat /\ Delta(t, u) <= u.bytes
BY DEF Delta, Traffic

\* A byte more on the counter raises the reading by one at most.
LEMMA DeltaNext ==
  ASSUME NEW t \in Traffic \cup {NoTraffic}, NEW u, NEW v,
         u.bytes \in Nat, v.name = u.name, v.bytes = u.bytes + 1
  PROVE  Delta(t, v) <= Delta(t, u) + 1
BY DEF Delta, Traffic

\* What the agent reports of its counter.
LEMMA CountedType ==
  ASSUME TypeOK
  PROVE  Counted \in Traffic \cup {NoTraffic}
BY DEF Counted, TypeOK, Traffic, Kind

\* The counter of the row, if there are both.
LEMMA OldTrafficType ==
  ASSUME TypeOK
  PROVE  OldTraffic \in Traffic \cup {NoTraffic}
BY DEF OldTraffic, TypeOK, Row

\* A registration changes at most which report counts as fresh.
LEMMA StaleFacts ==
  ASSUME TypeOK, NEW row \in Stale(d1.row)
  PROVE  /\ row \in {NoRow} \cup Row
         /\ d1.row = NoRow <=> row = NoRow
         /\ row # NoRow => row.at = d1.row.at /\ row.traffic = d1.row.traffic
<1>1. CASE d1.row = NoRow
  BY <1>1 DEF Stale
<1>2. CASE d1.row # NoRow
  <2>1. d1.row \in Row /\ [d1.row EXCEPT !.fresh = FALSE] \in Row
    BY <1>2 DEF TypeOK, Row
  <2>2. row = d1.row \/ row = [d1.row EXCEPT !.fresh = FALSE]
    BY <1>2 DEF Stale
  <2>3. row \in Row /\ row.at = d1.row.at /\ row.traffic = d1.row.traffic
    BY <2>1, <2>2 DEF Row
  <2> QED
    BY <1>2, <2>3, AbsentAssumption
<1> QED
  BY <1>1, <1>2

\* Seeding leaves a row that is there alone but for a counter it does not have.
LEMMA SeededFacts ==
  ASSUME TypeOK, upgrade \in Snapshot, NEW row \in Seeded(upgrade)
  PROVE  /\ row \in Row /\ row # NoRow
         /\ d1.row # NoRow => row.at = d1.row.at /\ row.fresh = d1.row.fresh
         /\ \/ d1.row # NoRow /\ row.traffic = d1.row.traffic
            \/ OldTraffic = NoTraffic /\ row.traffic = Accounted(upgrade.traffic)
            \/ OldTraffic = NoTraffic /\ row.traffic = NoTraffic
<1>1. Accounted(upgrade.traffic) \in Traffic \cup {NoTraffic}
  BY DEF Accounted, Snapshot, Traffic
<1>2. CASE d1.row # NoRow
  BY <1>1, <1>2, AbsentAssumption DEF Seeded, TypeOK, Row, OldTraffic
<1>3. CASE d1.row = NoRow
  <2> DEFINE fresh == [at |-> upgrade.at, traffic |-> NoTraffic, fresh |-> TRUE]
  <2>1. /\ fresh \in Row /\ fresh.traffic = NoTraffic
        /\ [fresh EXCEPT !.fresh = FALSE] \in Row
        /\ [fresh EXCEPT !.fresh = FALSE].traffic = NoTraffic
    BY DEF Row, Snapshot
  <2>2. PICK r \in Stale(fresh) :
          row = IF r.at = upgrade.at /\ r.traffic = NoTraffic
                THEN [r EXCEPT !.traffic = Accounted(upgrade.traffic)] ELSE r
    BY <1>3 DEF Seeded
  <2>3. r = fresh \/ r = [fresh EXCEPT !.fresh = FALSE]
    BY <2>1, <2>2, AbsentAssumption DEF Stale
  <2>5. r \in Row /\ r.traffic = NoTraffic
    BY <2>1, <2>3
  <2>4. row \in Row
    BY <1>1, <2>2, <2>5 DEF Row
  <2>6. row.traffic \in {NoTraffic, Accounted(upgrade.traffic)}
    BY <2>2, <2>5 DEF Row
  <2> QED
    BY <1>3, <2>4, <2>6, AbsentAssumption DEF OldTraffic, Row
<1> QED
  BY <1>2, <1>3

\* A registration or a frame of a legacy agent changes nothing else of the row.
LEMMA KeptFacts ==
  ASSUME TypeOK, \E row \in Stale(d1.row) : d1' = [d1 EXCEPT !.row = row]
  PROVE  /\ d1' \in [credential : BOOLEAN, row : {NoRow} \cup Row, monthly : Nat]
         /\ d1'.row = NoRow <=> d1.row = NoRow
         /\ d1.row # NoRow => d1'.row.at = d1.row.at
         /\ OldTraffic' = OldTraffic /\ d1'.monthly = d1.monthly
<1>1. PICK row \in Stale(d1.row) : d1' = [d1 EXCEPT !.row = row]
  OBVIOUS
<1>2. d1' \in [credential : BOOLEAN, row : {NoRow} \cup Row, monthly : Nat]
      /\ d1'.row = row /\ d1'.monthly = d1.monthly
  BY <1>1, StaleFacts DEF TypeOK
<1> QED
  BY <1>2, StaleFacts DEF OldTraffic

\* A stored report becomes the row if it is newer, and else changes nothing.
LEMMA StoreFacts ==
  ASSUME TypeOK, NEW f \in flights, Store(f)
  PROVE  /\ d1' \in [credential : BOOLEAN, row : {NoRow} \cup Row, monthly : Nat]
         /\ ~Newer(f) => d1' = d1
         /\ Newer(f) =>
              /\ d1'.row # NoRow /\ d1'.row.at = f.at /\ d1'.row.fresh
              /\ OldTraffic' = IF f.traffic = NoTraffic THEN OldTraffic ELSE f.traffic
              /\ d1'.monthly = d1.monthly + Added(OldTraffic, f.traffic)
<1> DEFINE traffic == IF f.traffic = NoTraffic THEN OldTraffic ELSE f.traffic
           row == [at |-> f.at, fresh |-> TRUE, traffic |-> traffic]
<1>1. f \in Report
  BY DEF TypeOK
<1>2. traffic \in Traffic \cup {NoTraffic}
  BY <1>1, OldTrafficType DEF Report
<1> HIDE DEF traffic
<1>3. row \in Row /\ row # NoRow /\ row.at = f.at /\ row.fresh /\ row.traffic = traffic
  <2>1. row \in Row
    BY <1>1, <1>2 DEF Row, Report
  <2>2. row.at = f.at /\ row.fresh /\ row.traffic = traffic
    OBVIOUS
  <2> QED
    BY <2>1, <2>2, AbsentAssumption
<1>4. d1.monthly + Added(OldTraffic, f.traffic) \in Nat
  <2>1. Added(OldTraffic, f.traffic) \in Nat
    BY <1>1, OldTrafficType, DeltaFacts DEF Added, Report, Traffic
  <2> QED
    BY <2>1 DEF TypeOK
<1>5. d1' = IF Newer(f) THEN [d1 EXCEPT !.row = row,
                               !.monthly = @ + Added(OldTraffic, f.traffic)]
            ELSE d1
  BY DEF Store, traffic
<1> HIDE DEF row
<1>6. d1' \in [credential : BOOLEAN, row : {NoRow} \cup Row, monthly : Nat]
  BY <1>3, <1>4, <1>5 DEF TypeOK
<1>7. Newer(f) => d1'.row = row /\ d1'.monthly = d1.monthly + Added(OldTraffic, f.traffic)
  BY <1>5 DEF TypeOK
<1> QED
  BY <1>3, <1>5, <1>6, <1>7 DEF OldTraffic, traffic

\* What a synchronization leaves in D1.
LEMMA FinishSyncFacts ==
  ASSUME TypeOK, NEW b, FinishSync(b)
  PROVE  /\ upgrade \in Snapshot
         /\ d1' \in [credential : BOOLEAN, row : {NoRow} \cup Row, monthly : Nat]
         /\ d1'.row \in Row /\ d1'.row # NoRow
         /\ d1.row # NoRow => d1'.row.at = d1.row.at /\ d1'.row.fresh = d1.row.fresh
         /\ \/ d1.row # NoRow /\ OldTraffic' = OldTraffic
            \/ OldTraffic = NoTraffic /\ OldTraffic' = Accounted(upgrade.traffic)
            \/ OldTraffic = NoTraffic /\ OldTraffic' = NoTraffic
         /\ d1'.monthly = SeededMonthly(upgrade)
<1>1. upgrade \in Snapshot
  BY DEF FinishSync, TypeOK
<1>2. PICK row \in Seeded(upgrade) :
        d1' = [credential |-> TRUE, row |-> row, monthly |-> SeededMonthly(upgrade)]
  BY DEF FinishSync
<1>3. SeededMonthly(upgrade) \in Nat
  BY <1>1 DEF SeededMonthly, Snapshot, TypeOK
<1>4. d1'.row = row /\ d1'.monthly = SeededMonthly(upgrade)
      /\ (row \in Row =>
            d1' \in [credential : BOOLEAN, row : {NoRow} \cup Row, monthly : Nat])
  BY <1>2, <1>3
<1> QED
  BY <1>1, <1>4, SeededFacts DEF OldTraffic

\* A dropped report leaves the types alone.
LEMMA DroppedType ==
  ASSUME TypeOK, NEW f \in flights, Dropped(f)
  PROVE  TypeOK'
<1>1. last' \in {NoReport} \cup [at : Nat, inTime : BOOLEAN]
  <2>1. CASE last # NoReport /\ last.at = f.at
    BY <2>1 DEF Dropped, TypeOK
  <2>2. CASE ~(last # NoReport /\ last.at = f.at)
    BY <2>2 DEF Dropped, TypeOK
  <2> QED
    BY <2>1, <2>2
<1> QED
  BY <1>1 DEF Dropped, TypeOK, cloudVars, boundVars

(***************************************************************************)
(* Types.                                                                  *)
(***************************************************************************)

\* Every variable keeps its type.
LEMMA TypeStep == TypeOK /\ [Next]_vars => TypeOK'
<1> SUFFICES ASSUME TypeOK, [Next]_vars PROVE TypeOK'
  OBVIOUS
<1> USE SeedTimeAssumption DEF cloudVars, boundVars
<1>1. CASE Carry
  BY <1>1 DEF Carry, TypeOK, Kind, Report
<1>2. CASE Tick
  BY <1>2 DEF Tick, TypeOK
<1>3. CASE SetBack
  BY <1>3 DEF SetBack, TypeOK
<1>4. ASSUME NEW b \in BOOLEAN, Restart(b) PROVE TypeOK'
  <2>1. hub' \in [there : BOOLEAN, connected : BOOLEAN,
                 traffic : Traffic \cup {NoTraffic}, monthly : Nat]
    BY <1>4 DEF Restart, TypeOK
  <2>2. agent' \in [proc : Nat, legacy : BOOLEAN, name : Name \cup {NoService},
                   bytes : Nat]
    BY <1>4 DEF Restart, TypeOK
  <2> QED
    BY <2>1, <2>2, <1>4 DEF Restart, TypeOK
<1>5. ASSUME NEW b \in BOOLEAN, TakeReport(b) PROVE TypeOK'
  <2>1. [at |-> clock, traffic |-> Counted, admitted |-> FALSE] \in Report
    BY CountedType DEF Report, TypeOK
  <2>2. \A f \in flights' : f \in Report
    BY <2>1, <1>5 DEF TakeReport, TypeOK
  <2> QED
    BY <2>2, <1>5 DEF TakeReport, TypeOK
<1>6. ASSUME NEW f \in flights, Lose(f) PROVE TypeOK'
  BY <1>6, DroppedType DEF Lose
<1>7. ASSUME NEW f \in flights, Refuse(f) PROVE TypeOK'
  BY <1>7, DroppedType DEF Refuse
<1>8. ASSUME NEW f \in flights, Admit(f) PROVE TypeOK'
  <2>1. f \in Report /\ [f EXCEPT !.admitted = TRUE] \in Report
    BY DEF TypeOK, Report
  <2>2. \A g \in flights' : g \in Report
    BY <2>1, <1>8 DEF Admit, TypeOK
  <2> QED
    BY <2>2, <1>8 DEF Admit, TypeOK
<1>9. ASSUME NEW f \in flights, Store(f) PROVE TypeOK'
  <2>1. d1' \in [credential : BOOLEAN, row : {NoRow} \cup Row, monthly : Nat]
    BY <1>9, StoreFacts
  <2>2. \A g \in flights' : g \in Report
    BY <1>9 DEF Store, TypeOK
  <2> QED
    BY <2>1, <2>2, <1>9 DEF Store, TypeOK
<1>10. ASSUME NEW at \in SeedTime, BeginSync(at) PROVE TypeOK'
  BY <1>10 DEF BeginSync, TypeOK, Snapshot
<1>11. ASSUME NEW b \in BOOLEAN, FinishSync(b) PROVE TypeOK'
  <2>1. d1' \in [credential : BOOLEAN, row : {NoRow} \cup Row, monthly : Nat]
    BY <1>11, FinishSyncFacts
  <2> QED
    BY <2>1, <1>11 DEF FinishSync, TypeOK
<1>12. CASE Register
  <2>1. d1' \in [credential : BOOLEAN, row : {NoRow} \cup Row, monthly : Nat]
    BY <1>12, KeptFacts DEF Register, TypeOK
  <2> QED
    BY <2>1, <1>12 DEF Register, TypeOK
<1>13. CASE GiveUp
  BY <1>13 DEF GiveUp, TypeOK
<1>14. CASE HubStatus
  <2>1. d1' \in [credential : BOOLEAN, row : {NoRow} \cup Row, monthly : Nat]
    BY <1>14, KeptFacts DEF HubStatus, TypeOK
  <2>2. Counted \in Traffic \cup {NoTraffic}
    BY CountedType
  <2>3. Added(hub.traffic, Counted) \in Nat
    BY <2>2, DeltaFacts DEF Added, TypeOK, Traffic
  <2>4. (IF agent.name = NoService THEN hub.traffic ELSE Counted)
          \in Traffic \cup {NoTraffic}
    BY <2>2 DEF TypeOK
  <2>5. hub' \in [there : BOOLEAN, connected : BOOLEAN,
                 traffic : Traffic \cup {NoTraffic}, monthly : Nat]
    <3>1. hub.monthly + Added(hub.traffic, Counted) \in Nat
      BY <2>3 DEF TypeOK
    <3> QED
      BY <2>4, <3>1, <1>14 DEF HubStatus, TypeOK
  <2> QED
    BY <2>1, <2>5, <1>14 DEF HubStatus, TypeOK
<1>15. CASE Disconnect
  BY <1>15 DEF Disconnect, TypeOK
<1>16. CASE DeleteInstance
  BY <1>16 DEF DeleteInstance, TypeOK
<1>17. CASE DeleteAgentState
  BY <1>17 DEF DeleteAgentState, TypeOK
<1>18. ASSUME NEW name \in Name \cup {NoService}, Edit(name) PROVE TypeOK'
  BY <1>18 DEF Edit, TypeOK
<1>19. CASE UNCHANGED vars
  BY <1>19 DEF TypeOK, vars
<1> QED
  BY <1>1, <1>2, <1>3, <1>4, <1>5, <1>6, <1>7, <1>8, <1>9, <1>10, <1>11,
     <1>12, <1>13, <1>14, <1>15, <1>16, <1>17, <1>18, <1>19 DEF Next,
     AgentStep, ReportStep, SyncStep, HubStep

(***************************************************************************)
(* The panel.                                                              *)
(***************************************************************************)

\* A connected instance is there, and its row exists.
LEMMA SocketsStep == TypeOK /\ Sockets /\ [Next]_vars => Sockets'
<1> SUFFICES ASSUME TypeOK, Sockets, [Next]_vars PROVE Sockets'
  OBVIOUS
<1> USE SeedTimeAssumption DEF cloudVars, boundVars
<1>1. CASE Carry
  BY <1>1 DEF Carry, Sockets, TypeOK
<1>2. CASE Tick
  BY <1>2 DEF Tick, Sockets, TypeOK
<1>3. CASE SetBack
  BY <1>3 DEF SetBack, Sockets, TypeOK
<1>4. ASSUME NEW b \in BOOLEAN, Restart(b) PROVE Sockets'
  BY <1>4 DEF Restart, Sockets, TypeOK
<1>5. ASSUME NEW b \in BOOLEAN, TakeReport(b) PROVE Sockets'
  BY <1>5 DEF TakeReport, Sockets, TypeOK
<1>6. ASSUME NEW f \in flights, Lose(f) PROVE Sockets'
  BY <1>6 DEF Lose, Dropped, Sockets
<1>7. ASSUME NEW f \in flights, Refuse(f) PROVE Sockets'
  BY <1>7 DEF Refuse, Dropped, Sockets
<1>8. ASSUME NEW f \in flights, Admit(f) PROVE Sockets'
  BY <1>8 DEF Admit, Sockets, TypeOK
<1>9. ASSUME NEW f \in flights, Store(f) PROVE Sockets'
  BY <1>9, StoreFacts DEF Store, Sockets
<1>10. ASSUME NEW at \in SeedTime, BeginSync(at) PROVE Sockets'
  <2>1. upgrade' # Synced
    BY <1>10, AbsentAssumption DEF BeginSync, Snapshot, TypeOK
  <2> QED
    BY <2>1, <1>10 DEF BeginSync, Sockets
<1>11. ASSUME NEW b \in BOOLEAN, FinishSync(b) PROVE Sockets'
  BY <1>11, FinishSyncFacts DEF FinishSync, Sockets
<1>12. CASE Register
  <2>1. d1'.row # NoRow
    BY <1>12, KeptFacts DEF Register, Sockets
  <2>2. hub'.there /\ ~deleting'
    BY <1>12 DEF Register, Sockets, TypeOK
  <2> QED
    BY <2>1, <2>2, <1>12 DEF Register, Sockets, TypeOK
<1>13. CASE GiveUp
  BY <1>13, AbsentAssumption DEF GiveUp, Sockets
<1>14. CASE HubStatus
  <2>1. d1'.row # NoRow
    BY <1>14, KeptFacts DEF HubStatus, Sockets
  <2>2. hub'.there /\ ~deleting'
    BY <1>14 DEF HubStatus, Sockets, TypeOK
  <2> QED
    BY <2>1, <2>2, <1>14 DEF HubStatus, Sockets
<1>15. CASE Disconnect
  BY <1>15 DEF Disconnect, Sockets, TypeOK
<1>16. CASE DeleteInstance
  BY <1>16 DEF DeleteInstance, Sockets, TypeOK
<1>17. CASE DeleteAgentState
  BY <1>17 DEF DeleteAgentState, Sockets, TypeOK
<1>18. ASSUME NEW name \in Name \cup {NoService}, Edit(name) PROVE Sockets'
  BY <1>18 DEF Edit, Sockets, TypeOK
<1>19. CASE UNCHANGED vars
  BY <1>19 DEF Sockets, vars
<1> QED
  BY <1>1, <1>2, <1>3, <1>4, <1>5, <1>6, <1>7, <1>8, <1>9, <1>10, <1>11,
     <1>12, <1>13, <1>14, <1>15, <1>16, <1>17, <1>18, <1>19 DEF Next,
     AgentStep, ReportStep, SyncStep, HubStep

\* A dropped report leaves the other reports alone.
LEMMA DroppedPanel ==
  ASSUME TypeOK, NEW f \in flights, Dropped(f)
  PROVE  /\ InTime => InTime'
         /\ Shown => Shown'
<1> USE DEF cloudVars, boundVars
<1>1. CASE last # NoReport /\ last.at = f.at
  <2>1. ~last'.inTime
    BY <1>1 DEF Dropped, TypeOK
  <2> QED
    BY <2>1 DEF Dropped, InTime, Shown
<1>2. CASE ~(last # NoReport /\ last.at = f.at)
  <2>1. last' = last
    BY <1>2 DEF Dropped
  <2> QED
    BY <1>2, <2>1 DEF Dropped, InTime, Shown, UseReport
<1> QED
  BY <1>1, <1>2

\* A report in time is the newest.
LEMMA InTimeStep == TypeOK /\ InTime /\ [Next]_vars => InTime'
<1> SUFFICES ASSUME TypeOK, InTime, [Next]_vars PROVE InTime'
  OBVIOUS
<1> USE DEF cloudVars, boundVars
<1>1. CASE Carry
  BY <1>1 DEF Carry, InTime
<1>2. CASE Tick
  BY <1>2 DEF Tick, InTime
<1>3. CASE SetBack
  BY <1>3 DEF SetBack, InTime
<1>4. ASSUME NEW b \in BOOLEAN, Restart(b) PROVE InTime'
  BY <1>4 DEF Restart, InTime
<1>5. ASSUME NEW b \in BOOLEAN, TakeReport(b) PROVE InTime'
  <2>1. \A g \in flights' : g.at <= newest'
    BY <1>5 DEF TakeReport, InTime, TypeOK, Report
  <2> QED
    BY <2>1, <1>5 DEF TakeReport, InTime, TypeOK
<1>6. ASSUME NEW f \in flights, Lose(f) PROVE InTime'
  BY <1>6, DroppedPanel DEF Lose
<1>7. ASSUME NEW f \in flights, Refuse(f) PROVE InTime'
  BY <1>7, DroppedPanel DEF Refuse
<1>8. ASSUME NEW f \in flights, Admit(f) PROVE InTime'
  <2>1. f \in Report
    BY DEF TypeOK
  <2> QED
    BY <2>1, <1>8 DEF Admit, InTime, Report
<1>9. ASSUME NEW f \in flights, Store(f) PROVE InTime'
  BY <1>9 DEF Store, InTime
<1>10. ASSUME NEW at \in SeedTime, BeginSync(at) PROVE InTime'
  BY <1>10 DEF BeginSync, InTime
<1>11. ASSUME NEW b \in BOOLEAN, FinishSync(b) PROVE InTime'
  BY <1>11 DEF FinishSync, InTime
<1>12. CASE Register
  BY <1>12 DEF Register, InTime
<1>13. CASE GiveUp
  BY <1>13 DEF GiveUp, InTime
<1>14. CASE HubStatus
  BY <1>14 DEF HubStatus, InTime
<1>15. CASE Disconnect
  BY <1>15 DEF Disconnect, InTime
<1>16. CASE DeleteInstance
  BY <1>16 DEF DeleteInstance, InTime
<1>17. CASE DeleteAgentState
  BY <1>17 DEF DeleteAgentState, InTime
<1>18. ASSUME NEW name \in Name \cup {NoService}, Edit(name) PROVE InTime'
  BY <1>18 DEF Edit, InTime
<1>19. CASE UNCHANGED vars
  BY <1>19 DEF InTime, vars
<1> QED
  BY <1>1, <1>2, <1>3, <1>4, <1>5, <1>6, <1>7, <1>8, <1>9, <1>10, <1>11,
     <1>12, <1>13, <1>14, <1>15, <1>16, <1>17, <1>18, <1>19 DEF Next,
     AgentStep, ReportStep, SyncStep, HubStep

\* The last report is shown, or it is on its way and newer than the row.
LEMMA ShownStep ==
  TypeOK /\ Sockets /\ InTime /\ Shown /\ [Next]_vars => Shown'
<1> SUFFICES ASSUME TypeOK, Sockets, InTime, Shown, [Next]_vars PROVE Shown'
  OBVIOUS
<1> USE DEF cloudVars, boundVars
<1>1. CASE Carry
  BY <1>1 DEF Carry, Shown, UseReport
<1>2. CASE Tick
  BY <1>2 DEF Tick, Shown, UseReport
<1>3. CASE SetBack
  BY <1>3 DEF SetBack, Shown, UseReport
<1>4. ASSUME NEW b \in BOOLEAN, Restart(b) PROVE Shown'
  BY <1>4 DEF Restart, Shown
<1>5. ASSUME NEW b \in BOOLEAN, TakeReport(b) PROVE Shown'
  <2> DEFINE f == [at |-> clock, traffic |-> Counted, admitted |-> FALSE]
  <2>1. SUFFICES ASSUME hub.connected, last'.inTime
                 PROVE  d1'.row.at < last'.at /\ \E g \in flights' : g.at = last'.at
    BY <1>5 DEF TakeReport, Shown
  <2>2. d1.row # NoRow /\ clock > d1.row.at
    BY <2>1, <1>5 DEF TakeReport, Sockets
  <2>3. f \in flights' /\ f.at = clock
    BY <1>5 DEF TakeReport
  <2>4. last'.at = clock /\ d1' = d1 /\ d1.row.at \in Nat
    BY <2>2, <1>5 DEF TakeReport, TypeOK, Row
  <2> QED
    BY <2>2, <2>3, <2>4 DEF TypeOK
<1>6. ASSUME NEW f \in flights, Lose(f) PROVE Shown'
  BY <1>6, DroppedPanel DEF Lose
<1>7. ASSUME NEW f \in flights, Refuse(f) PROVE Shown'
  BY <1>7, DroppedPanel DEF Refuse
<1>8. ASSUME NEW f \in flights, Admit(f) PROVE Shown'
  <2>1. f \in Report
    BY DEF TypeOK
  <2>2. [f EXCEPT !.admitted = TRUE].at = f.at
    BY <2>1 DEF Report
  <2>3. \A g \in flights : \E h \in flights' : h.at = g.at
    BY <2>2, <1>8 DEF Admit
  <2> QED
    BY <2>3, <1>8 DEF Admit, Shown, UseReport
<1>9. ASSUME NEW f \in flights, Store(f) PROVE Shown'
  <2> SUFFICES ASSUME hub.connected, ~nudge, last # NoReport, last.inTime
               PROVE  \/ UseReport' /\ d1'.row.at = last.at
                      \/ d1'.row.at < last.at /\ \E g \in flights' : g.at = last.at
    BY <1>9 DEF Store, Shown
  <2>1. d1.row # NoRow /\ d1.row \in Row /\ f \in Report /\ last.at \in Nat
    BY DEF Sockets, TypeOK
  <2>2. f.at <= last.at
    BY DEF InTime
  <2>3. CASE UseReport /\ d1.row.at = last.at
    <3>1. ~Newer(f)
      BY <2>1, <2>2, <2>3 DEF Newer, Report
    <3> QED
      BY <2>3, <3>1, <1>9, StoreFacts DEF UseReport
  <2>4. CASE d1.row.at < last.at /\ \E g \in flights : g.at = last.at
    <3>1. CASE f.at = last.at
      <4>1. Newer(f)
        BY <2>1, <2>4, <3>1 DEF Newer
      <4> QED
        BY <3>1, <4>1, <1>9, StoreFacts DEF UseReport
    <3>2. CASE f.at # last.at
      <4>1. \E g \in flights' : g.at = last.at
        BY <2>4, <3>2, <1>9 DEF Store
      <4>2. d1'.row.at < last.at
        BY <2>1, <2>2, <2>4, <3>2, <1>9, StoreFacts DEF Report
      <4> QED
        BY <4>1, <4>2
    <3> QED
      BY <3>1, <3>2
  <2> QED
    BY <2>3, <2>4 DEF Shown
<1>10. ASSUME NEW at \in SeedTime, BeginSync(at) PROVE Shown'
  BY <1>10 DEF BeginSync, Shown, UseReport
<1>11. ASSUME NEW b \in BOOLEAN, FinishSync(b) PROVE Shown'
  <2>1. d1.row # NoRow => d1'.row # NoRow /\ d1'.row.at = d1.row.at
                          /\ d1'.row.fresh = d1.row.fresh
    BY <1>11, FinishSyncFacts
  <2> QED
    BY <2>1, <1>11 DEF FinishSync, Shown, Sockets, UseReport
<1>12. CASE Register
  BY <1>12 DEF Register, Shown, UseReport
<1>13. CASE GiveUp
  BY <1>13 DEF GiveUp, Shown, UseReport
<1>14. CASE HubStatus
  BY <1>14 DEF HubStatus, Shown, Sockets
<1>15. CASE Disconnect
  BY <1>15 DEF Disconnect, Shown, TypeOK
<1>16. CASE DeleteInstance
  BY <1>16 DEF DeleteInstance, Shown, TypeOK
<1>17. CASE DeleteAgentState
  BY <1>17 DEF DeleteAgentState, Shown, Sockets
<1>18. ASSUME NEW name \in Name \cup {NoService}, Edit(name) PROVE Shown'
  BY <1>18 DEF Edit, Shown, UseReport
<1>19. CASE UNCHANGED vars
  BY <1>19 DEF Shown, UseReport, vars
<1> QED
  BY <1>1, <1>2, <1>3, <1>4, <1>5, <1>6, <1>7, <1>8, <1>9, <1>10, <1>11,
     <1>12, <1>13, <1>14, <1>15, <1>16, <1>17, <1>18, <1>19 DEF Next,
     AgentStep, ReportStep, SyncStep, HubStep

(***************************************************************************)
(* The month.                                                              *)
(***************************************************************************)

\* The agent's reading in plain numbers.
LEMMA ReadingFacts ==
  ASSUME TypeOK
  PROVE  /\ Reading.name = service /\ Reading.bytes = agent.bytes
         /\ Reading.total = carried.current
         /\ agent.bytes \in Nat /\ carried.current \in Nat /\ carried.legacy \in Nat
BY DEF TypeOK, Reading

\* Steps that touch no counter and no total: they take reports away or mark
\* them as admitted, or change only what is not counted.
LEMMA CountingKept ==
  ASSUME TypeOK, Counting, Clean' => Clean,
         agent' = agent \/ (agent' = [agent EXCEPT !.name = service]),
         service' = service, carried' = carried, newest' = newest,
         clock' = clock \/ clock' = clock + 1,
         \A f \in flights' : \E g \in flights : f.at = g.at /\ f.traffic = g.traffic,
         OldTraffic' = OldTraffic,
         OldTraffic # NoTraffic => d1'.row.at = d1.row.at,
         d1'.monthly = d1.monthly,
         hub'.monthly = hub.monthly, hub'.traffic = hub.traffic,
         upgrade' \in Snapshot => upgrade' = upgrade
  PROVE  Counting'
<1> SUFFICES ASSUME Clean, Counter, Snapshots, Totals
             PROVE  Counter' /\ Snapshots' /\ Totals'
  BY DEF Counting
<1>1. agent'.legacy = agent.legacy /\ agent'.bytes = agent.bytes
      /\ agent'.name \in {agent.name, service}
  BY DEF TypeOK
<1>2. Reading' = Reading
  BY <1>1 DEF Reading
<1>3. Counter'
  BY <1>1 DEF Counter, Kind
<1>4. Snapshots'
  <2>1. newest' <= clock'
    BY DEF TypeOK, Snapshots
  <2>2. OldTraffic' # NoTraffic => Behind(OldTraffic)'
    BY <1>1, <1>2 DEF Snapshots, Behind, Before, Delta
  <2>3. ASSUME NEW f \in flights', f.traffic # NoTraffic
        PROVE  /\ f.traffic.bytes <= f.traffic.total
               /\ Behind(f.traffic)'
               /\ OldTraffic' # NoTraffic /\ f.at > d1'.row.at
                    => Before(OldTraffic', f.traffic)
               /\ \A g \in flights' :
                    g.traffic # NoTraffic /\ f.at < g.at => Before(f.traffic, g.traffic)
    BY <2>3, <1>1, <1>2 DEF Snapshots, Behind, Before, Delta
  <2> QED
    BY <2>1, <2>2, <2>3 DEF Snapshots, Before, Delta
<1>5. Totals'
  BY <1>1, <1>2 DEF Totals, HubCounted, Delta
<1> QED
  BY <1>3, <1>4, <1>5

\* A byte carried: the readings grow by one at most.
LEMMA CountingCarry == TypeOK /\ Counting /\ Carry => Counting'
<1> SUFFICES ASSUME TypeOK, Carry, Clean, Counter, Snapshots, Totals
             PROVE  Counter' /\ Snapshots' /\ Totals'
  BY DEF Counting, Carry, Clean, boundVars
<1> USE DEF cloudVars, boundVars
<1>1. /\ agent'.legacy = agent.legacy /\ agent'.name = agent.name
      /\ agent'.bytes = agent.bytes + 1
      /\ IF agent.legacy
         THEN carried'.legacy = carried.legacy + 1 /\ carried'.current = carried.current
         ELSE carried'.legacy = carried.legacy /\ carried'.current = carried.current + 1
  BY DEF Carry, TypeOK, Kind
<1>2. Reading'.name = service /\ Reading'.bytes = agent.bytes + 1
      /\ Reading'.total = carried'.current
  BY <1>1 DEF Reading, Carry
<1>3. ASSUME NEW t \in Traffic \cup {NoTraffic}
      PROVE  Delta(t, Reading) \in Nat /\ Delta(t, Reading') \in Nat
             /\ Delta(t, Reading') <= Delta(t, Reading) + 1
  <2>1. Reading.bytes \in Nat /\ Reading'.bytes = Reading.bytes + 1
        /\ Reading'.name = Reading.name /\ Reading'.bytes \in Nat
    BY <1>2, ReadingFacts
  <2>2. Delta(t, Reading) \in Nat /\ Delta(t, Reading') \in Nat
    BY <2>1, DeltaFacts
  <2>3. Delta(t, Reading') <= Delta(t, Reading) + 1
    BY <2>1, DeltaNext
  <2> QED
    BY <2>2, <2>3
<1>4. ASSUME NEW t \in Traffic, Behind(t) PROVE Behind(t)'
  BY <1>1, <1>2, <1>3, <1>4, ReadingFacts DEF Behind, Before, Traffic
<1>5. Counter'
  <2>1. carried[Kind(agent.legacy)] \in Nat /\ agent.bytes \in Nat
    BY DEF TypeOK, Kind
  <2>2. carried'[Kind(agent'.legacy)] = carried[Kind(agent.legacy)] + 1
    BY <1>1 DEF Kind
  <2> QED
    BY <1>1, <2>1, <2>2 DEF Counter, Carry
<1>6. Snapshots'
  <2>1. OldTraffic' = OldTraffic /\ OldTraffic \in Traffic \cup {NoTraffic}
    BY OldTrafficType DEF Carry, OldTraffic
  <2>2. \A f \in flights : f.traffic \in Traffic \cup {NoTraffic}
    BY DEF TypeOK, Report
  <2> QED
    BY <1>4, <2>1, <2>2 DEF Snapshots, Carry
<1>7. Totals'
  <2>1. OldTraffic' = OldTraffic /\ OldTraffic \in Traffic \cup {NoTraffic}
    BY OldTrafficType DEF Carry, OldTraffic
  <2>2. carried'.legacy >= carried.legacy /\ carried'.legacy \in Nat
    BY <1>1, ReadingFacts
  <2>3. HubCounted'
    <3>1. hub.traffic \in Traffic \cup {NoTraffic} /\ hub.monthly \in Nat /\ hub' = hub
      BY DEF TypeOK, Carry
    <3> QED
      BY <1>1, <1>3, <3>1, ReadingFacts DEF Totals, HubCounted
  <2>4. upgrade' \in Snapshot => upgrade'.monthly <= carried'.legacy
    BY <2>2, ReadingFacts DEF Totals, Carry, Snapshot
  <2>5. d1'.monthly <= carried'.legacy
          + (IF OldTraffic' = NoTraffic THEN 0 ELSE OldTraffic'.total)
    BY <2>1, <2>2, ReadingFacts DEF Totals, Carry, TypeOK, Traffic
  <2> QED
    BY <2>3, <2>4, <2>5 DEF Totals
<1> QED
  BY <1>5, <1>6, <1>7

\* A new process has counted nothing yet.
LEMMA CountingRestart ==
  ASSUME TypeOK, Counting, NEW b \in BOOLEAN, Restart(b)
  PROVE  Counting'
<1> SUFFICES ASSUME Clean, Counter, Snapshots, Totals
             PROVE  Counter' /\ Snapshots' /\ Totals'
  BY DEF Counting, Restart, Clean, boundVars
<1> USE DEF cloudVars, boundVars
<1>1. agent'.legacy = b /\ agent'.name = NoService /\ agent'.bytes = 0
      /\ carried' = carried /\ service' = service
  BY DEF Restart
<1>2. Reading'.bytes = 0 /\ Reading'.total = carried.current
  BY <1>1 DEF Reading
<1>3. ASSUME NEW t \in Traffic \cup {NoTraffic} PROVE Delta(t, Reading') = 0
  BY <1>2, DeltaFacts
<1>4. ASSUME NEW t \in Traffic, Behind(t) PROVE Behind(t)'
  <2>1. t.total <= carried.current
    <3>1. Delta(t, Reading) \in Nat
      BY ReadingFacts, DeltaFacts
    <3> QED
      BY <1>4, <3>1, ReadingFacts DEF Behind, Before, Traffic
  <2> QED
    BY <1>1, <1>2, <1>3, <2>1 DEF Behind, Before, Traffic
<1>5. Counter'
  BY <1>1, ReadingFacts DEF Counter, Kind
<1>6. Snapshots'
  <2>1. OldTraffic' = OldTraffic /\ OldTraffic \in Traffic \cup {NoTraffic}
    BY OldTrafficType DEF Restart, OldTraffic
  <2>2. \A f \in flights : f.traffic \in Traffic \cup {NoTraffic}
    BY DEF TypeOK, Report
  <2> QED
    BY <1>4, <2>1, <2>2 DEF Snapshots, Restart
<1>7. Totals'
  <2>1. OldTraffic' = OldTraffic
    BY DEF Restart, OldTraffic
  <2>2. HubCounted'
    <3>1. hub'.traffic = hub.traffic /\ hub'.monthly = hub.monthly /\ hub.monthly \in Nat
          /\ hub.traffic \in Traffic \cup {NoTraffic}
      BY DEF TypeOK, Restart
    <3>2. Delta(hub.traffic, Reading) \in Nat
      BY <3>1, ReadingFacts, DeltaFacts
    <3> QED
      BY <1>1, <1>3, <3>1, <3>2, ReadingFacts DEF Totals, HubCounted
  <2> QED
    BY <2>1, <2>2 DEF Totals, Restart
<1> QED
  BY <1>5, <1>6, <1>7

\* A new report gives the reading, which no earlier snapshot is ahead of.
LEMMA CountingTake ==
  ASSUME TypeOK, InTime, Counting, NEW b \in BOOLEAN, TakeReport(b)
  PROVE  Counting'
<1> DEFINE new == [at |-> clock, traffic |-> Counted, admitted |-> FALSE]
<1> SUFFICES ASSUME Clean, Counter, Snapshots, Totals
             PROVE  Counter' /\ Snapshots' /\ Totals'
  BY DEF Counting, TakeReport, Clean, boundVars
<1> USE DEF cloudVars, boundVars
<1>1. /\ agent' = agent /\ ~agent.legacy /\ carried' = carried /\ service' = service
      /\ d1' = d1 /\ hub' = hub /\ upgrade' = upgrade /\ clock' = clock
      /\ flights' = flights \cup {new}
  BY DEF TakeReport
<1>2. Reading' = Reading /\ OldTraffic' = OldTraffic
  BY <1>1 DEF Reading, OldTraffic
<1>3. Counted # NoTraffic => Counted = Reading /\ Reading \in Traffic
  BY <1>1, CountedType DEF Counted, Reading, Counter, Kind
<1>4. Counter' /\ Totals'
  BY <1>1, <1>2 DEF Counter, Totals, HubCounted
<1>5. ASSUME NEW t, Behind(t) PROVE Behind(t)' /\ Before(t, Reading)
  BY <1>1, <1>2, <1>5 DEF Behind
<1>6. ASSUME Reading # NoTraffic
      PROVE  Reading.bytes <= Reading.total /\ Behind(Reading)
  <2>1. Reading.bytes <= Reading.total
    BY <1>1, ReadingFacts DEF Counter, Kind
  <2>2. Delta(Reading, Reading) = 0
    BY <1>6, ReadingFacts DEF Delta
  <2> QED
    BY <1>1, <2>1, <2>2, ReadingFacts DEF Behind, Before
<1>7. Snapshots'
  <2>1. newest' <= clock'
    BY <1>1 DEF TakeReport, Snapshots, TypeOK
  <2>2. OldTraffic' # NoTraffic => Behind(OldTraffic)'
    BY <1>2, <1>5 DEF Snapshots
  <2>3. ASSUME NEW f \in flights', f.traffic # NoTraffic
        PROVE  /\ f.traffic.bytes <= f.traffic.total
               /\ Behind(f.traffic)'
               /\ OldTraffic # NoTraffic /\ f.at > d1.row.at
                    => Before(OldTraffic, f.traffic)
               /\ \A g \in flights' :
                    g.traffic # NoTraffic /\ f.at < g.at => Before(f.traffic, g.traffic)
    <3>1. CASE f \in flights
      BY <1>1, <1>3, <1>5, <2>3, <3>1 DEF Snapshots
    <3>2. CASE f = new
      <4>1. \A g \in flights' : ~(f.at < g.at)
        BY <1>1, <3>2 DEF InTime, Snapshots, TypeOK, Report
      <4>2. f.traffic = Reading
        BY <1>3, <2>3, <3>2
      <4>3. f.traffic.bytes <= f.traffic.total /\ Behind(f.traffic)
        BY <1>6, <2>3, <4>2 DEF Behind, Before, Delta
      <4>4. OldTraffic # NoTraffic => Before(OldTraffic, f.traffic)
        BY <1>5, <4>2 DEF Snapshots, Before, Delta
      <4> QED
        BY <1>5, <4>1, <4>3, <4>4
    <3> QED
      BY <1>1, <3>1, <3>2
  <2> QED
    BY <1>1, <1>2, <2>1, <2>2, <2>3 DEF Snapshots, Before
<1> QED
  BY <1>4, <1>7

\* A stored report takes the row's place in front of the later ones, and adds at
\* most what was carried in between.
LEMMA CountingStore ==
  ASSUME TypeOK, Counting, NEW f \in flights, Store(f)
  PROVE  Counting'
<1> SUFFICES ASSUME Clean, Counter, Snapshots, Totals
             PROVE  Counter' /\ Snapshots' /\ Totals'
  BY DEF Counting, Store, Clean, boundVars
<1> USE DEF cloudVars, boundVars
<1>1. /\ agent' = agent /\ carried' = carried /\ service' = service
      /\ hub' = hub /\ upgrade' = upgrade /\ clock' = clock /\ newest' = newest
      /\ flights' \subseteq flights
  BY DEF Store
<1>2. Reading' = Reading
  BY <1>1 DEF Reading
<1>3. Counter'
  BY <1>1 DEF Counter
<1>4. ASSUME NEW t, Behind(t) PROVE Behind(t)'
  BY <1>1, <1>2, <1>4 DEF Behind
<1>5. OldTraffic \in Traffic \cup {NoTraffic} /\ f \in Report
  BY OldTrafficType DEF TypeOK
<1>6. /\ ~Newer(f) => d1' = d1 /\ OldTraffic' = OldTraffic
      /\ Newer(f) =>
           /\ d1'.row.at = f.at
           /\ OldTraffic' = IF f.traffic = NoTraffic THEN OldTraffic ELSE f.traffic
           /\ d1'.monthly = d1.monthly + Added(OldTraffic, f.traffic)
  BY StoreFacts DEF OldTraffic
<1>7. Snapshots'
  <2>1. OldTraffic' # NoTraffic => Behind(OldTraffic)'
    BY <1>4, <1>6 DEF Snapshots
  <2>2. ASSUME NEW g \in flights', g.traffic # NoTraffic,
               OldTraffic' # NoTraffic, g.at > d1'.row.at
        PROVE  Before(OldTraffic', g.traffic)
    <3>1. CASE ~Newer(f)
      BY <1>1, <1>6, <2>2, <3>1 DEF Snapshots
    <3>2. CASE Newer(f) /\ f.traffic # NoTraffic
      BY <1>1, <1>5, <1>6, <2>2, <3>2 DEF Snapshots, TypeOK, Report
    <3>3. CASE Newer(f) /\ f.traffic = NoTraffic
      <4>1. OldTraffic # NoTraffic /\ d1.row \in Row /\ f.at > d1.row.at
        BY <1>6, <2>2, <3>3 DEF Newer, OldTraffic, TypeOK
      <4>2. g \in Report
        BY <1>1 DEF TypeOK
      <4>3. g.at > d1.row.at
        BY <1>5, <1>6, <2>2, <3>3, <4>1, <4>2 DEF Report, Row
      <4> QED
        BY <1>1, <1>6, <2>2, <3>3, <4>1, <4>3 DEF Snapshots
    <3> QED
      BY <3>1, <3>2, <3>3
  <2>3. newest' <= clock'
    BY <1>1 DEF Snapshots
  <2>4. ASSUME NEW g \in flights', g.traffic # NoTraffic
        PROVE  /\ g.traffic.bytes <= g.traffic.total
               /\ Behind(g.traffic)'
               /\ \A h \in flights' :
                    h.traffic # NoTraffic /\ g.at < h.at => Before(g.traffic, h.traffic)
    BY <1>1, <1>4, <2>4 DEF Snapshots
  <2> QED
    BY <2>1, <2>2, <2>3, <2>4 DEF Snapshots, Before
<1>8. Totals'
  <2>1. HubCounted' /\ (upgrade' \in Snapshot => upgrade'.monthly <= carried'.legacy)
    BY <1>1, <1>2 DEF Totals, HubCounted
  <2>2. d1'.monthly <= carried.legacy
          + (IF OldTraffic' = NoTraffic THEN 0 ELSE OldTraffic'.total)
    <3>1. CASE ~Newer(f)
      BY <1>6, <3>1 DEF Totals
    <3>2. CASE Newer(f) /\ f.traffic = NoTraffic
      BY <1>6, <3>2 DEF Totals, Added, TypeOK
    <3>3. CASE Newer(f) /\ f.traffic # NoTraffic
      <4>1. d1'.monthly = d1.monthly + Delta(OldTraffic, f.traffic)
            /\ OldTraffic' = f.traffic /\ f.traffic \in Traffic
        BY <1>5, <1>6, <3>3 DEF Added, Report
      <4>2. Delta(OldTraffic, f.traffic) \in Nat
            /\ Delta(OldTraffic, f.traffic) <= f.traffic.bytes
        BY <1>5, <4>1, DeltaFacts DEF Traffic
      <4>3. CASE OldTraffic = NoTraffic
        <5>1. d1.monthly <= carried.legacy /\ f.traffic.bytes <= f.traffic.total
          BY <3>3, <4>3, ReadingFacts DEF Totals, Snapshots
        <5> QED
          BY <3>3, <4>1, <4>2, <5>1, ReadingFacts DEF TypeOK, Traffic
      <4>4. CASE OldTraffic # NoTraffic
        <5>1. f.at > d1.row.at
          BY <3>3, <4>4 DEF Newer, OldTraffic
        <5>2. OldTraffic.total + Delta(OldTraffic, f.traffic) <= f.traffic.total
          BY <3>3, <4>4, <5>1 DEF Snapshots, Before
        <5>3. d1.monthly <= carried.legacy + OldTraffic.total
          BY <4>4 DEF Totals
        <5> QED
          BY <1>5, <3>3, <4>1, <4>2, <4>4, <5>2, <5>3, ReadingFacts DEF TypeOK, Traffic
      <4> QED
        BY <4>3, <4>4
    <3> QED
      BY <3>1, <3>2, <3>3
  <2> QED
    BY <1>1, <2>1, <2>2 DEF Totals
<1> QED
  BY <1>3, <1>7, <1>8

\* Seeding counts what the hub has counted once, and puts no current counter ahead.
LEMMA CountingSync ==
  ASSUME TypeOK, Counting, NEW b \in BOOLEAN, FinishSync(b)
  PROVE  Counting'
<1> SUFFICES ASSUME Clean, Counter, Snapshots, Totals
             PROVE  Counter' /\ Snapshots' /\ Totals'
  BY DEF Counting, FinishSync, Clean, boundVars
<1> USE DEF cloudVars, boundVars
<1>1. /\ agent' = agent /\ carried' = carried /\ service' = service /\ hub' = hub
      /\ clock' = clock /\ newest' = newest /\ flights' = flights
      /\ upgrade' \in {NoUpgrade, Synced} /\ upgrade' \notin Snapshot
  BY AbsentAssumption DEF FinishSync
<1>2. Reading' = Reading
  BY <1>1 DEF Reading
<1>3. Counter'
  BY <1>1 DEF Counter
<1>4. ASSUME NEW t, Behind(t) PROVE Behind(t)'
  BY <1>1, <1>2, <1>4 DEF Behind
<1>5. upgrade \in Snapshot /\ d1'.monthly \in {upgrade.monthly, d1.monthly}
  BY FinishSyncFacts DEF SeededMonthly
<1>6. d1'.monthly <= carried.legacy
        + (IF OldTraffic = NoTraffic THEN 0 ELSE OldTraffic.total)
  BY <1>5, OldTrafficType, ReadingFacts DEF Totals, Snapshot, TypeOK, Traffic
<1>7. HubCounted'
  BY <1>1, <1>2 DEF Totals, HubCounted
<1>8. CASE OldTraffic' = OldTraffic /\ (OldTraffic = NoTraffic \/ d1'.row.at = d1.row.at)
  <2>1. Totals'
    BY <1>1, <1>6, <1>7, <1>8 DEF Totals
  <2>2. Snapshots'
    BY <1>1, <1>4, <1>8 DEF Snapshots, Before
  <2> QED
    BY <1>3, <2>1, <2>2
<1>9. CASE OldTraffic = NoTraffic /\ OldTraffic' = Accounted(upgrade.traffic)
           /\ OldTraffic' # NoTraffic
  <2>1. OldTraffic' \in Traffic /\ OldTraffic'.total = 0
    BY <1>5, <1>9 DEF Accounted, Snapshot, Traffic
  <2>2. ASSUME NEW u, u.bytes \in Nat, u.total \in Nat, u.bytes <= u.total
        PROVE  Before(OldTraffic', u)
    <3>1. Delta(OldTraffic', u) \in Nat /\ Delta(OldTraffic', u) <= u.bytes
      BY <2>1, <2>2, DeltaFacts
    <3> QED
      BY <2>1, <2>2, <3>1 DEF Before
  <2>3. Behind(OldTraffic')
    <3>1. CASE agent.legacy
      BY <2>1, <3>1, ReadingFacts DEF Behind
    <3>2. CASE ~agent.legacy
      <4>1. agent.bytes <= carried.current
        BY <3>2 DEF Counter, Kind
      <4> QED
        BY <2>2, <3>2, <4>1, ReadingFacts DEF Behind
    <3> QED
      BY <3>1, <3>2
  <2>4. Behind(OldTraffic)'
    BY <1>1, <1>2, <2>3 DEF Behind, Before
  <2>5. \A f \in flights : f.traffic # NoTraffic => Before(OldTraffic', f.traffic)
    BY <2>2 DEF Snapshots, TypeOK, Report, Traffic
  <2>6. Snapshots'
    BY <1>1, <1>4, <2>4, <2>5 DEF Snapshots, Before
  <2>7. Totals'
    BY <1>1, <1>6, <1>7, <1>9, <2>1 DEF Totals
  <2> QED
    BY <1>3, <2>6, <2>7
<1> QED
  BY <1>8, <1>9, FinishSyncFacts

\* The hub counts a legacy agent's frame, and then has counted all of it.
LEMMA CountingHub == TypeOK /\ Counting /\ HubStatus => Counting'
<1> SUFFICES ASSUME TypeOK, HubStatus, Clean, Counter, Snapshots, Totals
             PROVE  Counter' /\ Snapshots' /\ Totals'
  BY DEF Counting, HubStatus, Clean, boundVars
<1> USE DEF cloudVars, boundVars
<1>1. /\ agent' = agent /\ agent.legacy /\ carried' = carried /\ service' = service
      /\ upgrade' = upgrade /\ clock' = clock /\ newest' = newest /\ flights' = flights
  BY DEF HubStatus
<1>2. Reading' = Reading
  BY <1>1 DEF Reading
<1>3. OldTraffic' = OldTraffic /\ d1'.monthly = d1.monthly
      /\ (OldTraffic # NoTraffic => d1'.row.at = d1.row.at)
  BY KeptFacts DEF HubStatus, OldTraffic
<1>4. Counter'
  BY <1>1 DEF Counter
<1>5. Snapshots'
  BY <1>1, <1>2, <1>3 DEF Snapshots, Behind, Before
<1>6. HubCounted'
  <2>1. hub'.traffic = (IF agent.name = NoService THEN hub.traffic ELSE Counted)
        /\ hub'.monthly = hub.monthly + Added(hub.traffic, Counted)
    BY DEF HubStatus, TypeOK
  <2>2. hub.monthly + Delta(hub.traffic, Reading) <= carried.legacy
        /\ hub.monthly \in Nat /\ hub.traffic \in Traffic \cup {NoTraffic}
    BY <1>1 DEF Totals, HubCounted, TypeOK
  <2>3. Delta(hub.traffic, Reading) \in Nat
    BY <2>2, ReadingFacts, DeltaFacts
  <2>4. CASE agent.name = NoService
    BY <1>1, <1>2, <2>1, <2>2, <2>4 DEF Counted, Added, HubCounted
  <2>5. CASE agent.name # NoService
    <3>1. Counted \in Traffic /\ Counted # NoTraffic
          /\ Counted.name = service /\ Counted.bytes = agent.bytes
      BY <2>5, AbsentAssumption DEF Counted, TypeOK, Traffic, Counter, Kind
    <3>2. Added(hub.traffic, Counted) = Delta(hub.traffic, Reading)
      BY <3>1, ReadingFacts DEF Added, Delta
    <3>3. Delta(Counted, Reading) = 0
      BY <3>1, ReadingFacts DEF Delta
    <3> QED
      BY <1>1, <1>2, <2>1, <2>2, <2>3, <2>5, <3>2, <3>3 DEF HubCounted
  <2> QED
    BY <2>4, <2>5
<1>7. Totals'
  BY <1>1, <1>3, <1>6 DEF Totals
<1> QED
  BY <1>4, <1>5, <1>7

\* While nothing disturbs it, the month holds no more than was carried.
LEMMA CountingStep ==
  TypeOK /\ Sockets /\ InTime /\ Counting /\ [Next]_vars => Counting'
<1> SUFFICES ASSUME TypeOK, Sockets, InTime, Counting, [Next]_vars PROVE Counting'
  OBVIOUS
<1> USE DEF cloudVars, boundVars
<1>1. CASE Carry
  BY <1>1, CountingCarry
<1>2. CASE Tick
  BY <1>2, CountingKept DEF Tick, Clean, OldTraffic
<1>3. CASE SetBack
  BY <1>3 DEF SetBack, Counting, Clean, TypeOK
<1>4. ASSUME NEW b \in BOOLEAN, Restart(b) PROVE Counting'
  BY <1>4, CountingRestart
<1>5. ASSUME NEW b \in BOOLEAN, TakeReport(b) PROVE Counting'
  BY <1>5, CountingTake
<1>6. ASSUME NEW f \in flights, Dropped(f) PROVE Counting'
  BY <1>6, CountingKept DEF Dropped, Clean, OldTraffic
<1>7. ASSUME NEW f \in flights, Admit(f) PROVE Counting'
  <2>1. f \in Report
    BY DEF TypeOK
  <2>2. [f EXCEPT !.admitted = TRUE].at = f.at
        /\ [f EXCEPT !.admitted = TRUE].traffic = f.traffic
    BY <2>1 DEF Report
  <2>3. \A g \in flights' : \E h \in flights : g.at = h.at /\ g.traffic = h.traffic
    BY <1>7, <2>2 DEF Admit
  <2> QED
    BY <1>7, <2>3, CountingKept DEF Admit, Clean, OldTraffic
<1>8. ASSUME NEW f \in flights, Store(f) PROVE Counting'
  BY <1>8, CountingStore
<1>9. ASSUME NEW at \in SeedTime, BeginSync(at) PROVE Counting'
  <2> SUFFICES ASSUME Clean, Counter, Snapshots, Totals
               PROVE  Counter' /\ Snapshots' /\ Totals'
    BY <1>9 DEF Counting, BeginSync, Clean
  <2>1. hub.monthly <= carried.legacy
    <3>1. Delta(hub.traffic, Reading) \in Nat
      BY ReadingFacts, DeltaFacts DEF TypeOK
    <3> QED
      BY <3>1, ReadingFacts DEF Totals, HubCounted, TypeOK
  <2>2. upgrade'.monthly = hub.monthly
    BY <1>9 DEF BeginSync
  <2>3. Reading' = Reading /\ OldTraffic' = OldTraffic
    BY <1>9 DEF BeginSync, Reading, OldTraffic
  <2>4. Totals'
    BY <1>9, <2>1, <2>2, <2>3 DEF BeginSync, Totals, HubCounted
  <2>5. Counter' /\ Snapshots'
    BY <1>9, <2>3 DEF BeginSync, Counter, Snapshots, Behind, Before
  <2> QED
    BY <2>4, <2>5
<1>10. ASSUME NEW b \in BOOLEAN, FinishSync(b) PROVE Counting'
  BY <1>10, CountingSync
<1>11. CASE Register
  <2>1. OldTraffic' = OldTraffic /\ d1'.monthly = d1.monthly
        /\ (OldTraffic # NoTraffic => d1'.row.at = d1.row.at)
    BY <1>11, KeptFacts DEF Register, OldTraffic
  <2>2. hub'.monthly = hub.monthly /\ hub'.traffic = hub.traffic
    BY <1>11 DEF Register, TypeOK
  <2> QED
    BY <1>11, <2>1, <2>2, CountingKept, AbsentAssumption DEF Register, Clean
<1>12. CASE GiveUp
  BY <1>12, CountingKept, AbsentAssumption DEF GiveUp, Clean, OldTraffic
<1>13. CASE HubStatus
  BY <1>13, CountingHub
<1>14. CASE Disconnect
  <2>1. hub'.monthly = hub.monthly /\ hub'.traffic = hub.traffic
    BY <1>14 DEF Disconnect, TypeOK
  <2> QED
    BY <1>14, <2>1, CountingKept DEF Disconnect, Clean, OldTraffic
<1>15. CASE DeleteInstance
  <2>1. hub'.monthly = hub.monthly /\ hub'.traffic = hub.traffic
    BY <1>15 DEF DeleteInstance, TypeOK
  <2> QED
    BY <1>15, <2>1, CountingKept DEF DeleteInstance, Clean, OldTraffic
<1>16. CASE DeleteAgentState
  <2> SUFFICES ASSUME Clean, Counter, Snapshots, Totals
               PROVE  Counter' /\ Snapshots' /\ Totals'
    BY <1>16 DEF Counting, DeleteAgentState, Clean
  <2>1. Reading' = Reading /\ OldTraffic' = NoTraffic /\ d1'.monthly = 0
    BY <1>16 DEF DeleteAgentState, Reading, OldTraffic
  <2>2. Totals'
    BY <1>16, <2>1, ReadingFacts DEF DeleteAgentState, Totals, HubCounted
  <2>3. Counter' /\ Snapshots'
    BY <1>16, <2>1 DEF DeleteAgentState, Counter, Snapshots, Behind, Before
  <2> QED
    BY <2>2, <2>3
<1>17. ASSUME NEW name \in Name \cup {NoService}, Edit(name) PROVE Counting'
  BY <1>17 DEF Edit, Counting, Clean, TypeOK
<1>18. CASE UNCHANGED vars
  BY <1>18, CountingKept DEF vars, Clean, OldTraffic
<1> QED
  BY <1>1, <1>2, <1>3, <1>4, <1>5, <1>6, <1>7, <1>8, <1>9, <1>10, <1>11,
     <1>12, <1>13, <1>14, <1>15, <1>16, <1>17, <1>18 DEF Next, AgentStep,
     ReportStep, SyncStep, HubStep, Lose, Refuse

(***************************************************************************)
(* One process.                                                            *)
(***************************************************************************)

\* Steps that touch no counter: as for the month.
LEMMA OneKept ==
  ASSUME TypeOK, OneCounter, Single' => Single, agent'.proc > 0,
         agent'.bytes >= agent.bytes, agent'.bytes \in Nat, service' = service,
         \A f \in flights' : \E g \in flights : f.at = g.at /\ f.traffic = g.traffic,
         OldTraffic' = OldTraffic,
         OldTraffic # NoTraffic => d1'.row.at = d1.row.at,
         d1'.monthly = d1.monthly,
         Single => hub'.monthly = hub.monthly /\ hub'.traffic = hub.traffic,
         upgrade' \in Snapshot =>
           \/ upgrade' = upgrade
           \/ upgrade'.traffic = hub.traffic /\ upgrade'.monthly = hub.monthly
  PROVE  OneCounter'
<1> SUFFICES ASSUME Single, HubSilent, OneReports, OneTotal
             PROVE  HubSilent' /\ OneReports' /\ OneTotal'
  BY DEF OneCounter
<1>1. HubSilent'
  BY DEF HubSilent
<1>2. OneTotal'
  BY DEF OneTotal
<1>3. ASSUME NEW t \in Traffic, t.bytes <= agent.bytes PROVE t.bytes <= agent'.bytes
  BY <1>3 DEF TypeOK, Traffic
<1>4. \A f \in flights : f.traffic \in Traffic \cup {NoTraffic}
  BY DEF TypeOK, Report
<1>5. OneReports'
  BY <1>3, <1>4, OldTrafficType DEF OneReports
<1> QED
  BY <1>1, <1>2, <1>5

\* A new report gives the counter as it is now, with the greatest time.
LEMMA OneTake ==
  ASSUME TypeOK, InTime, Counting, OneCounter, NEW b \in BOOLEAN, TakeReport(b)
  PROVE  OneCounter'
<1> DEFINE new == [at |-> clock, traffic |-> Counted, admitted |-> FALSE]
<1> USE DEF cloudVars, boundVars
<1> SUFFICES ASSUME Single, HubSilent, OneReports, OneTotal, Counter, Snapshots
             PROVE  HubSilent' /\ OneReports' /\ OneTotal' /\ agent'.proc > 0
  BY DEF OneCounter, Single, Clean, Counting, TakeReport
<1>1. /\ agent' = agent /\ service' = service /\ d1' = d1 /\ hub' = hub
      /\ upgrade' = upgrade /\ OldTraffic' = OldTraffic
      /\ flights' = flights \cup {new}
  BY DEF TakeReport, OldTraffic
<1>2. HubSilent' /\ OneTotal' /\ agent'.proc > 0
  BY <1>1 DEF HubSilent, OneTotal, OneCounter
<1>3. Counted # NoTraffic => Counted.name = service /\ Counted.bytes = agent.bytes
  BY DEF Counted, Counter
<1>4. agent.bytes \in Nat /\ \A f \in flights : f.at < clock \/ f.at = clock
  BY DEF InTime, Snapshots, TypeOK, Report
<1>5. ASSUME NEW f \in flights', f.traffic # NoTraffic
      PROVE  /\ f.traffic.name = service /\ f.traffic.bytes <= agent.bytes
             /\ OldTraffic # NoTraffic /\ f.at > d1.row.at
                  => f.traffic.bytes >= OldTraffic.bytes
             /\ \A g \in flights' : g.traffic # NoTraffic /\ f.at < g.at
                  => f.traffic.bytes <= g.traffic.bytes
  <2>1. CASE f \in flights
    BY <1>1, <1>3, <1>5, <2>1 DEF OneReports
  <2>2. CASE f = new
    <3>1. f.traffic.name = service /\ f.traffic.bytes = agent.bytes /\ f.at = clock
      BY <1>3, <1>5, <2>2
    <3>2. OldTraffic # NoTraffic => agent.bytes >= OldTraffic.bytes
      BY OldTrafficType, <1>4 DEF OneReports, Traffic
    <3>3. \A g \in flights' : ~(f.at < g.at)
      BY <1>1, <1>4, <3>1 DEF TypeOK, Report
    <3> QED
      BY <1>4, <3>1, <3>2, <3>3
  <2> QED
    BY <1>1, <2>1, <2>2
<1>6. OneReports'
  BY <1>1, <1>5 DEF OneReports
<1> QED
  BY <1>2, <1>6

\* A stored report replaces a lower counter by its own and adds the difference.
LEMMA OneStore ==
  ASSUME TypeOK, OneCounter, NEW f \in flights, Store(f)
  PROVE  OneCounter'
<1> USE DEF cloudVars, boundVars
<1> SUFFICES ASSUME Single, HubSilent, OneReports, OneTotal
             PROVE  HubSilent' /\ OneReports' /\ OneTotal' /\ agent'.proc > 0
  BY DEF OneCounter, Single, Clean, Store
<1>1. /\ agent' = agent /\ service' = service /\ hub' = hub /\ upgrade' = upgrade
      /\ flights' \subseteq flights
  BY DEF Store
<1>2. HubSilent' /\ agent'.proc > 0
  BY <1>1 DEF HubSilent, OneCounter
<1>3. /\ ~Newer(f) => d1' = d1 /\ OldTraffic' = OldTraffic
      /\ Newer(f) =>
           /\ d1'.row.at = f.at
           /\ OldTraffic' = IF f.traffic = NoTraffic THEN OldTraffic ELSE f.traffic
           /\ d1'.monthly = d1.monthly + Added(OldTraffic, f.traffic)
  BY StoreFacts DEF OldTraffic
<1>4. OldTraffic \in Traffic \cup {NoTraffic} /\ d1.monthly \in Nat
      /\ \A g \in flights : g \in Report
  BY OldTrafficType DEF TypeOK
<1>5. CASE ~Newer(f)
  BY <1>1, <1>2, <1>3, <1>5 DEF OneReports, OneTotal
<1>6. CASE Newer(f) /\ f.traffic = NoTraffic
  <2>1. OneTotal'
    BY <1>3, <1>4, <1>6 DEF OneTotal, Added
  <2>2. ASSUME NEW g \in flights', OldTraffic # NoTraffic, g.at > d1'.row.at
        PROVE  g.at > d1.row.at
    <3>1. d1.row \in Row /\ f.at > d1.row.at
      BY <1>6, <2>2 DEF Newer, OldTraffic, TypeOK
    <3> QED
      BY <1>1, <1>3, <1>4, <1>6, <2>2, <3>1 DEF Report, Row
  <2>3. OneReports'
    BY <1>1, <1>3, <1>6, <2>2 DEF OneReports
  <2> QED
    BY <1>2, <2>1, <2>3
<1>7. CASE Newer(f) /\ f.traffic # NoTraffic
  <2>1. OneReports'
    BY <1>1, <1>3, <1>7 DEF OneReports
  <2>2. f.traffic \in Traffic /\ OldTraffic' = f.traffic
        /\ d1'.monthly = d1.monthly + Delta(OldTraffic, f.traffic)
    BY <1>3, <1>4, <1>7 DEF Added, Report
  <2>3. CASE OldTraffic = NoTraffic
    BY <1>2, <1>4, <1>7, <2>1, <2>2, <2>3 DEF OneTotal, Delta, Traffic
  <2>4. CASE OldTraffic # NoTraffic
    <3>1. f.at > d1.row.at
      BY <1>7, <2>4 DEF Newer, OldTraffic
    <3>2. f.traffic.name = OldTraffic.name /\ f.traffic.bytes >= OldTraffic.bytes
      BY <1>7, <2>4, <3>1 DEF OneReports
    <3> QED
      BY <1>2, <1>4, <1>7, <2>1, <2>2, <2>4, <3>2 DEF OneTotal, Delta, Traffic
  <2> QED
    BY <2>3, <2>4
<1> QED
  BY <1>5, <1>6, <1>7

\* Seeding from a record without traffic gives nothing to count.
LEMMA OneSync ==
  ASSUME TypeOK, OneCounter, NEW b \in BOOLEAN, FinishSync(b)
  PROVE  OneCounter'
<1> USE DEF cloudVars, boundVars
<1> SUFFICES ASSUME Single, HubSilent, OneReports, OneTotal
             PROVE  HubSilent' /\ OneReports' /\ OneTotal' /\ agent'.proc > 0
  BY DEF OneCounter, Single, Clean, FinishSync
<1>1. /\ agent' = agent /\ service' = service /\ hub' = hub /\ flights' = flights
      /\ upgrade' \notin Snapshot
  BY AbsentAssumption DEF FinishSync
<1>2. HubSilent' /\ agent'.proc > 0
  BY <1>1 DEF HubSilent, OneCounter
<1>3. upgrade.traffic = NoTraffic /\ upgrade.monthly = 0
  BY FinishSyncFacts DEF HubSilent
<1>4. OldTraffic' = OldTraffic
      /\ (OldTraffic # NoTraffic => d1'.row.at = d1.row.at)
  BY <1>3, FinishSyncFacts DEF Accounted, OldTraffic
<1>5. d1'.monthly = d1.monthly
  BY <1>3, FinishSyncFacts DEF SeededMonthly, TypeOK
<1> QED
  BY <1>1, <1>2, <1>4, <1>5 DEF OneReports, OneTotal

\* As long as its first process lives, the month holds what the row counts.
LEMMA OneCounterStep ==
  TypeOK /\ InTime /\ Counting /\ OneCounter /\ [Next]_vars => OneCounter'
<1> SUFFICES ASSUME TypeOK, InTime, Counting, OneCounter, [Next]_vars PROVE OneCounter'
  OBVIOUS
<1> USE DEF cloudVars, boundVars
<1>0. agent.proc > 0 /\ agent.proc \in Nat /\ agent.bytes \in Nat
  BY DEF OneCounter, TypeOK
<1>1. CASE Carry
  <2>1. agent'.proc = agent.proc /\ agent'.legacy = agent.legacy
        /\ agent'.bytes = agent.bytes + 1
    BY <1>1 DEF Carry, TypeOK
  <2> QED
    BY <1>0, <1>1, <2>1, OneKept DEF Carry, Single, Clean, OldTraffic
<1>2. CASE Tick
  BY <1>0, <1>2, OneKept DEF Tick, Single, Clean, OldTraffic
<1>3. CASE SetBack
  BY <1>0, <1>3 DEF SetBack, OneCounter, Single, Clean, TypeOK
<1>4. ASSUME NEW b \in BOOLEAN, Restart(b) PROVE OneCounter'
  BY <1>0, <1>4 DEF Restart, OneCounter, Single
<1>5. ASSUME NEW b \in BOOLEAN, TakeReport(b) PROVE OneCounter'
  BY <1>5, OneTake
<1>6. ASSUME NEW f \in flights, Dropped(f) PROVE OneCounter'
  BY <1>0, <1>6, OneKept DEF Dropped, Single, Clean, OldTraffic
<1>7. ASSUME NEW f \in flights, Admit(f) PROVE OneCounter'
  <2>1. f \in Report
    BY DEF TypeOK
  <2>2. [f EXCEPT !.admitted = TRUE].at = f.at
        /\ [f EXCEPT !.admitted = TRUE].traffic = f.traffic
    BY <2>1 DEF Report
  <2>3. \A g \in flights' : \E h \in flights : g.at = h.at /\ g.traffic = h.traffic
    BY <1>7, <2>2 DEF Admit
  <2> QED
    BY <1>0, <1>7, <2>3, OneKept DEF Admit, Single, Clean, OldTraffic
<1>8. ASSUME NEW f \in flights, Store(f) PROVE OneCounter'
  BY <1>8, OneStore
<1>9. ASSUME NEW at \in SeedTime, BeginSync(at) PROVE OneCounter'
  BY <1>0, <1>9, OneKept DEF BeginSync, Single, Clean, OldTraffic
<1>10. ASSUME NEW b \in BOOLEAN, FinishSync(b) PROVE OneCounter'
  BY <1>10, OneSync
<1>11. CASE Register
  <2>1. OldTraffic' = OldTraffic /\ d1'.monthly = d1.monthly
        /\ (OldTraffic # NoTraffic => d1'.row.at = d1.row.at)
    BY <1>11, KeptFacts DEF Register, OldTraffic
  <2>2. hub'.monthly = hub.monthly /\ hub'.traffic = hub.traffic
        /\ agent'.proc = agent.proc /\ agent'.legacy = agent.legacy
        /\ agent'.bytes = agent.bytes
    BY <1>11 DEF Register, TypeOK
  <2> QED
    BY <1>0, <1>11, <2>1, <2>2, OneKept, AbsentAssumption DEF Register, Single, Clean
<1>12. CASE GiveUp
  BY <1>0, <1>12, OneKept, AbsentAssumption DEF GiveUp, Single, Clean, OldTraffic
<1>13. CASE HubStatus
  BY <1>0, <1>13 DEF HubStatus, OneCounter, Single
<1>14. CASE Disconnect
  <2>1. hub'.monthly = hub.monthly /\ hub'.traffic = hub.traffic
    BY <1>14 DEF Disconnect, TypeOK
  <2> QED
    BY <1>0, <1>14, <2>1, OneKept DEF Disconnect, Single, Clean, OldTraffic
<1>15. CASE DeleteInstance
  <2>1. hub'.monthly = hub.monthly /\ hub'.traffic = hub.traffic
    BY <1>15 DEF DeleteInstance, TypeOK
  <2> QED
    BY <1>0, <1>15, <2>1, OneKept DEF DeleteInstance, Single, Clean, OldTraffic
<1>16. CASE DeleteAgentState
  <2>1. OldTraffic' = NoTraffic /\ d1'.monthly = 0
    BY <1>16 DEF DeleteAgentState, OldTraffic
  <2> QED
    BY <1>16, <2>1 DEF DeleteAgentState, OneCounter, Single, Clean, HubSilent,
       OneReports, OneTotal
<1>17. ASSUME NEW name \in Name \cup {NoService}, Edit(name) PROVE OneCounter'
  <2>1. agent'.proc = agent.proc /\ ~Single'
    BY <1>17 DEF Edit, Single, Clean, TypeOK
  <2> QED
    BY <1>0, <2>1 DEF OneCounter
<1>18. CASE UNCHANGED vars
  BY <1>0, <1>18, OneKept DEF vars, Single, Clean, OldTraffic
<1> QED
  BY <1>1, <1>2, <1>3, <1>4, <1>5, <1>6, <1>7, <1>8, <1>9, <1>10, <1>11,
     <1>12, <1>13, <1>14, <1>15, <1>16, <1>17, <1>18 DEF Next, AgentStep,
     ReportStep, SyncStep, HubStep, Lose, Refuse

(***************************************************************************)
(* The theorems.                                                           *)
(***************************************************************************)

\* The invariant holds at the start.
LEMMA InitIInv == Init => IInv
<1> SUFFICES ASSUME Init PROVE IInv
  OBVIOUS
<1>1. TypeOK
  <2>1. agent \in [proc : Nat, legacy : BOOLEAN, name : Name \cup {NoService},
                  bytes : Nat]
    BY DEF Init
  <2>2. d1 \in [credential : BOOLEAN, row : {NoRow} \cup Row, monthly : Nat]
    BY DEF Init
  <2>3. hub \in [there : BOOLEAN, connected : BOOLEAN,
                traffic : Traffic \cup {NoTraffic}, monthly : Nat]
    BY DEF Init
  <2>4. carried \in [legacy : Nat, current : Nat]
    BY DEF Init
  <2> QED
    BY <2>1, <2>2, <2>3, <2>4 DEF Init, TypeOK
<1>2. Sockets /\ InTime /\ Shown
  BY AbsentAssumption DEF Init, Sockets, InTime, Shown
<1>3. OldTraffic = NoTraffic /\ flights = {} /\ upgrade \notin Snapshot
  BY AbsentAssumption DEF Init, OldTraffic
<1>4. Counting
  <2>1. Delta(hub.traffic, Reading) = 0
    BY <1>1, ReadingFacts, DeltaFacts DEF Init
  <2> QED
    BY <1>3, <2>1 DEF Init, Counting, Counter, Snapshots, Totals, HubCounted, Kind
<1>5. OneCounter
  BY <1>3 DEF Init, OneCounter, HubSilent, OneReports, OneTotal
<1> QED
  BY <1>1, <1>2, <1>4, <1>5 DEF IInv

\* Every step keeps the invariant.
LEMMA Inductive == IInv /\ [Next]_vars => IInv'
BY TypeStep, SocketsStep, InTimeStep, ShownStep, CountingStep, OneCounterStep DEF IInv

\* The invariant holds of every behaviour.
LEMMA Always == Spec => []IInv
BY InitIInv, Inductive, PTL DEF Spec

\* Every variable keeps its type, whatever the names, the times and the bounds.
THEOREM TypeCorrect == Spec => []TypeOK
<1>1. IInv => TypeOK
  BY DEF IInv
<1> QED
  BY <1>1, Always, PTL

\* The panel shows the last report of a connected agent once nothing is on its way:
\* mergeAgentState prefers the row, the upsert keeps the newest report, and a
\* registration, which makes the row stale, asks for another report.
THEOREM PanelShowsLast == Spec => []PanelIsCurrent
<1>1. IInv => PanelIsCurrent
  BY DEF IInv, Shown, PanelIsCurrent
<1> QED
  BY <1>1, Always, PTL

\* No byte is counted twice: the row's counter never runs ahead of the agent's, and
\* what D1 and the hub each add is what was carried since their last snapshot.
THEOREM NoDoubleCount == Spec => []NeverOvercounts
<1>1. ASSUME IInv PROVE NeverOvercounts
  <2> SUFFICES ASSUME Clean
               PROVE  d1.monthly <= carried.legacy + carried.current
                      /\ hub.monthly <= carried.legacy
    BY DEF NeverOvercounts, Clean
  <2>1. TypeOK /\ Counter /\ Snapshots /\ Totals
    BY <1>1 DEF IInv, Counting
  <2>2. Delta(hub.traffic, Reading) \in Nat
    BY <2>1, ReadingFacts, DeltaFacts DEF TypeOK
  <2>3. hub.monthly <= carried.legacy
    BY <2>1, <2>2, ReadingFacts DEF Totals, HubCounted, TypeOK
  <2>4. OldTraffic # NoTraffic => OldTraffic.total <= carried.current
    <3>1. Delta(OldTraffic, Reading) \in Nat
      BY <2>1, ReadingFacts, DeltaFacts, OldTrafficType
    <3> QED
      BY <2>1, <3>1, ReadingFacts, OldTrafficType DEF Snapshots, Behind, Before, Traffic
  <2> QED
    BY <2>1, <2>3, <2>4, ReadingFacts, OldTrafficType DEF Totals, TypeOK, Traffic
<1> QED
  BY <1>1, Always, PTL

\* While its first process lives, the month holds what the newest stored report
\* counted, whichever reports were lost or came late.
THEOREM OneProcessCounts == Spec => []EveryByteCounts
<1>1. IInv => EveryByteCounts
  BY DEF IInv, OneCounter, Single, Clean, OneTotal, EveryByteCounts
<1> QED
  BY <1>1, Always, PTL

=============================================================================
