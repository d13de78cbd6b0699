# Verification of rathole-manage

TLA+ models of rathole-manage, the TLC runs that check them on small instances,
and theorems about them that TLAPS proves for every instance. Paths below are
those of the repository; `PROJECT.json` maps every definition to its lines.

## The system

rathole-manage manages a fleet of [rathole](https://github.com/rapiz1/rathole)
servers from one panel.

| Part | Where | State | Operations |
|---|---|---|---|
| Hub (one Durable Object) | `src/worker/hub.ts` | instance records, users, settings (memory and storage), tagged WebSockets with attachments, log ring buffer | `createInstance`, `updateInstance`, `deleteInstance`, `sendCommand`, `acceptAgent`/`acceptBrowser`, `handleAgentMessage`, `webSocketClose`, user table methods, restore in the constructor |
| Worker | `src/worker/index.ts`, `auth.ts`, `passwords.ts` | none of its own; each handler holds what it read across awaits | REST routes, login and session, enrollment, agent upgrade, settings |
| D1 reports | `src/worker/agent-reports.ts`, `migrations/` | one state row per agent, monthly counters kept by triggers | `storeAgentReport`, `syncAgentInstance`, `deleteAgentState`, `mergeAgentState` |
| Agent loop | `agent/src/main.rs`, `protocol.rs` | current connection, the `to_hub` channel | connect, register, select loop, `handle_hub_message`, reporting loop |
| Runner | `agent/src/runner.rs` | configuration held, rathole task, last error | `apply_config`, `start`, `stop`, `restart`, `renew_certificate`, `refresh` |
| HTTP proxy, certificates | `agent/src/http_proxy.rs`, `acme.rs` | Pingora thread, certificate directories | `apply`, `stop`, `ensure_running`, `ensure_certificate` |
| Enrollment and TUI | `agent/src/enroll.rs`, `tui.rs` | identity file | `enroll`, menus |
| Configuration logic | `src/shared/config-generator.ts`, `app/lib/src/config_logic.dart` | none | `normalizeConfig`, `validateConfig` |
| Panels | `src/react-app/`, `app/lib/` | a map of instances fed by a list request and a WebSocket | refresh, live updates |
| rathole patch | `patches/rathole-direct-api.patch` | virtual endpoint registry, traffic counters | register, unregister, open |

**Interactions.** A panel calls the Worker's REST routes; a handler calls the hub
by RPC, usually twice: once to read (`getInstance`, `getUser`), once to write.
The hub pushes `apply_config` and `command` frames over the agent's WebSocket
and receives `register`, `config_ack`, `status` and `log` frames over it. The
agent drives rathole and the proxy in its own process, and posts status reports
over HTTP, beside the WebSocket, into D1. Panels get live updates over a
WebSocket of their own.

**What is hard.** A hub handler is atomic, since the Durable Object's input gate
holds other events back, but a Worker handler is not: anything can happen
between its two hub calls. The push of an edit, a command and the push that
answers a registration all go to one socket, in an order nobody chose. A
half-open socket and its successor can exist together. Frames are lost with
their connection, the agent's outgoing channel survives a reconnect while its
runner may not, and the hub restarts from storage with every socket gone and no
close handler run. The table below lists what makes each part correct;
`PROJECT.json` lists every hazard with its line.

| Part | Correct when |
|---|---|
| Instance record, channel and runner | a registered agent that has caught up holds and runs what the record says; it catches up in the end |
| User table | an admin always remains; names are unique; the bootstrap happens once |
| Certificate store | the proxy is never given a key and a certificate of different orders, and a marker never claims what the certificate does not cover |
| Reports | a late or repeated report never replaces a newer one; every counted byte counts once |
| Enrollment | a node has one instance and one credential, and none once it is deleted |
| Runner and proxy | a node without an error runs what was applied; a stopped node runs nothing; every message is answered |
| Panel view | what is shown as live is the hub's record, a log has what the hub has of it, and both recover from what was missed |
| Configuration logic | what the panel accepts the agent can build, and does what the panel says of it; old configurations keep serving |

## Modules

| Module | What it is | Proofs |
|---|---|---|
| `ControlPlane` | one instance across the Worker, the hub, the network and the agent | `ControlPlaneProofs` |
| `DesiredState` | what `ControlPlane` promises of a node's configuration: the abstract specification it implements | `ControlPlaneProofs` |
| `NodeRunner` | rathole's task and the proxy's thread on the node, with waits and time-outs | `NodeRunnerProofs` |
| `AcmeStore` | the three certificate files of one directory, and the proxy that loads them | `AcmeStoreProofs` |
| `StatusReports` | the reports of one agent, the D1 rows and triggers, the hub's accounting for older agents, and the merge for the panel | `StatusReportsProofs` |
| `Enrollment` | how nodes get and lose instances: requests of several calls to the hub and D1 | `EnrollmentProofs` |
| `Users` | login, sessions and user management across the Worker and the hub | `UsersProofs` |
| `ConfigLogic` | operators: what the panel, the Worker and the agent each make of one configuration | `PanelProofs` |
| `ConfigEditor` | one configuration on its way through the editor and the PUT handler; uses `ConfigLogic` | `PanelProofs` |
| `BrowserSocket` | the WebSocket between a browser and the hub | `PanelProofs`, `LiveLogsProofs` |
| `Panel` | what a browser shows of an instance; uses `BrowserSocket` | `PanelProofs` |
| `LiveLogs` | the log a browser follows; uses `BrowserSocket` | `LiveLogsProofs` |
| `MC...` | instances for TLC | |

Every module has the operators its mutations use beside the definitions they
replace, with a comment that begins with "Mutation": a plausible bug in the
code that one property must notice.

### ControlPlane

Every hub handler indexes its maps and its sockets by one instance id, so one
instance is modelled.

| Variable | Code |
|---|---|
| `inst` | the record in `Hub.instances` and in storage, reduced to `config`, `desiredProcessState`, `status` and `configInSync`; `NoInst` when deleted |
| `socket` | the hub's sockets tagged `agent:<id>`; `closing` after the hub's `close()` and before its close event |
| `toAgent`, `toHub` | frames in flight on each connection |
| `link` | the connection `connect_once` is serving |
| `upgrading` | between the Worker's token check and the hub's `acceptAgent` |
| `outbox` | the `to_hub` channel, created once in `main` and kept across connections |
| `runner` | `Runner.config`, and what its rathole task serves |
| `req` | REST handlers between their first and second hub call |
| `served`, `faults` | counters of the two bounds |

| Action | Code |
|---|---|
| `BeginPut`, `FinishPut` | `PUT`/`PATCH /api/instances/:id`: `getInstance`, then `updateInstance` with the whole record that was read |
| `BeginCommand`, `FinishCommand` | `POST /api/instances/:id/command`, `Hub.sendCommand` |
| `BeginDelete`, `FinishDelete` | `DELETE /api/instances/:id`, `Hub.deleteInstance` |
| `CheckUpgrade`, `AcceptAgent` | `GET /api/agent/ws`, `Hub.acceptAgent`, and the `Register` the agent sends first |
| `AgentReceive`, `AgentSend` | the two arms of `connect_once`'s select loop; `handle_hub_message` with `Runner::apply_config`, `start`, `stop`, `restart` |
| `AgentSeesClose` | the end of `connect_once` on a close frame |
| `HubReceive`, `HubClose` | `webSocketMessage` with `handleAgentMessage`; `webSocketClose` |
| `AgentDrops`, `AgentRestarts`, `RatholeExits`, `HubRestarts` | a lost connection, a restarted agent process, a rathole task that returned, a restored Durable Object |

A configuration is one value. The agent tells four kinds apart, and so does the
model: `Unreadable` ones pass `validateConfig` and do not deserialize on the
agent, which drops the message without an answer; `Unbuildable` ones are refused
by the agent's builders and acknowledged with `ok: false`; `NoServices` ones
apply and leave rathole stopped; the others run. A `reload` command takes the
path of `restart` on both sides. `renew_certificate` touches neither rathole nor
the intent and stands with `status`.

Left out: how long a job takes and what it waits for (`NodeRunner`), the HTTP
proxy (a failing proxy shows as a nondeterministic negative ack), log frames,
throttled status writes, and the client address the hub records.

`DesiredState` has three variables: the record's configuration, the orders the
node has not carried out, and the configuration it holds. `FollowsRecord` maps
the record, the channel of the connection in use and the runner to them
(`Pending`): an edit records, a deletion forgets, a registration offers, a
command is an order without a configuration, and every other step is invisible
or loses the orders with the connection.

### Users

`users` is the hub's table, `sessions` the usernames for which a browser holds a
valid signed cookie: a handler looks the user up by that name, so that the cookie
of a deleted user counts again for the next one of that name.
A login without users bootstraps (`bootstrapAdmin` checks the table again); an
admin's request authorizes itself with one hub call and changes the table with a
second one (`createUser`, `updateUser`, `deleteUser`, which hold the name and
last-admin guards). Names are compared in lower case (`Lower`). Passwords are
left out: no modelled guard reads one after the login.

### AcmeStore

The directory of a certificate is named after the first host in order, so host
sets with the same first host share `key.pem`, `fullchain.pem` and `domains.txt`.
Each file is replaced by a rename; the three are not replaced together. A file
is modelled by the order (the certificate issued) that it comes from.

| Variable | Code |
|---|---|
| `key`, `cert`, `marker` | the three files; `cert` also has its hosts and whether it is within thirty days of its end |
| `pc`, `want` | where the current `HttpProxyRunner::apply` is, and its hosts that resolve; none when Let's Encrypt is off |
| `outcome` | `CertificateOutcome` |
| `running` | `HttpProxyRunner.running`: hosts served over TLS, thread alive or not, the key and the certificate it loaded |
| `ok` | the last apply reported no error |
| `unloaded` | not in the code: an apply changed files and ended in an error before the restart, and the proxy was not started since |
| `orders`, `crashes`, `writeFailures` | certificates issued, and counters of the bounds |

| Action | Code |
|---|---|
| `Apply` | `apply` up to the order: `ensure_http_listener`, `inspect_certificate`, forced renewal, and its early errors |
| `OrderFails`, `OrderSucceeds` | `issue_certificate` |
| `Write`, `WriteFails` | the three writes, in the order of the code, and the inspection of what was written |
| `StoreCustomFails` | `store_custom_certificate` returning an error, which ends `apply` after the writes and before the restart |
| `Serve` | `ensure_running` after the reaping, and the stop before it when the certificate was renewed |
| `StopProxy`, `Refresh`, `ProxyDies` | `Runner::stop`, `HttpProxyRunner::refresh`, Pingora's thread ending by itself |
| `CertificateAges`, `Crash` | time, and the end of the process between any two steps |

Left out: the ACME account and the challenge store, the files of pasted certificates
(their directories are named after their content, so none is overwritten; that
storing one can fail is modelled), bind addresses and routes, whose change restarts
the proxy as a change of hosts does.

### StatusReports

Every report is a task and a request of its own, ordered only by the time the
agent's clock gave it. Agents before the report endpoint send `status` frames to
the hub instead, which folds their counters into its record with the same rule;
an upgrade of the socket seeds D1 from that record.

| Variable | Code |
|---|---|
| `clock` | `now_ms` of the node |
| `agent` | the process: its number, whether it is a legacy one, the name its service has there, and the traffic registry's counter |
| `nudge` | `report_now` |
| `last` | the last report of the process, and whether it was in time: newer than all before it and than the row, and not lost since |
| `flights` | report requests, before and after `agentCredentialMatches` |
| `d1` | `agent_credentials`, `agent_status` and `agent_monthly_traffic`; `fresh` is `receivedAt >= lastSeen` |
| `hub` | the record's `traffic` and `monthlyTraffic`, and whether it and its socket exist |
| `upgrade` | the record that an upgrade or enrollment read before its D1 batch |
| `deleting`, `service` | a `DELETE` between the hub and D1; the configured name of the service |
| `carried`, `newest` | not in the code: bytes recorded so far, the greatest time of a report |
| `edits`, `setbacks` | counters of the bound |

| Action | Code |
|---|---|
| `Carry`, `Restart`, `Tick`, `SetBack` | `record_traffic`; a process that ends and starts anew, upgraded or not; the node's clock |
| `TakeReport` | one pass of the reporting loop, at a heartbeat, a change or a nudge |
| `Lose`, `Refuse`, `Admit`, `Store` | `send_status_report` failing; `handleAgentReport` refusing, letting through, and storing with the trigger |
| `BeginSync`, `FinishSync`, `Register`, `GiveUp` | the upgrade or enrollment: read the record, seed D1, accept and register, or stop there |
| `HubStatus`, `Disconnect`, `Edit` | the hub's `status` case, `webSocketClose`, and an edit that reaches a connected agent |
| `DeleteInstance`, `DeleteAgentState` | the two calls of `DELETE /api/instances/:id` |

The counters are per service and direction and do not depend on each other:
the model has one service and one direction. All months are one, so that the
month's own boundaries (a report received in the next month, a seeding of past
months) are left out, as are the payload's validation and the times of the
hub's writes to storage. A half-open socket is left to `ControlPlane`, and one
upgrade or enrollment runs at a time.

### NodeRunner

The agent answers one message of the hub at a time, under the runner's mutex,
while rathole's task and the proxy's thread move on their own. A message is a
job with a program counter (`at`) that stops wherever the code awaits something.

| Variable | Code |
|---|---|
| `config`, `inner`, `lastError` | `Runner.config` with `http_config`, `Runner.inner`, `Runner.last_error` |
| `running`, `routes` | `HttpProxyRunner.running`, the shared route table |
| `task`, `thread` | tasks and threads that exist, those nobody has a handle of included: starting, serving, ended or failed, asked to end or not |
| `at`, `job` | where the present message has come to, and its local variables |
| `wanted`, `renewal`, `abandoned` | not in the code: whether the last job was to start or to stop, a renewal since and how it ended, whether a stop has ever timed out |

| Action | Code |
|---|---|
| `ApplyConfig`, `Start`, `Stop`, `Restart`, `RenewCertificate` | the `Runner` methods, up to their first wait |
| `StopRathole`, `RatholeStopped`, `RatholeStopTimesOut`, `StartRathole` | `stop_rathole` with its five seconds; `start_rathole` and the errors `start` puts together |
| `ApplyProxy`, `HaveCertificate`, `CertificateFails` | `HttpProxyRunner::apply`, with `ensure_http_listener` before the order |
| `EnsureRunning`, `StopProxy`, `ProxyStopped`, `ProxyStopTimesOut` | `ensure_running` with the reaping; `stop` and `stop_running`, whose `notify_waiters` only a waiting thread hears |
| `StartProxy`, `BindFails`, `ProxyStarted`, `ProxyExitsEarly` | the port probe, the thread, and the 750 ms of `START_GRACE` |
| `Refresh` | `Runner::refresh` between two jobs |
| `RatholeMoves`, `ProxyMoves` | a task or thread binds its ports or fails to, hears that it should end, or dies |

Left out: what the proxy does with a request, host resolution, the TLS callback,
and configurations the builders refuse, which change nothing here.

### Enrollment

The Worker's handlers are requests of several calls, with other requests between
them; three run at a time. The agent token is drawn with the instance and never
changes, so the identifier of an instance stands for both.

| Variable | Code |
|---|---|
| `owner` | the hub's records: whose `nodeId` an instance has |
| `used` | identifiers drawn |
| `creds`, `rows` | `agent_credentials` and `agent_status` |
| `identity`, `connected` | the identity file of a node's daemon, and the tag of its socket |
| `req` | handlers between two calls |
| `disturbed` | not in the code: instances on which two requests crossed or one failed half-way |

| Action | Code |
|---|---|
| `EnrollFind`, `EnrollSettings`, `EnrollCreate`, `EnrollSeed`, `EnrollFails` | `POST /api/agent/enroll`: `findInstanceByNodeId`, `getSettings`, `createInstance`, `syncAgentInstance` |
| `Provision` | `GET /api/instances/:id/reveal` and the identity set by hand |
| `UpgradeCheck`, `UpgradeSeed`, `UpgradeAccept`, `Disconnect` | `GET /api/agent/ws`, `webSocketClose` |
| `ReportCheck`, `ReportStore` | `POST /api/agent/report` |
| `PutRead`, `PutWrite` | `PUT /api/instances/:id` |
| `DeleteFromHub`, `DeleteAgentState`, `DeleteFails` | `DELETE /api/instances/:id` |

### ConfigLogic and ConfigEditor

`ConfigLogic` is pure: `NormalizeConfig`, `ValidateConfig` and `ClientToml` from
`src/shared/config-generator.ts`, and on the other side `AgentBindAddr`,
`AgentRoutes`, `AgentCustom`, `AgentHttpsHosts`, `AgentRefuses` from the agent's
builders. A text is a member of a small set that names what the code asks of it
(good, padded, blank, bad); a host is its label with two spellings, capitals and the
final dot; an address is its form and its port, a negative one for "not a number".
The `httpHost` of earlier versions may hold several hosts in one text (`ListLabels`,
`NamesIn`): the panel splits it, and the agent takes it for one host. `Serving` is
what visitors get from a node: ports, routes, certificates.

`ConfigEditor` is one record (`stored`), a browser's copy of it (`shown`) and the
editor's `draft`. The controls of the page are its edits (`EditService`,
`RouteService`, `UpdateServiceType`, `UpdateHttp`, `UpdateLetsEncrypt`,
`UpdateServiceCustomCertificate`, `AddService`, `RemoveService`, together
`EditDraft`), then `Save` with the PUT handler's `Put`, `Rename`, which sends only
the name, so that the handler writes the stored configuration back in its normal
form, `OtherSaves` for another administrator, and `ViewArrives` for a live update
with the editor's effect.

Left out: transport, tls and noise blocks, nodelay and heartbeat, the staging
switch, and the client's choice between host name and domain. `FromEarlier` is what
earlier versions could save and the model starts from: an `http` service has a host,
a `udp` service has none, and a former global certificate never meets a disabled
certificate of a service's own.

### BrowserSocket, Panel and LiveLogs

`BrowserSocket` is `connect` of `useHubSocket` and the hub's end: a connection
opens, is lost with what is on its way, closes in the browser when that has been
read, and is retried. `Panel` puts on it the list of instances (asked for over
HTTP, answered from D1 and from the hub's memory at two moments, overtaken by
other lists and by messages) for one instance, whose hub record and last report
are version numbers. `LiveLogs` puts on it the log subscriptions, the hub's ring
buffers and the replay. The mobile panel follows the same protocol.

A list shows D1's report whenever it has read it; the comparison of its time with
the hub's `lastSeen` (`mergeAgentState`) is in `StatusReports`. The web panel
closes its socket with its page; `UnsubscribeLogs` alone is the mobile panel.

## Runs

| Run | Asks | Shows |
|---|---|---|
| `control_plane` | `TypeOK`, `Agreement`, `ChannelCarriesRecord`, `RunsHeldConfig`, `PanelHearsBack`, `FollowsRecord` | with two overlapping requests, two sockets and two faults, a registered agent's channel always ends in the record's configuration and intent, a caught-up agent holds and runs them, the panel hears of every configuration the agent can read, and the node takes the records in their order |
| `control_plane_liveness` | `Converges` | once requests and faults stop, an agent whose instance exists reconnects and agrees with the record for good |
| `in_sync` | `InSyncIsTrue` | violated: see Findings |
| `node_runner` | `NoErrorMeansServing`, `StoppedIsSilent`, `EveryJobEnds` | an idle runner without an error serves what it was given, a stop leaves nothing running, and every message is answered, though tasks and threads die, are slow, or hold their ports |
| `acme_store` | `TypeOK`, `WritesNest`, `PairOrError`, `RenewalIsLoaded` | no marker is ahead of its pair, and an apply leaves the proxy with one pair, the one on disk, unless an error stopped one between its first write and the restart |
| `status_reports` | `TypeOK`, `NeverOvercounts`, `EveryByteCounts`, `PanelIsCurrent` | whatever is lost, late or seeded, and in a rolling upgrade, bytes count once and the panel ends at the last report |
| `enrollment` | `OneInstancePerNode`, `DeletedIsForgotten`, `ConnectedCanReport` | nodes whose requests do not cross have one instance, deletion leaves nothing behind, and who is connected can report, though D1 fails between two calls |
| `users` | `TypeOK`, `AdminExists`, `UniqueNames`, `BootstrapIsOver` | overlapping logins and user management never lose the last admin, duplicate a name or bootstrap twice |
| `config_editor` | `EditorTypeOK`, `NodeCanRunIt`, `PanelSaysWhatNodeDoes`, `HostsHaveOneOwner`, `ClientFitsNode`, `MigrationKeepsServing`, `OthersStay` | what the handler lets through, the node can run (heartbeat aside, see finding 1) and does as the panel says; old configurations keep serving when they are opened, also those with several hosts in one field |
| `editor_resync` | `EditorFollows` | violated: see Findings |
| `panel` | `TypeOK`, `LiveIsCurrent`, `NotFoundIsTrue`, `EndsCurrent` | a live panel shows the hub's record and ends at it and at the node's last report, whatever is lost or overtaken |
| `live_logs` | `TypeOK`, `LogIsComplete`, `OnlyTheFollowed`, `LogCatchesUp` | a followed log is complete after every change and reconnection, and the hub sends no other |

**Bounds.**

- `control_plane`: two requests are enough for every pair of handlers to
  overlap, and the properties speak of one record. Two connections are a
  half-open one and its successor. Two faults (one in the liveness run) let a
  second fault hit the recovery from the first. There is a configuration of each
  kind: one that runs, one without services, one unreadable, one unbuildable.
- `node_runner`: four jobs are a start, a change, a stop and what comes after;
  one fault is a death, a delay beyond a time-out, or a port taken by another
  program. A second task or thread is needed beside one that was given up, and
  there are two of each. The proxy is off, plain or with Let's Encrypt; pasted
  certificates take the same steps as Let's Encrypt without an order, and are in
  the theorems.
- `acme_store` has two host sets that share a directory and the empty one. Four
  orders leave room for a first certificate, a change of the host set, a way back
  and a renewal; two crashes and two failed writes let a second fault hit the
  repair of the first.
- `status_reports`: two reports can be in flight and overtake each other, two
  processes make one restart or version change, two bytes a counter that grows
  between reports. The clock stands still, advances once and is set back at most
  once, or an edit happens instead: `PanelIsCurrent` holds across both, the counting
  properties up to them. The record's time lies at the agent's first
  millisecond, so that reports come at the time of the seeded row and after it.
- `enrollment`: three requests let two calls of one cross an enrollment and a
  deletion of the same node; two nodes and two instances distinguish a node's
  own instance from another's. Nothing else is bounded: the run ends when both
  identifiers are drawn.
- `users`: three ids, two spellings of one name and another name, two requests.
- `config_editor`: two services can repeat a name or a host. Two edits and a foreign
  save from three starting points, one of them a configuration of an earlier
  version; about twelve hundred old configurations are opened and renamed unedited,
  their old field with no host, one, two in a list, or a list of none. Ports 0,
  65535 and 65536 are typed, and hosts in capitals, with the final dot and with a
  blank.
- `panel`: two changes of the record, a report, two lists on their way and two
  faults. `live_logs`: buffers of two and three lines (300 and 500 in the code) and
  four lines, so that both overflow; three changes of the log and three faults.

**Symmetry.** Requests, connections, nodes and identifiers are symmetric where a
cfg says so: no definition tells two of them apart. No liveness run uses it.

**Fairness.**

- `Converges`: weak fairness of the second half of each request, because the
  Worker runs a handler it has started to its end; of `HubReceive` and `HubClose`,
  because the platform delivers the frames and close events it accepted; and of
  the agent's connect, receive, send and close steps, because the reconnect loop
  (`agent/src/main.rs:420-435`) and the select loop never give up. No fairness of
  requests or faults.
- `EveryJobEnds`: weak fairness of the job's steps together, since each wait has
  its end or its time-out (`runner.rs:255`, `http_proxy.rs:706`, `:764`), and of each
  task and thread, which the operating system runs. It assumes that the HTTP calls
  to the ACME server return, with whatever answer: polling ends after ninety seconds
  (`acme.rs:289`), but the code bounds no single call, and a message that waits for
  one that never returns is not answered. No
  fairness of messages, deaths or `Refresh`.
- `EndsCurrent`: the poll's timer fires (`useHubSocket.ts:114`), each request is
  answered or fails, an open socket delivers, a closed one is retried.
- `LogCatchesUp`: the socket alone, as for `EndsCurrent`.

**Deadlock** is checked in `panel`, where the poll never ends. The other systems may
stand still, and their cfgs say so: requests, jobs, faults, lines and identifiers
are bounded, and a deployment in which nobody clicks and nothing fails has nothing
to do. The liveness properties are what forbids standing still too early.

## Findings

1. *`configInSync` can be stale.* `config_ack` names no configuration, an edit does
   not reset the flag, and the agent does not answer a message it cannot read,
   so `ok` from an earlier configuration stays on display
   (`src/worker/hub.ts:558`, `src/shared/types.ts:168`). Run `in_sync`.
2. *An untouched editor does not follow.* The effect at
   `src/react-app/pages/InstanceDetail.tsx:653` runs when the server's
   configuration has changed, and by then `dirty` compares the old draft with the
   new configuration: it is true for every real change. The editor shows unsaved
   changes nobody made, and saving them undoes the other administrator's, while
   line 651 says it re-syncs "while we're not editing". Run `editor_resync`.

## Known exceptions

Properties name what they except. These are behaviours of the code, met while
modelling, that no sentence of the repository plainly rules out, or that a
property of a run holds up to.

- *A PUT undoes a Stop.* `PUT /api/instances/:id` (`src/worker/index.ts:564`) writes
  back the record it read before an await, `desiredProcessState` included.
  `Agreement` and `FollowsRecord` hold all the same: record and agent agree.
- *A torn pair passes for an existing certificate.* After a crash or a failed
  write between key and certificate, a failing order falls back to whatever
  certificate has a readable expiry (`agent/src/acme.rs:168`). `PairOrError`
  holds: the apply reports the order's error.
- *A marker can speak of an earlier certificate* after a crash before its write,
  and is trusted when the host set comes back (`agent/src/acme.rs:446`).
- *An error before the restart hides a renewal*: when the marker cannot be written
  (`agent/src/acme.rs:212`), or a pasted certificate does not parse, does not fit
  its key or cannot be stored (`agent/src/http_proxy.rs:484`), `apply` ends with the
  new pair on disk and the old one loaded. A later apply without an error finds the
  new pair fresh and the paths unchanged, and the proxy keeps what it has until it
  is started again: `unloaded`, which `RenewalIsLoaded` and `PairOrError` except.
- *A renamed service is counted again* (`migrations/0001_agent_reports.sql:54`): the
  counter belongs to the address, reports go by name. `NeverOvercounts` speaks of
  behaviours without an edit.
- *Reports of a lagging clock are ignored* (`src/worker/agent-reports.ts:137`): an
  upgrade seeds the row with the hub's time, and reports whose time lies before it
  count as late until the node's clock has caught up. `PanelIsCurrent` speaks of
  reports in time.
- *Several hosts in the old `httpHost`* are split by the panel
  (`src/shared/config-generator.ts:69`), while the agent takes the text for one
  host (`agent/src/runner.rs:366`) that no visitor asks for. The node begins to serve them
  when the configuration is saved or its node renamed: `MigrationKeepsServing`
  then asks that nothing a visitor could reach is lost.
- *Enrollments that cross* create two instances of one node (`src/worker/index.ts:333`),
  and a deletion that crosses another request or fails between the hub and D1
  leaves rows, a credential or a socket behind (`:579`): `disturbed` in
  `Enrollment`.
- *A renewal starts the proxy of a stopped node* (`agent/src/runner.rs:292`), and one
  that fails may leave the proxy down with no last error. `StoppedIsSilent` and
  `NoErrorMeansServing` except them until the next start or stop.
- *A stop that times out orphans what it stopped.* The task or thread goes on with its
  ports (`agent/src/runner.rs:256`, `agent/src/http_proxy.rs:764`), always so for a
  proxy thread that was not yet waiting for the notification
  (`agent/src/http_proxy.rs:316`): `abandoned` in `NodeRunner`. What starts
  afterwards finds its port taken and says so.
- *A configuration without services stops the proxy too* (`agent/src/runner.rs:159`),
  while `HttpProxyRunner::apply` means an enabled proxy without routes to run.
- *An older list replaces newer news* (`useHubSocket.ts:37`, `app_state.dart:122`) until
  the next poll: `overtaken` in `Panel`. The mobile panel's logout with a list
  on its way refills the map (`app_state.dart:118`).
- *A reconnection replays the log's buffer* and shows its lines twice: `LogIsComplete`
  is about lines, not about how often.
- *Hosts that differ by the final dot* pass validation and collide on the node
  (`config-generator.ts:400`); *an emptied token* is stored as `""`, which the node
  takes for a token and `client.toml` for none (`InstanceDetail.tsx:931`); an `http`
  service of an earlier version has no port while the proxy is off (`Stranded`).
  A saved configuration may differ from the draft in the order of its keys or in
  blanks, so that the editor stays dirty.
- *Settings* are read, merged and written in two calls (`src/worker/index.ts:483`), so
  that the last of two administrators wins; a settings page whose load failed
  saves its fallback values.

## Proofs

`UsersProofs` proves, for any ids, names and requests, that the table keeps its
type, that an admin remains once there was one, that names are unique and that
no table is emptied for a second bootstrap. The inductive
invariant adds what a request in progress holds: `Authorized` (there was an
admin when it was let through, hence there still is), `Drawn` (the id it drew is
unused, so that no put replaces another user) and `Named`.
Assumed: `UsersAssumption`, `NoUserAssumption` (the absent values are no values).

`ControlPlaneProofs` proves, for any configurations, requests and connections and
without the two bounds, the types, `RunsHeldConfig`, `ChannelCarriesRecord` and
`Agreement`. `Agreement` speaks of an agent that has read everything and is not
inductive. `ChannelCarriesRecord` is: it relates the record to the last
`apply_config` and the last word on running in the channel, and to the runner
when the channel has none. Its proof is about queues: a push makes the channel
carry the record whatever was in it (`PushCarries`), a command moves record and
channel together (`CommandCarriesOn`), and reading the head keeps what it
carries (`Received`). `Received` needs `RunsHeldConfig`, because `start` leaves
a running rathole alone. Assumed: `ConfigAssumption`, `NoConnAssumption`.

The same module proves that `ControlPlane` implements `DesiredState` and that the
panel hears back. The refinement needs one fact beside the types: nothing is left
in the channel of a connection the agent does not use (`UnusedAreEmpty`), or a
new connection would begin with old orders. That is inductive only with
`UpgradesAlone` (the agent connects when it has no connection). Each action is
then one or several lines of `DesiredState` or invisible. `PanelHearsBack` speaks of
a quiet channel; what is inductive is `AnswerIsComing`: the registered agent's
answer is still to be given, in its outbox, or on its way to the hub. Assumed
besides: `NoInstAssumption`.

`AcmeStoreProofs` proves, for any host sets and any number of orders and faults, the
four properties of the run `acme_store`. The inductive invariant adds what holds
between two writes: `HalfWritten` (which of the files belong to the current
order), `Loaded` (what the proxy loaded is what is on disk, unless an order is being
written or has yet to be loaded, or an error stopped an apply before the restart,
`unloaded`) and `Complete` (an outcome without an error comes
with a matching pair on disk). `WritesNest` alone is not inductive: that the marker
written is not newer than its certificate follows from `HalfWritten`.
Assumed: `HostsAssumption` (no empty set is ordered for), `BoundAssumption`.

`StatusReportsProofs` proves, for any names, times and bounds, the four properties of
the run `status_reports`. Two facts are ordered by the reports' times and not by
their arrival. For the panel: the last report in time is shown, or it is still
on its way and newer than the row (`Shown`), which needs that a connected
instance has a row (`Sockets`) and that no report is newer than the last
(`InTime`). For the month: `Before` says of two snapshots that what the trigger
would add between them is at most what was carried between them. It holds
of every pair among the row and the reports in flight, and between each of them and the
agent's present counter (`Snapshots`), so that skipping a lost or late report
changes nothing; the month is then at most what legacy processes
carried plus what the row's snapshot had seen of current ones (`Totals`).
Assumed: `NoServiceAssumption`, `SeedTimeAssumption`, `AbsentAssumption`.

`EnrollmentProofs` proves, for any nodes, identifiers and requests, the types and
the three properties of the run `enrollment`. `RequestInv` says of an edit, a
deletion and an upgrade between two calls what still holds of the instance unless
another request crossed it (`EditsKeepOwner`, `DeletionsAreFinal`,
`UpgradesAreSeeded`), and of an instance that is gone which requests can still
carry it (`GoneIsGone`). Assumed: `NoneAssumption`.

`NodeRunnerProofs` proves, for any control addresses, tasks, threads and bounds, the
types, `NoErrorMeansServing` and `StoppedIsSilent`. Both speak of an idle runner;
the inductive invariant prepares them step by step: `Stopped` and `Prepared` say of
each step of a job what the steps before it have done, `Started` what a finished
start leaves, `NothingIsLost` that every living task and thread has its handle
unless a stop timed out, and `OwnAreNotAsked` that what ends on its own has failed,
so that its end is an error the next tick keeps. Assumed: `NoneAssumption`,
`NoConfigAssumption`, `ProxiesAssumption`.

`PanelProofs` has two halves. Of `Panel` it proves, for any number of changes,
reports, lists and faults, the types, `LiveIsCurrent` and `NotFoundIsTrue`. Both
speak of a moment at which nothing is on its way. A page that is behind will be
told, by a message or by a list (`Behind`, `Told`); but a list can be older than
the socket. What is inductive is that such a list has a better one asked for
after it: if the old one comes last, it is seen to be late, and if it comes
first, the better one is still to come. `InStep` adds that nothing on its way is
newer than the record, and that what is as new says the same of it. Assumed:
`FaultsAssumption`, `OwnAssumption`, `BoundsAssumption`.

Of `ConfigEditor` it proves, for any texts, hosts, old configurations and edits, the
types, the five invariants of the run `config_editor` and the action property
`OthersStay`. The state needs little (`EditorInv`): what is stored is what an
earlier version could save and, once it went through the handler, what
`validateConfig` lets through; a draft is free of the fields of earlier versions,
which is why retyping one service, which normalises all of them, has nothing to
migrate in the others. The work is in the operators: what `NormalizeConfig` keeps of
a service, what no error of `ValidateConfig` says of one, and that the agent's
builders ask for no more. `normalizeHosts` keeps the first spelling of a host in a
loop over a sequence (`FirstSpellings`), while the agent collects labels in a set;
that both name the same hosts is an induction. The induction theorems of the library
take an operator, so it is done over the set of the lengths at which it would fail,
whose least member is impossible. Where an old field lists several hosts, every
route of before but that of the list itself is among those of the normal form
(`MigrationAdds`). Assumed: `TextAssumption`, `ListsAssumption` (a list is no host
name, and names a sequence of hosts), `AbsentAssumption` (a field that is not there
is no value), `ConfigsAssumption` (old configurations satisfy `FromEarlier`; what
another administrator sends is any configuration), `TypedAssumption`,
`EditorBoundsAssumption`.

`LiveLogsProofs` proves, for any instances, lines and buffer sizes, the types,
`LogIsComplete` and `OnlyTheFollowed`. Both speak of an empty socket. While frames
are on their way, `UpSettles` says that those to the hub end with the browser
following its log and no other, `SubscribesLast` that the subscription, whose answer
is the replay, comes last, and `DownCatchesUp` that, once the hub has read it, what
the browser has, with the lines on their way to it, ends with what the hub keeps,
where both buffers drop their oldest lines. Assumed: `FaultsAssumption`,
`NoneAssumption`, `LimitsAssumption`.

Only model-checked: the liveness properties `Converges`, `EveryJobEnds`,
`EndsCurrent` and `LogCatchesUp`. They rest on fairness, whose `ENABLED` is beyond
the prover. Every other property of a passing run is a theorem.

## Not modelled

- settings and their page; the client address the hub records; the attachment
  an old agent's status frames leave on its socket, and the hub's throttled
  writes (`src/worker/hub.ts:184`);
- passwords: hashing, changes and resets, whose overlap no modelled guard reads;
  the expiry and signature of session cookies;
- what the proxy does with a request: routing by host, headers, the challenge
  endpoint, the TLS callback, host resolution; the ACME account;
- the payload validation of reports, the boundaries of months;
- the patch's virtual endpoints (register, unregister by id, open), which rathole
  calls: only its traffic counters are in `StatusReports`;
- the terminal interface, the user page, the mobile panel's sessions and its port
  of the validation, rendering, log capture, system statistics, packaging and
  deployment scripts: they keep no state that a property is about, or repeat
  what is modelled from the web panel.

## Where it could grow

A hub storage module with throttled writes, attachments and hibernation; the
registry of virtual endpoints; and the overlap of password changes in `Users`.
