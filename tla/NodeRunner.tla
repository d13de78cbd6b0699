----------------------------- MODULE NodeRunner -----------------------------
(***************************************************************************)
(* How the agent starts and stops what it supervises: the rathole server,  *)
(* a task of its own runtime (src/agent/src/runner.rs), and the HTTP       *)
(* proxy, a thread (src/agent/src/http_proxy.rs).                          *)
(*                                                                         *)
(* A message of the hub is a job: it holds the runner's mutex until it has *)
(* its answer, waits for tasks, threads and ports on the way, and gives up *)
(* what does not stop in time.  Tasks and threads go on meanwhile, the     *)
(* ones that were given up included.  The agent's exit ends them all.      *)
(*                                                                         *)
(* ControlPlane has the same jobs as single steps; what a certificate is   *)
(* issued from and which one is loaded is in AcmeStore.                    *)
(***************************************************************************)
EXTENDS Naturals

CONSTANTS
    Binds,          \* control addresses of rathole
    Proxies,        \* what a configuration may ask of the proxy
    Tasks, Threads, \* tasks and threads that may be alive at the same time
    NoTask, NoThread, NoConfig,
    MaxJobs,        \* bound: messages of the hub
    MaxFaults       \* bound: deaths, delays and ports taken by others

ASSUME ProxiesAssumption == Proxies \subseteq {"off", "plain", "custom", "acme"}
ASSUME NoneAssumption == NoTask \notin Tasks /\ NoThread \notin Threads

Config == [bind : Binds, services : BOOLEAN, proxy : Proxies]

ASSUME NoConfigAssumption == NoConfig \notin Config

VARIABLES
    config,         \* Runner.config and http_config
    inner,          \* Runner.inner: the rathole task, or NoTask
    lastError,      \* Runner.last_error is there
    running,        \* HttpProxyRunner.running: the proxy's thread, or NoThread
    routes,         \* the configuration whose routes are shared with the threads
    task,           \* rathole tasks
    thread,         \* proxy threads
    at,             \* the step the present job has come to
    job,            \* what it works on
    wanted,         \* whether the last job that started or stopped was a stop
    renewal,        \* whether a renewal came after it, and how it ended
    abandoned,      \* a stop has timed out
    jobs, faults    \* bounds

runnerVars == <<config, inner, lastError>>
proxyVars == <<running, routes>>
historyVars == <<wanted, renewal, abandoned>>
vars == <<runnerVars, proxyVars, task, thread, at, job, historyVars, jobs, faults>>

\* A job keeps the task or thread it waits for, the proxy it is about to run,
\* whether a certificate comes after it, what follows the stop of the present
\* one, and whether the proxy has failed.
NoJob == [kind |-> "none", task |-> NoTask, thread |-> NoThread, runtime |-> "off",
          first |-> FALSE, next |-> "over", failed |-> FALSE]

Init ==
    /\ config = NoConfig
    /\ inner = NoTask /\ running = NoThread
    /\ lastError = FALSE
    /\ routes = NoConfig
    /\ task = [t \in Tasks |-> [at |-> "free", config |-> NoConfig, asked |-> FALSE]]
    /\ thread = [h \in Threads |-> [at |-> "free", runtime |-> "off", asked |-> FALSE]]
    /\ at = "idle" /\ job = NoJob
    /\ wanted = "stop" /\ renewal = "none" /\ abandoned = FALSE
    /\ jobs = 0 /\ faults = 0

Idle == at = "idle"

Goto(step, j) == at' = step /\ job' = IF step = "idle" THEN NoJob ELSE j

Fault == faults < MaxFaults /\ faults' = faults + 1

Http(c) == IF c = NoConfig THEN "off" ELSE c.proxy

\* What HttpProxyRunner routes for a configuration.
Routed(c) == IF Http(c) = "off" THEN NoConfig ELSE c

FreeTask(t) == task' = [task EXCEPT ![t] = [at |-> "free", config |-> NoConfig, asked |-> FALSE]]

FreeThread(h) == thread' = [thread EXCEPT ![h] = [at |-> "free", runtime |-> "off", asked |-> FALSE]]

TaskAlive(t) == task[t].at \in {"starting", "serving"}

ThreadAlive(h) == thread[h].at \in {"starting", "serving"}

----------------------------------------------------------------------------
(***************************************************************************)
(* Messages of the hub: Runner::apply_config, start, stop, restart and     *)
(* renew_certificate.                                                      *)
(***************************************************************************)
Begin(kind, step) ==
    /\ Idle
    /\ jobs < MaxJobs
    /\ jobs' = jobs + 1
    /\ Goto(step, [NoJob EXCEPT !.kind = kind])
    /\ UNCHANGED <<inner, proxyVars, task, thread, abandoned, faults>>

\* A configuration without services stops everything, like a stop.
ApplyConfig ==
    \E c \in Config, stopped \in BOOLEAN :
        /\ config' = c
        /\ lastError' = FALSE
        /\ IF stopped \/ ~c.services
           THEN Begin("stop", "stop_rathole") /\ wanted' = "stop"
           ELSE Begin("start", "stop_rathole") /\ wanted' = "run"
        /\ renewal' = "none"

Start ==
    /\ Begin("start", "proxy")
    /\ wanted' = "run" /\ renewal' = "none"
    /\ UNCHANGED <<config, lastError>>

Stop ==
    /\ Begin("stop", "stop_rathole")
    /\ wanted' = "stop" /\ renewal' = "none"
    /\ UNCHANGED <<config, lastError>>

Restart ==
    /\ Begin("start", "stop_rathole")
    /\ wanted' = "run" /\ renewal' = "none"
    /\ UNCHANGED <<config, lastError>>

\* Refused without Let's Encrypt; a stopped node is not asked about.
RenewCertificate ==
    /\ Http(config) = "acme"
    /\ Begin("renew", "proxy")
    /\ renewal' = "done"
    /\ UNCHANGED <<config, lastError, wanted>>

----------------------------------------------------------------------------
(***************************************************************************)
(* rathole                                                                 *)
(***************************************************************************)
\* Mutation: a stop leaves the proxy as a restart does.
AfterRatholeLeavesProxy == IF job.kind = "stop" THEN "idle" ELSE "proxy"

\* A stop ends the proxy as well, a restart leaves it to apply.
AfterRathole == IF job.kind = "stop" THEN "stop_proxy" ELSE "proxy"

StopRathole ==
    /\ at = "stop_rathole"
    /\ inner' = NoTask
    /\ IF inner = NoTask
       THEN Goto(AfterRathole, job) /\ UNCHANGED task
       ELSE /\ task' = [task EXCEPT ![inner].asked = TRUE]
            /\ Goto("await_task", [job EXCEPT !.task = inner])
    /\ UNCHANGED <<config, lastError, proxyVars, thread, historyVars, jobs, faults>>

\* An error of the task that ended is kept.
RatholeStopped ==
    /\ at = "await_task"
    /\ task[job.task].at \in {"ended", "failed"}
    /\ lastError' = (lastError \/ task[job.task].at = "failed")
    /\ FreeTask(job.task)
    /\ Goto(AfterRathole, [job EXCEPT !.task = NoTask])
    /\ UNCHANGED <<config, inner, proxyVars, thread, historyVars, jobs, faults>>

\* The time-out of five seconds.
RatholeStopTimesOut ==
    /\ at = "await_task"
    /\ TaskAlive(job.task)
    /\ Fault
    /\ lastError' = TRUE /\ abandoned' = TRUE
    /\ Goto(AfterRathole, [job EXCEPT !.task = NoTask])
    /\ UNCHANGED <<config, inner, proxyVars, task, thread, wanted, renewal, jobs>>

IsRunning == inner # NoTask /\ TaskAlive(inner)

\* rathole is started whatever became of the proxy, whose error is told
\* afterwards.  A task that had ended is forgotten with its result.
StartRathole ==
    /\ at = "start_rathole"
    /\ IF IsRunning \/ config = NoConfig \/ (config # NoConfig /\ ~config.services)
       THEN UNCHANGED <<inner, task>>
       ELSE \E t \in Tasks :
              /\ task[t].at = "free"
              /\ inner' = t
              /\ task' = [u \in Tasks |->
                    IF u = t THEN [at |-> "starting", config |-> config, asked |-> FALSE]
                    ELSE IF u = inner THEN [at |-> "free", config |-> NoConfig, asked |-> FALSE]
                    ELSE task[u]]
    /\ lastError' = job.failed
    /\ Goto("idle", job)
    /\ UNCHANGED <<config, proxyVars, thread, historyVars, jobs, faults>>

----------------------------------------------------------------------------
(***************************************************************************)
(* The proxy: HttpProxyRunner::apply, ensure_running, start and stop.      *)
(***************************************************************************)
\* The proxy is done with.
Over == IF job.kind = "start" THEN "start_rathole" ELSE "idle"

\* An error skips what is left of the proxy's steps.  A renewal only answers
\* with it.
ProxyFails ==
    /\ Goto(Over, [job EXCEPT !.thread = NoThread, !.failed = TRUE])
    /\ lastError' = (lastError \/ job.kind = "stop")
    /\ renewal' = IF job.kind = "renew" THEN "failed" ELSE renewal

\* What is to run and, with Let's Encrypt, that port 80 listens while the
\* certificate is ordered.
ApplyProxy ==
    /\ at = "proxy"
    /\ routes' = Routed(config)
    /\ LET http == Http(config)
           first == http = "acme" /\ running = NoThread
       IN  Goto(CASE http = "off" -> "stop_proxy"
                  [] http = "plain" \/ first -> "ensure"
                  [] OTHER -> "certificate",
                [job EXCEPT !.runtime = IF first THEN "plain" ELSE http, !.first = first])
    /\ UNCHANGED <<runnerVars, running, task, thread, historyVars, jobs, faults>>

\* The certificate is stored or ordered: there may be none to serve yet, and a
\* renewed one has to be loaded.
HaveCertificate ==
    /\ at = "certificate"
    /\ \E runtime \in {"plain", "custom", "acme"}, renewed \in BOOLEAN :
          /\ Http(config) = "custom" => runtime = "custom" /\ ~renewed
          /\ Http(config) = "acme" => runtime \in {"plain", "acme"} /\ (renewed => runtime = "acme")
          /\ IF renewed /\ running # NoThread
             THEN Goto("stop_proxy", [job EXCEPT !.runtime = runtime, !.first = FALSE, !.next = "ensure"])
             ELSE Goto("ensure", [job EXCEPT !.runtime = runtime, !.first = FALSE])
    /\ UNCHANGED <<runnerVars, proxyVars, task, thread, historyVars, jobs, faults>>

CertificateFails ==
    /\ at = "certificate"
    /\ ProxyFails
    /\ UNCHANGED <<config, inner, proxyVars, task, thread, wanted, abandoned, jobs, faults>>

Ensured == IF job.first THEN "certificate" ELSE Over

\* A thread that has died is reaped first and started again.
EnsureRunning ==
    /\ at = "ensure"
    /\ LET died == running # NoThread /\ ~ThreadAlive(running)
       IN  /\ IF died THEN running' = NoThread /\ FreeThread(running)
              ELSE UNCHANGED <<running, thread>>
           /\ IF ~died /\ running # NoThread /\ thread[running].runtime = job.runtime
              THEN Goto(Ensured, job) ELSE Goto("stop_proxy", [job EXCEPT !.next = "bind"])
    /\ UNCHANGED <<runnerVars, routes, task, historyVars, jobs, faults>>

AfterStop == IF job.next = "over" THEN Over ELSE job.next

\* notify_waiters is heard by a thread that waits for it, by no other.
StopProxy ==
    /\ at = "stop_proxy"
    /\ running' = NoThread
    /\ IF running = NoThread
       THEN Goto(AfterStop, job) /\ UNCHANGED thread
       ELSE /\ thread' = [thread EXCEPT ![running].asked = (thread[running].at = "serving")]
            /\ Goto("await_thread", [job EXCEPT !.thread = running])
    /\ UNCHANGED <<runnerVars, routes, task, historyVars, jobs, faults>>

ProxyStopped ==
    /\ at = "await_thread"
    /\ ~ThreadAlive(job.thread)
    /\ FreeThread(job.thread)
    /\ IF thread[job.thread].at = "failed" THEN ProxyFails
       ELSE /\ Goto(AfterStop, [job EXCEPT !.thread = NoThread])
            /\ UNCHANGED <<lastError, renewal>>
    /\ UNCHANGED <<config, inner, proxyVars, task, wanted, abandoned, jobs, faults>>

\* Mutation: the thread is waited for as long as it takes.
ProxyStopWaits == ProxyStopped

\* The time-out of ten seconds: always for a thread that did not hear.
ProxyStopTimesOut ==
    /\ at = "await_thread"
    /\ ThreadAlive(job.thread)
    /\ IF thread[job.thread].asked THEN Fault ELSE UNCHANGED faults
    /\ ProxyFails
    /\ abandoned' = TRUE
    /\ UNCHANGED <<config, inner, proxyVars, task, thread, wanted, jobs>>

Ports(runtime) == IF runtime = "plain" THEN {"80"} ELSE {"80", "443"}

Held(runtime, except) ==
    \E h \in Threads \ {except} :
        thread[h].at = "serving" /\ Ports(thread[h].runtime) \cap Ports(runtime) # {}

\* validate_runtime_bind_available, then the thread.
StartProxy ==
    /\ at = "bind"
    /\ ~Held(job.runtime, NoThread)
    /\ \E h \in Threads :
          /\ thread[h].at = "free"
          /\ thread' = [thread EXCEPT ![h] = [at |-> "starting", runtime |-> job.runtime, asked |-> FALSE]]
          /\ Goto("grace", [job EXCEPT !.thread = h])
    /\ UNCHANGED <<runnerVars, proxyVars, task, historyVars, jobs, faults>>

\* A thread that was given up has the port, or another program.
BindFails ==
    /\ at = "bind"
    /\ IF Held(job.runtime, NoThread) THEN UNCHANGED faults ELSE Fault
    /\ ProxyFails
    /\ UNCHANGED <<config, inner, proxyVars, task, thread, wanted, abandoned, jobs>>

\* START_GRACE is over.  The thread may be slow and not yet listen.
ProxyStarted ==
    /\ at = "grace"
    /\ ThreadAlive(job.thread)
    /\ IF thread[job.thread].at = "starting" THEN Fault ELSE UNCHANGED faults
    /\ running' = job.thread
    /\ Goto(Ensured, [job EXCEPT !.thread = NoThread])
    /\ UNCHANGED <<runnerVars, routes, task, thread, historyVars, jobs>>

ProxyExitsEarly ==
    /\ at = "grace"
    /\ ~ThreadAlive(job.thread)
    /\ FreeThread(job.thread)
    /\ ProxyFails
    /\ UNCHANGED <<config, inner, proxyVars, task, wanted, abandoned, jobs, faults>>

----------------------------------------------------------------------------
(***************************************************************************)
(* Runner::refresh, which every status tick does between two jobs.         *)
(***************************************************************************)
ProxyUnreaped == running # NoThread /\ ~ThreadAlive(running)
TaskUnreaped == inner # NoTask /\ ~TaskAlive(inner)

\* Mutation: the proxy's error is not kept.
RefreshRatholeOnly ==
    /\ Idle
    /\ ProxyUnreaped \/ TaskUnreaped
    /\ lastError' = (lastError \/ (TaskUnreaped /\ task[inner].at = "failed"))
    /\ IF ProxyUnreaped THEN running' = NoThread /\ FreeThread(running)
       ELSE UNCHANGED <<running, thread>>
    /\ IF TaskUnreaped THEN inner' = NoTask /\ FreeTask(inner)
       ELSE UNCHANGED <<inner, task>>
    /\ UNCHANGED <<config, routes, at, job, historyVars, jobs, faults>>

Refresh ==
    /\ Idle
    /\ ProxyUnreaped \/ TaskUnreaped
    /\ lastError' = (lastError \/ (ProxyUnreaped /\ thread[running].at = "failed")
                               \/ (TaskUnreaped /\ task[inner].at = "failed"))
    /\ IF ProxyUnreaped THEN running' = NoThread /\ FreeThread(running)
       ELSE UNCHANGED <<running, thread>>
    /\ IF TaskUnreaped THEN inner' = NoTask /\ FreeTask(inner)
       ELSE UNCHANGED <<inner, task>>
    /\ UNCHANGED <<config, routes, at, job, historyVars, jobs, faults>>

----------------------------------------------------------------------------
(***************************************************************************)
(* Tasks and threads.                                                      *)
(***************************************************************************)
\* What a task leaves behind if anybody has its handle.
TaskEnds(t, how) ==
    IF t \in {inner, job.task} THEN task' = [task EXCEPT ![t].at = how] ELSE FreeTask(t)

ThreadEnds(h, how) ==
    IF h \in {running, job.thread} THEN thread' = [thread EXCEPT ![h].at = how] ELSE FreeThread(h)

ControlPortTaken(t) ==
    \E u \in Tasks \ {t} : task[u].at = "serving" /\ task[u].config.bind = task[t].config.bind

RatholeListens(t) ==
    /\ task[t].at = "starting"
    /\ IF ControlPortTaken(t) THEN TaskEnds(t, "failed")
       ELSE task' = [task EXCEPT ![t].at = "serving"]
    /\ UNCHANGED faults

RatholeEnds(t) ==
    /\ TaskAlive(t) /\ task[t].asked
    /\ TaskEnds(t, "ended")
    /\ UNCHANGED faults

RatholeDies(t) == TaskAlive(t) /\ Fault /\ TaskEnds(t, "failed")

RatholeMoves(t) ==
    /\ RatholeListens(t) \/ RatholeEnds(t) \/ RatholeDies(t)
    /\ UNCHANGED <<runnerVars, proxyVars, thread, at, job, historyVars, jobs>>

ProxyListens(h) ==
    /\ thread[h].at = "starting"
    /\ IF Held(thread[h].runtime, h) THEN ThreadEnds(h, "failed")
       ELSE thread' = [thread EXCEPT ![h].at = "serving"]
    /\ UNCHANGED faults

ProxyEnds(h) ==
    /\ thread[h].at = "serving" /\ thread[h].asked
    /\ ThreadEnds(h, "ended")
    /\ UNCHANGED faults

ProxyDies(h) == ThreadAlive(h) /\ Fault /\ ThreadEnds(h, "failed")

ProxyMoves(h) ==
    /\ ProxyListens(h) \/ ProxyEnds(h) \/ ProxyDies(h)
    /\ UNCHANGED <<runnerVars, proxyVars, task, at, job, historyVars, jobs>>

----------------------------------------------------------------------------
Message == ApplyConfig \/ Start \/ Stop \/ Restart \/ RenewCertificate

RatholeStep == StopRathole \/ RatholeStopped \/ RatholeStopTimesOut \/ StartRathole

ProxyStep ==
    \/ ApplyProxy \/ HaveCertificate \/ CertificateFails \/ EnsureRunning
    \/ StopProxy \/ ProxyStopped \/ ProxyStopTimesOut
    \/ StartProxy \/ BindFails \/ ProxyStarted \/ ProxyExitsEarly

Next ==
    \/ Message \/ RatholeStep \/ ProxyStep \/ Refresh
    \/ \E t \in Tasks : RatholeMoves(t)
    \/ \E h \in Threads : ProxyMoves(h)

Spec == Init /\ [][Next]_vars

\* A job that can go on does; a task that is asked ends, a thread gets to
\* listen and, if it was asked, ends.
FairSpec ==
    /\ Spec
    /\ WF_vars(RatholeStep \/ ProxyStep)
    /\ \A t \in Tasks : WF_vars(RatholeMoves(t))
    /\ \A h \in Threads : WF_vars(ProxyMoves(h))

----------------------------------------------------------------------------
(***************************************************************************)
(* Properties                                                              *)
(***************************************************************************)
Steps == {"idle", "stop_rathole", "await_task", "proxy", "certificate", "ensure", "stop_proxy",
          "await_thread", "bind", "grace", "start_rathole"}

Phases == {"free", "starting", "serving", "ended", "failed"}

Kinds == {"off", "plain", "custom", "acme"}

Task == [at : Phases, config : Config \cup {NoConfig}, asked : BOOLEAN]

Thread == [at : Phases, runtime : Kinds, asked : BOOLEAN]

Job == [kind : {"none", "start", "stop", "renew"}, task : Tasks \cup {NoTask},
        thread : Threads \cup {NoThread}, runtime : Kinds,
        first : BOOLEAN, next : {"over", "bind", "ensure"}, failed : BOOLEAN]

\* Every variable keeps its type.
TypeOK ==
    /\ config \in Config \cup {NoConfig} /\ routes \in Config \cup {NoConfig}
    /\ inner \in Tasks \cup {NoTask} /\ running \in Threads \cup {NoThread}
    /\ lastError \in BOOLEAN /\ abandoned \in BOOLEAN
    /\ task \in [Tasks -> Task] /\ thread \in [Threads -> Thread]
    /\ at \in Steps /\ job \in Job
    /\ wanted \in {"run", "stop"} /\ renewal \in {"none", "done", "failed"}
    /\ jobs \in Nat /\ faults \in Nat

\* What the proxy may run for a configuration: without a certificate to serve,
\* port 80 only.
Runtimes(c) == IF Http(c) = "acme" THEN {"plain", "acme"} ELSE {Http(c)}

(***************************************************************************)
(* The last error is "cleared once everything comes up cleanly"            *)
(* (runner.rs:300): without one, a node that was started runs rathole and  *)
(* the proxy as it is configured, or the next tick finds out.  The         *)
(* exception is a proxy lost in a renewal that failed.                     *)
(***************************************************************************)
NoErrorMeansServing ==
    Idle /\ wanted = "run" /\ ~lastError /\ ~ProxyUnreaped /\ ~TaskUnreaped =>
        /\ config # NoConfig =>
              (config.services => inner # NoTask /\ task[inner].config = config)
        /\ renewal # "failed" =>
              IF Http(config) = "off" THEN running = NoThread
              ELSE /\ running # NoThread
                   /\ thread[running].runtime \in Runtimes(config)
                   /\ routes = config

(***************************************************************************)
(* "Stop everything" (runner.rs:241): a node that was stopped runs         *)
(* nothing, whatever crossed the stop and however the proxy answered it.   *)
(* The exceptions are what a stop had to give up after its time-out, and a *)
(* proxy that a later renewal started.                                     *)
(***************************************************************************)
StoppedIsSilent ==
    Idle /\ wanted = "stop" /\ ~abandoned =>
        /\ \A t \in Tasks : ~TaskAlive(t)
        /\ renewal = "none" => \A h \in Threads : ~ThreadAlive(h)

(***************************************************************************)
(* Every message is answered: nothing the job waits for, neither a server  *)
(* that does not stop nor a thread that did not hear nor a port that is    *)
(* taken, keeps the runner's mutex for ever.                               *)
(***************************************************************************)
EveryJobEnds == []<>Idle
=============================================================================
