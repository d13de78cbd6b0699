-------------------------- MODULE NodeRunnerProofs --------------------------
(***************************************************************************)
(* Proofs about NodeRunner, for any control addresses and any number of    *)
(* tasks and threads, without the bounds.                                  *)
(*                                                                         *)
(* What an idle runner promises is prepared step by step: the              *)
(* strengthening says of each step of a job what the steps before it have  *)
(* done, and of each task and thread who still has its handle.             *)
(***************************************************************************)
EXTENDS NodeRunner, TLAPS

ProxySteps == {"certificate", "ensure", "stop_proxy", "await_thread", "bind", "grace"}

\* A job has what its step needs, and remembers why it runs.
JobOK ==
    /\ Idle => job = NoJob
    /\ ~Idle => job.kind # "none"
    /\ at = "await_task" <=> job.task # NoTask
    /\ at \in {"await_thread", "grace"} <=> job.thread # NoThread
    /\ job.kind = "start" => wanted = "run" /\ renewal = "none"
    /\ job.kind = "stop" =>
          /\ at \in {"stop_rathole", "await_task", "stop_proxy", "await_thread"}
          /\ job.next = "over" /\ wanted = "stop" /\ renewal = "none"
    /\ job.kind = "renew" =>
          /\ at \in ProxySteps \cup {"proxy"}
          /\ renewal = "done" /\ config # NoConfig
    /\ at \in {"stop_rathole", "await_task", "proxy"} => job.next = "over"
    /\ at = "await_task" => inner = NoTask
    /\ at \in {"await_thread", "bind", "grace"} => running = NoThread

\* Nothing lives that nobody can stop, unless a stop timed out.
NothingIsLost ==
    ~abandoned =>
        /\ \A t \in Tasks : task[t].at # "free" => t \in {inner, job.task}
        /\ \A h \in Threads : thread[h].at # "free" => h \in {running, job.thread}

\* The runner's own task and thread are not asked to end: if they end, they
\* have failed.
OwnAreNotAsked ==
    /\ inner # NoTask => ~task[inner].asked /\ task[inner].at \in {"starting", "serving", "failed"}
    /\ running # NoThread =>
          ~thread[running].asked /\ thread[running].at \in {"starting", "serving", "failed"}
    /\ at = "grace" => ~thread[job.thread].asked /\ thread[job.thread].at \in {"starting", "serving", "failed"}

\* What a stop has stopped by the step it has come to.
Stopped ==
    wanted = "stop" =>
        /\ at # "stop_rathole" => inner = NoTask
        /\ renewal = "none" =>
              at \in {"stop_rathole", "await_task", "stop_proxy"} \/ running = NoThread

ProxyAs(c) ==
    IF Http(c) = "off" THEN running = NoThread
    ELSE /\ running # NoThread
         /\ thread[running].runtime \in Runtimes(c)
         /\ routes = c

\* What a start has prepared by the step it has come to.
Prepared ==
    /\ inner # NoTask /\ at # "stop_rathole" => task[inner].config = config
    /\ at \in ProxySteps /\ job.kind \in {"start", "renew"} =>
          /\ routes = Routed(config)
          /\ Http(config) = "off" <=> (at \in {"stop_proxy", "await_thread"} /\ job.next = "over")
          /\ at # "certificate" /\ Http(config) # "off" => job.runtime \in Runtimes(config)
          /\ job.first => Http(config) = "acme"
          /\ at = "certificate" => Http(config) \in {"custom", "acme"}
          /\ at = "grace" => thread[job.thread].runtime = job.runtime
    /\ at = "start_rathole" => job.kind = "start" /\ (job.failed \/ ProxyAs(config))

\* A start without an error has started everything.
Started ==
    /\ wanted = "run" /\ ~lastError /\ job.kind \in {"none", "renew"} /\ config # NoConfig =>
          (config.services => inner # NoTask)
    /\ wanted = "run" /\ ~lastError /\ Idle /\ renewal # "failed" => ProxyAs(config)

IInv == TypeOK /\ JobOK /\ NothingIsLost /\ OwnAreNotAsked /\ Stopped /\ Prepared /\ Started

USE NoneAssumption, NoConfigAssumption, ProxiesAssumption

(***************************************************************************)
(* The tables and the job.                                                 *)
(***************************************************************************)
LEMMA TaskTypes ==
  ASSUME task \in [Tasks -> Task], NEW t \in Tasks
  PROVE  /\ FreeTask(t) => task' \in [Tasks -> Task]
         /\ \A p \in Phases : TaskEnds(t, p) => task' \in [Tasks -> Task]
         /\ task' = [task EXCEPT ![t].at = "serving"] => task' \in [Tasks -> Task]
<1>1. /\ [at |-> "free", config |-> NoConfig, asked |-> FALSE] \in Task
      /\ \A p \in Phases : [task[t] EXCEPT !.at = p] \in Task
  BY DEF Task, Phases
<1>2. FreeTask(t) => task' \in [Tasks -> Task]
  BY <1>1 DEF FreeTask
<1>3. \A p \in Phases : task' = [task EXCEPT ![t].at = p] => task' \in [Tasks -> Task]
  BY <1>1
<1> QED
  BY <1>2, <1>3 DEF TaskEnds, Phases

LEMMA ThreadTypes ==
  ASSUME thread \in [Threads -> Thread], NEW h \in Threads
  PROVE  /\ FreeThread(h) => thread' \in [Threads -> Thread]
         /\ \A p \in Phases : ThreadEnds(h, p) => thread' \in [Threads -> Thread]
         /\ thread' = [thread EXCEPT ![h].at = "serving"] => thread' \in [Threads -> Thread]
         /\ \A b \in BOOLEAN : thread' = [thread EXCEPT ![h].asked = b] => thread' \in [Threads -> Thread]
<1>1. /\ [at |-> "free", runtime |-> "off", asked |-> FALSE] \in Thread
      /\ \A p \in Phases : [thread[h] EXCEPT !.at = p] \in Thread
      /\ \A b \in BOOLEAN : [thread[h] EXCEPT !.asked = b] \in Thread
  BY DEF Thread, Phases, Kinds
<1>2. FreeThread(h) => thread' \in [Threads -> Thread]
  BY <1>1 DEF FreeThread
<1>3. \A p \in Phases : thread' = [thread EXCEPT ![h].at = p] => thread' \in [Threads -> Thread]
  BY <1>1
<1>4. \A b \in BOOLEAN : thread' = [thread EXCEPT ![h].asked = b] => thread' \in [Threads -> Thread]
  BY <1>1
<1> QED
  BY <1>2, <1>3, <1>4 DEF ThreadEnds, Phases

LEMMA JobTypes ==
  ASSUME NEW step \in Steps, NEW j \in Job, Goto(step, j)
  PROVE  at' \in Steps /\ job' \in Job
<1>1. NoJob \in Job
  BY DEF NoJob, Job, Kinds
<1> QED
  BY <1>1 DEF Goto

LEMMA HttpKind ==
  ASSUME NEW c \in Config \cup {NoConfig}
  PROVE  Http(c) \in Kinds
BY DEF Http, Config, Kinds

(***************************************************************************)
(* Every step keeps the invariant.                                         *)
(***************************************************************************)
LEMMA ApplyConfigKeeps ==
  ASSUME IInv, ApplyConfig
  PROVE  IInv'
<1> USE DEF IInv, ApplyConfig, runnerVars, proxyVars, historyVars
<1>1. TypeOK'
  <2>1. PICK c \in Config, kind \in {"start", "stop"} :
          config' = c /\ Begin(kind, "stop_rathole")
    OBVIOUS
  <2>2. [NoJob EXCEPT !.kind = kind] \in Job
    BY DEF NoJob, Job, Kinds
  <2>3. at' \in Steps /\ job' \in Job
    BY <2>1, <2>2, JobTypes DEF Begin, Steps
  <2>4. wanted' \in {"run", "stop"} /\ lastError' = FALSE /\ renewal' = "none"
    OBVIOUS
  <2>5. jobs' \in Nat /\ UNCHANGED <<inner, running, routes, task, thread, abandoned, faults>>
    BY <2>1 DEF Begin, TypeOK
  <2> QED
    BY <2>1, <2>3, <2>4, <2>5 DEF TypeOK
<1>2. JobOK'
  BY DEF Begin, Goto, JobOK, Idle, NoJob
<1>3. NothingIsLost'
  BY DEF Begin, Goto, NothingIsLost, JobOK, TypeOK, Job
<1>4. OwnAreNotAsked'
  BY DEF Begin, Goto, OwnAreNotAsked
<1>5. Stopped'
  BY DEF Begin, Goto, Stopped
<1>6. Prepared'
  BY DEF Begin, Goto, Prepared, ProxySteps
<1>7. Started'
  BY DEF Begin, Goto, Started, JobOK, TypeOK, Job, Idle
<1> QED
  BY <1>1, <1>2, <1>3, <1>4, <1>5, <1>6, <1>7

LEMMA StartKeeps ==
  ASSUME IInv, Start
  PROVE  IInv'
<1> USE DEF IInv, Start, runnerVars, proxyVars, historyVars
<1>1. TypeOK'
  <2>1. [NoJob EXCEPT !.kind = "start"] \in Job
    BY DEF NoJob, Job, Kinds
  <2>2. at' \in Steps /\ job' \in Job
    BY <2>1, JobTypes DEF Begin, Steps
  <2> QED
    BY <2>2 DEF Begin, TypeOK
<1>2. JobOK'
  BY DEF Begin, Goto, JobOK, Idle, NoJob
<1>3. NothingIsLost'
  BY DEF Begin, Goto, NothingIsLost, JobOK
<1>4. OwnAreNotAsked'
  BY DEF Begin, Goto, OwnAreNotAsked
<1>5. Stopped'
  BY DEF Stopped
<1>6. Prepared'
  BY DEF Begin, Goto, Prepared, ProxySteps, Idle
<1>7. Started'
  BY DEF Begin, Goto, Started, Idle
<1> QED
  BY <1>1, <1>2, <1>3, <1>4, <1>5, <1>6, <1>7

LEMMA StopKeeps ==
  ASSUME IInv, Stop
  PROVE  IInv'
<1> USE DEF IInv, Stop, runnerVars, proxyVars, historyVars
<1>1. TypeOK'
  <2>1. [NoJob EXCEPT !.kind = "stop"] \in Job
    BY DEF NoJob, Job, Kinds
  <2>2. at' \in Steps /\ job' \in Job
    BY <2>1, JobTypes DEF Begin, Steps
  <2> QED
    BY <2>2 DEF Begin, TypeOK
<1>2. JobOK'
  BY DEF Begin, Goto, JobOK, Idle, NoJob
<1>3. NothingIsLost'
  BY DEF Begin, Goto, NothingIsLost, JobOK
<1>4. OwnAreNotAsked'
  BY DEF Begin, Goto, OwnAreNotAsked
<1>5. Stopped'
  BY DEF Begin, Goto, Stopped
<1>6. Prepared'
  BY DEF Begin, Goto, Prepared
<1>7. Started'
  BY DEF Started
<1> QED
  BY <1>1, <1>2, <1>3, <1>4, <1>5, <1>6, <1>7

LEMMA RestartKeeps ==
  ASSUME IInv, Restart
  PROVE  IInv'
<1> USE DEF IInv, Restart, runnerVars, proxyVars, historyVars
<1>1. TypeOK'
  <2>1. [NoJob EXCEPT !.kind = "start"] \in Job
    BY DEF NoJob, Job, Kinds
  <2>2. at' \in Steps /\ job' \in Job
    BY <2>1, JobTypes DEF Begin, Steps
  <2> QED
    BY <2>2 DEF Begin, TypeOK
<1>2. JobOK'
  BY DEF Begin, Goto, JobOK, Idle, NoJob
<1>3. NothingIsLost'
  BY DEF Begin, Goto, NothingIsLost, JobOK
<1>4. OwnAreNotAsked'
  BY DEF Begin, Goto, OwnAreNotAsked
<1>5. Stopped'
  BY DEF Stopped
<1>6. Prepared'
  BY DEF Begin, Goto, Prepared, ProxySteps
<1>7. Started'
  BY DEF Begin, Goto, Started, Idle
<1> QED
  BY <1>1, <1>2, <1>3, <1>4, <1>5, <1>6, <1>7

LEMMA RenewCertificateKeeps ==
  ASSUME IInv, RenewCertificate
  PROVE  IInv'
<1> USE DEF IInv, RenewCertificate, runnerVars, proxyVars, historyVars
<1>1. TypeOK'
  <2>1. [NoJob EXCEPT !.kind = "renew"] \in Job
    BY DEF NoJob, Job, Kinds
  <2>2. at' \in Steps /\ job' \in Job
    BY <2>1, JobTypes DEF Begin, Steps
  <2> QED
    BY <2>2 DEF Begin, TypeOK
<1>2. JobOK'
  BY DEF Begin, Goto, JobOK, Idle, NoJob, Http
<1>3. NothingIsLost'
  BY DEF Begin, Goto, NothingIsLost, JobOK
<1>4. OwnAreNotAsked'
  BY DEF Begin, Goto, OwnAreNotAsked
<1>5. Stopped'
  BY DEF Begin, Stopped, Idle
<1>6. Prepared'
  BY DEF Begin, Goto, Prepared, ProxySteps, Idle
<1>7. Started'
  BY DEF Begin, Goto, Started, JobOK, Idle, NoJob
<1> QED
  BY <1>1, <1>2, <1>3, <1>4, <1>5, <1>6, <1>7

LEMMA StopRatholeKeeps ==
  ASSUME IInv, StopRathole
  PROVE  IInv'
<1> USE DEF IInv, StopRathole, runnerVars, proxyVars, historyVars
<1>1. TypeOK'
  <2>1. \E step \in Steps, j \in Job : Goto(step, j)
    BY DEF AfterRathole, TypeOK, Steps, Job
  <2>2. at' \in Steps /\ job' \in Job
    BY <2>1, JobTypes
  <2>3. task' \in [Tasks -> Task]
    <3>1. inner # NoTask => inner \in Tasks /\ task[inner] \in Task
      BY DEF TypeOK
    <3>2. \A r \in Task : [r EXCEPT !.asked = TRUE] \in Task
      BY DEF Task
    <3> QED
      BY <3>1, <3>2 DEF TypeOK
  <2> QED
    BY <2>2, <2>3 DEF TypeOK
<1>2. JobOK'
  BY DEF Goto, AfterRathole, JobOK, TypeOK, Job, Idle, ProxySteps
<1>3. NothingIsLost'
  BY DEF Goto, NothingIsLost, JobOK, TypeOK, Job
<1>4. OwnAreNotAsked'
  BY DEF Goto, AfterRathole, OwnAreNotAsked
<1>5. Stopped'
  BY DEF Goto, AfterRathole, Stopped, JobOK, TypeOK, Job, Idle
<1>6. Prepared'
  BY DEF Goto, AfterRathole, Prepared, ProxySteps
<1>7. Started'
  BY DEF Goto, AfterRathole, Started, ProxySteps, JobOK, TypeOK, Job, Idle
<1> QED
  BY <1>1, <1>2, <1>3, <1>4, <1>5, <1>6, <1>7

LEMMA RatholeStoppedKeeps ==
  ASSUME IInv, RatholeStopped
  PROVE  IInv'
<1> USE DEF IInv, RatholeStopped, runnerVars, proxyVars, historyVars
<1>1. TypeOK'
  BY DEF Goto, AfterRathole, FreeTask, TypeOK, JobOK, Phases, Steps, NoJob, Job, Task
<1>2. JobOK'
  BY DEF Goto, AfterRathole, JobOK, Idle
<1>3. NothingIsLost'
  BY DEF Goto, AfterRathole, FreeTask, NothingIsLost, TypeOK
<1>4. OwnAreNotAsked'
  BY DEF Goto, AfterRathole, OwnAreNotAsked, JobOK
<1>5. Stopped'
  BY DEF Goto, AfterRathole, Stopped, JobOK, TypeOK, Job, Idle
<1>6. Prepared'
  BY DEF Goto, AfterRathole, Prepared, ProxySteps, JobOK
<1>7. Started'
  BY DEF Goto, AfterRathole, Started, ProxySteps, JobOK, Idle
<1> QED
  BY <1>1, <1>2, <1>3, <1>4, <1>5, <1>6, <1>7

LEMMA RatholeStopTimesOutKeeps ==
  ASSUME IInv, RatholeStopTimesOut
  PROVE  IInv'
<1> USE DEF IInv, RatholeStopTimesOut, runnerVars, proxyVars, historyVars
<1>1. TypeOK'
  BY DEF Goto, AfterRathole, TypeOK, Fault, Steps, Job
<1>2. JobOK'
  BY DEF Goto, AfterRathole, JobOK, Idle
<1>3. NothingIsLost'
  BY DEF NothingIsLost
<1>4. OwnAreNotAsked'
  BY DEF Goto, AfterRathole, OwnAreNotAsked
<1>5. Stopped'
  BY DEF Goto, AfterRathole, Stopped, JobOK, TypeOK, Job, Idle
<1>6. Prepared'
  BY DEF Goto, AfterRathole, Prepared, ProxySteps
<1>7. Started'
  BY DEF Started
<1> QED
  BY <1>1, <1>2, <1>3, <1>4, <1>5, <1>6, <1>7

LEMMA StartRatholeKeeps ==
  ASSUME IInv, StartRathole
  PROVE  IInv'
<1> USE DEF IInv, StartRathole, runnerVars, proxyVars, historyVars
<1>1. TypeOK'
  <2>1. at' \in Steps /\ job' \in Job
    BY JobTypes DEF TypeOK, Steps
  <2>2. CASE UNCHANGED <<inner, task>>
    BY <2>1, <2>2 DEF TypeOK, Job
  <2>3. CASE \E t \in Tasks :
               /\ inner' = t
               /\ task' = [u \in Tasks |->
                    IF u = t THEN [at |-> "starting", config |-> config, asked |-> FALSE]
                    ELSE IF u = inner THEN [at |-> "free", config |-> NoConfig, asked |-> FALSE]
                    ELSE task[u]]
    <3>1. /\ [at |-> "starting", config |-> config, asked |-> FALSE] \in Task
          /\ [at |-> "free", config |-> NoConfig, asked |-> FALSE] \in Task
      BY DEF TypeOK, Task, Phases
    <3>2. task' \in [Tasks -> Task] /\ inner' \in Tasks
      BY <2>3, <3>1 DEF TypeOK
    <3> QED
      BY <2>1, <3>2 DEF TypeOK, Job
  <2> QED
    BY <2>2, <2>3
<1>2. JobOK'
  BY DEF Goto, JobOK, Idle, NoJob
<1>3. NothingIsLost'
  BY DEF NothingIsLost, JobOK
<1>4. OwnAreNotAsked'
  BY DEF Goto, OwnAreNotAsked
<1>5. Stopped'
  BY DEF Stopped, Prepared, JobOK
<1>6. Prepared'
  BY DEF Goto, Prepared, ProxySteps
<1>7. Started'
  BY DEF IsRunning, Started, Prepared, ProxyAs
<1> QED
  BY <1>1, <1>2, <1>3, <1>4, <1>5, <1>6, <1>7

LEMMA ApplyProxyKeeps ==
  ASSUME IInv, ApplyProxy
  PROVE  IInv'
<1> USE DEF IInv, ApplyProxy, runnerVars, proxyVars, historyVars
<1>1. TypeOK'
  <2> DEFINE first == Http(config) = "acme" /\ running = NoThread
             j == [job EXCEPT !.runtime = IF first THEN "plain" ELSE Http(config), !.first = first]
  <2>1. \E step \in Steps : Goto(step, j)
    BY DEF Steps
  <2>2. j \in Job
    BY HttpKind DEF TypeOK, Job, Kinds
  <2> HIDE DEF j
  <2>3. at' \in Steps /\ job' \in Job
    BY <2>1, <2>2, JobTypes
  <2>4. routes' \in Config \cup {NoConfig}
    BY DEF TypeOK, Routed
  <2> QED
    BY <2>3, <2>4 DEF TypeOK
<1>2. JobOK'
  BY DEF Goto, JobOK, Idle, ProxySteps
<1>3. NothingIsLost'
  BY DEF Goto, NothingIsLost
<1>4. OwnAreNotAsked'
  BY DEF Goto, OwnAreNotAsked
<1>5. Stopped'
  BY DEF Stopped
<1>6. Prepared'
  <2> DEFINE first == Http(config) = "acme" /\ running = NoThread
             j == [job EXCEPT !.runtime = IF first THEN "plain" ELSE Http(config), !.first = first]
  <2>1. /\ j.kind = job.kind /\ j.next = "over" /\ j.first = first
        /\ j.runtime = IF first THEN "plain" ELSE Http(config)
    BY DEF JobOK, TypeOK, Job
  <2>2. Http(config) \in Kinds /\ routes' = Routed(config)
    BY HttpKind DEF TypeOK
  <2>3. \/ Http(config) = "off" /\ Goto("stop_proxy", j)
        \/ (Http(config) = "plain" \/ first) /\ Goto("ensure", j)
        \/ Http(config) \in {"custom", "acme"} /\ ~first /\ Goto("certificate", j)
    BY <2>2 DEF Kinds
  <2> HIDE DEF j
  <2>4. (inner # NoTask => task[inner].config = config)'
    BY DEF Prepared
  <2>5. Http(config)' = Http(config) /\ Routed(config)' = Routed(config) /\ Runtimes(config)' = Runtimes(config)
    BY DEF Http, Routed, Runtimes
  <2>6. CASE Http(config) = "off" /\ Goto("stop_proxy", j)
    BY <2>1, <2>2, <2>4, <2>5, <2>6 DEF Prepared, Goto, ProxySteps
  <2>7. CASE (Http(config) = "plain" \/ first) /\ Goto("ensure", j)
    BY <2>1, <2>2, <2>4, <2>5, <2>7 DEF Prepared, Goto, ProxySteps, Runtimes
  <2>8. CASE Http(config) \in {"custom", "acme"} /\ ~first /\ Goto("certificate", j)
    BY <2>1, <2>2, <2>4, <2>5, <2>8 DEF Prepared, Goto, ProxySteps
  <2> QED
    BY <2>3, <2>6, <2>7, <2>8
<1>7. Started'
  BY DEF Goto, Started, Idle
<1> QED
  BY <1>1, <1>2, <1>3, <1>4, <1>5, <1>6, <1>7

LEMMA HaveCertificateKeeps ==
  ASSUME IInv, HaveCertificate
  PROVE  IInv'
<1> USE DEF IInv, HaveCertificate, runnerVars, proxyVars, historyVars
<1>1. TypeOK'
  <2>1. \E step \in Steps, j \in Job : Goto(step, j)
    BY DEF TypeOK, Steps, Job, Kinds
  <2>2. at' \in Steps /\ job' \in Job
    BY <2>1, JobTypes
  <2> QED
    BY <2>2 DEF TypeOK
<1>2. JobOK'
  <2>1. PICK step \in {"stop_proxy", "ensure"}, runtime \in Kinds, next \in {"ensure", job.next} :
          Goto(step, [job EXCEPT !.runtime = runtime, !.first = FALSE, !.next = next])
    BY DEF TypeOK, Job, Kinds
  <2>2. /\ at' = step /\ job'.kind = job.kind
        /\ job'.task = job.task /\ job'.thread = job.thread
    BY <2>1 DEF Goto, TypeOK, Job
  <2> QED
    BY <2>1, <2>2 DEF JobOK, Idle, ProxySteps
<1>3. NothingIsLost'
  BY DEF NothingIsLost, JobOK
<1>4. OwnAreNotAsked'
  BY DEF Goto, OwnAreNotAsked
<1>5. Stopped'
  BY DEF Stopped
<1>6. Prepared'
  <2>1. PICK runtime \in {"plain", "custom", "acme"}, j \in Job :
          /\ Http(config) = "custom" => runtime = "custom"
          /\ Http(config) = "acme" => runtime \in {"plain", "acme"}
          /\ j.kind = job.kind /\ j.runtime = runtime /\ ~j.first
          /\ \/ j.next = "ensure" /\ Goto("stop_proxy", j)
             \/ Goto("ensure", j)
    BY DEF TypeOK, Job, Kinds
  <2>2. /\ job.kind \in {"start", "renew"}
        /\ Http(config) \in {"custom", "acme"} /\ routes = Routed(config)
    BY DEF Prepared, JobOK, Idle, ProxySteps, TypeOK, Job
  <2>3. Http(config)' = Http(config) /\ Routed(config)' = Routed(config) /\ Runtimes(config)' = Runtimes(config)
    BY DEF Http, Routed, Runtimes
  <2>4. (inner # NoTask => task[inner].config = config)'
    BY DEF Prepared
  <2> QED
    BY <2>1, <2>2, <2>3, <2>4 DEF Prepared, Goto, ProxySteps, Runtimes
<1>7. Started'
  BY DEF Goto, Started, Prepared, ProxyAs, Runtimes, Http, Routed, ProxySteps, JobOK, TypeOK, Job, Task, Thread, Idle, NoJob, Steps, OwnAreNotAsked
<1> QED
  BY <1>1, <1>2, <1>3, <1>4, <1>5, <1>6, <1>7

LEMMA CertificateFailsKeeps ==
  ASSUME IInv, CertificateFails
  PROVE  IInv'
<1> USE DEF IInv, CertificateFails, runnerVars, proxyVars, historyVars
<1>1. TypeOK'
  BY DEF ProxyFails, Goto, Over, TypeOK, JobOK, Fault, Phases, Kinds, Steps, NoJob, Idle, Job, Task, Thread
<1>2. JobOK'
  BY DEF ProxyFails, Goto, Over, JobOK, Idle, NoJob
<1>3. NothingIsLost'
  BY DEF NothingIsLost, JobOK
<1>4. OwnAreNotAsked'
  BY DEF ProxyFails, Goto, Over, OwnAreNotAsked
<1>5. Stopped'
  BY DEF ProxyFails, Stopped
<1>6. Prepared'
  BY DEF ProxyFails, Goto, Over, Prepared, ProxySteps
<1>7. Started'
  BY DEF ProxyFails, Goto, Over, Started, JobOK, TypeOK, Job, Idle
<1> QED
  BY <1>1, <1>2, <1>3, <1>4, <1>5, <1>6, <1>7

LEMMA EnsureRunningKeeps ==
  ASSUME IInv, EnsureRunning
  PROVE  IInv'
<1> USE DEF IInv, EnsureRunning, runnerVars, proxyVars, historyVars
<1>1. TypeOK'
  <2>1. \E step \in Steps, j \in Job : Goto(step, j)
    BY DEF Ensured, Over, TypeOK, Steps, Job
  <2>2. at' \in Steps /\ job' \in Job
    BY <2>1, JobTypes
  <2>3. thread' \in [Threads -> Thread] /\ running' \in Threads \cup {NoThread}
    BY ThreadTypes DEF TypeOK
  <2> QED
    BY <2>2, <2>3 DEF TypeOK
<1>2. JobOK'
  BY DEF Goto, Ensured, Over, JobOK, TypeOK, Job, Idle, NoJob, ProxySteps
<1>3. NothingIsLost'
  BY DEF FreeThread, NothingIsLost, JobOK, TypeOK
<1>4. OwnAreNotAsked'
  BY DEF Goto, Ensured, Over, OwnAreNotAsked
<1>5. Stopped'
  BY DEF Stopped
<1>6. Prepared'
  BY DEF Goto, Ensured, Over, Prepared, ProxyAs, Routed, ProxySteps, TypeOK, Job
<1>7. Started'
  BY DEF Goto, Ensured, Over, Started, Prepared, ProxyAs, Routed, JobOK, TypeOK, Job, Idle
<1> QED
  BY <1>1, <1>2, <1>3, <1>4, <1>5, <1>6, <1>7

LEMMA StopProxyKeeps ==
  ASSUME IInv, StopProxy
  PROVE  IInv'
<1> USE DEF IInv, StopProxy, runnerVars, proxyVars, historyVars
<1>1. TypeOK'
  <2>1. \E step \in Steps, j \in Job : Goto(step, j)
    BY DEF AfterStop, Over, TypeOK, Steps, Job
  <2>2. at' \in Steps /\ job' \in Job
    BY <2>1, JobTypes
  <2>3. thread' \in [Threads -> Thread]
    BY ThreadTypes DEF TypeOK
  <2> QED
    BY <2>2, <2>3 DEF TypeOK
<1>2. JobOK'
  BY DEF Goto, AfterStop, Over, JobOK, TypeOK, Job, Idle, NoJob, ProxySteps
<1>3. NothingIsLost'
  BY DEF Goto, NothingIsLost, JobOK, TypeOK, Job
<1>4. OwnAreNotAsked'
  BY DEF Goto, AfterStop, Over, OwnAreNotAsked, TypeOK, Job
<1>5. Stopped'
  BY DEF Stopped
<1>6. Prepared'
  BY DEF Goto, AfterStop, Over, Prepared, ProxyAs, ProxySteps, TypeOK, Job
<1>7. Started'
  BY DEF Goto, AfterStop, Over, Started, Prepared, ProxyAs, JobOK, TypeOK, Job, Idle
<1> QED
  BY <1>1, <1>2, <1>3, <1>4, <1>5, <1>6, <1>7

LEMMA ProxyStoppedKeeps ==
  ASSUME IInv, ProxyStopped
  PROVE  IInv'
<1> USE DEF IInv, ProxyStopped, runnerVars, proxyVars, historyVars
<1>1. TypeOK'
  <2>1. [job EXCEPT !.thread = NoThread, !.failed = TRUE] \in Job /\ [job EXCEPT !.thread = NoThread] \in Job
    BY DEF TypeOK, Job
  <2>2. Over \in Steps /\ AfterStop \in Steps
    BY DEF Over, AfterStop, TypeOK, Steps, Job
  <2>3. at' \in Steps /\ job' \in Job
    BY <2>1, <2>2, JobTypes DEF ProxyFails
  <2>4. thread' \in [Threads -> Thread]
    BY ThreadTypes DEF TypeOK, JobOK, Job
  <2>5. lastError' \in BOOLEAN /\ renewal' \in {"none", "done", "failed"}
    BY DEF ProxyFails, TypeOK
  <2> QED
    BY <2>3, <2>4, <2>5 DEF TypeOK
<1>2. JobOK'
  <2>1. CASE ProxyFails
    BY <2>1 DEF ProxyFails, Goto, Over, JobOK, TypeOK, Job, Idle, NoJob, ProxySteps
  <2>2. CASE Goto(AfterStop, [job EXCEPT !.thread = NoThread]) /\ UNCHANGED <<lastError, renewal>>
    BY <2>2 DEF Goto, Over, AfterStop, JobOK, TypeOK, Job, Idle, NoJob, ProxySteps
  <2> QED
    BY <2>1, <2>2
<1>3. NothingIsLost'
  BY DEF FreeThread, NothingIsLost, JobOK, TypeOK
<1>4. OwnAreNotAsked'
  BY DEF ProxyFails, Goto, Over, AfterStop, OwnAreNotAsked, JobOK, TypeOK, Job
<1>5. Stopped'
  BY DEF ProxyFails, Stopped
<1>6. Prepared'
  BY DEF ProxyFails, Goto, Over, AfterStop, FreeThread, ThreadAlive, Prepared, ProxyAs, Runtimes, Http, Routed, ProxySteps, JobOK, TypeOK, Job, Task, Thread, Idle, NoJob, Steps
<1>7. Started'
  BY DEF ProxyFails, Goto, Over, AfterStop, FreeThread, ThreadAlive, Started, Prepared, ProxyAs, Runtimes, Http, Routed, ProxySteps, JobOK, TypeOK, Job, Task, Thread, Idle, NoJob, Steps, OwnAreNotAsked
<1> QED
  BY <1>1, <1>2, <1>3, <1>4, <1>5, <1>6, <1>7

LEMMA ProxyStopTimesOutKeeps ==
  ASSUME IInv, ProxyStopTimesOut
  PROVE  IInv'
<1> USE DEF IInv, ProxyStopTimesOut, runnerVars, proxyVars, historyVars
<1>1. TypeOK'
  <2>1. \E step \in Steps, j \in Job : Goto(step, j)
    BY DEF ProxyFails, Over, TypeOK, Steps, Job
  <2>2. at' \in Steps /\ job' \in Job
    BY <2>1, JobTypes
  <2>3. lastError' \in BOOLEAN /\ renewal' \in {"none", "done", "failed"} /\ faults' \in Nat
    BY DEF ProxyFails, Fault, TypeOK
  <2> QED
    BY <2>2, <2>3 DEF TypeOK
<1>2. JobOK'
  BY DEF ProxyFails, Goto, Over, JobOK, Idle, NoJob
<1>3. NothingIsLost'
  BY DEF NothingIsLost
<1>4. OwnAreNotAsked'
  BY DEF ProxyFails, Goto, Over, OwnAreNotAsked
<1>5. Stopped'
  BY DEF ProxyFails, Stopped
<1>6. Prepared'
  BY DEF ProxyFails, Goto, Over, Prepared, ProxySteps
<1>7. Started'
  BY DEF ProxyFails, Goto, Over, Started, JobOK, TypeOK, Job, Idle
<1> QED
  BY <1>1, <1>2, <1>3, <1>4, <1>5, <1>6, <1>7

LEMMA StartProxyKeeps ==
  ASSUME IInv, StartProxy
  PROVE  IInv'
<1> USE DEF IInv, StartProxy, runnerVars, proxyVars, historyVars
<1>1. TypeOK'
  BY DEF Goto, TypeOK, Phases, Steps, Job, Thread
<1>2. JobOK'
  BY DEF Goto, JobOK, Idle, ProxySteps
<1>3. NothingIsLost'
  BY DEF Goto, NothingIsLost, JobOK
<1>4. OwnAreNotAsked'
  BY DEF Goto, OwnAreNotAsked, TypeOK
<1>5. Stopped'
  BY DEF Stopped
<1>6. Prepared'
  BY DEF Goto, Prepared, ProxySteps, TypeOK
<1>7. Started'
  BY DEF Goto, Started, Idle
<1> QED
  BY <1>1, <1>2, <1>3, <1>4, <1>5, <1>6, <1>7

LEMMA BindFailsKeeps ==
  ASSUME IInv, BindFails
  PROVE  IInv'
<1> USE DEF IInv, BindFails, runnerVars, proxyVars, historyVars
<1>1. TypeOK'
  <2>1. \E step \in Steps, j \in Job : Goto(step, j)
    BY DEF ProxyFails, Over, TypeOK, Steps, Job
  <2>2. at' \in Steps /\ job' \in Job
    BY <2>1, JobTypes
  <2>3. lastError' \in BOOLEAN /\ renewal' \in {"none", "done", "failed"} /\ faults' \in Nat
    BY DEF ProxyFails, Fault, TypeOK
  <2> QED
    BY <2>2, <2>3 DEF TypeOK
<1>2. JobOK'
  BY DEF ProxyFails, Goto, Over, JobOK, Idle, NoJob
<1>3. NothingIsLost'
  BY DEF NothingIsLost, JobOK
<1>4. OwnAreNotAsked'
  BY DEF ProxyFails, Goto, Over, OwnAreNotAsked
<1>5. Stopped'
  BY DEF ProxyFails, Stopped
<1>6. Prepared'
  BY DEF ProxyFails, Goto, Over, Prepared, ProxySteps
<1>7. Started'
  BY DEF ProxyFails, Goto, Over, Started, JobOK, TypeOK, Job, Idle
<1> QED
  BY <1>1, <1>2, <1>3, <1>4, <1>5, <1>6, <1>7

LEMMA ProxyStartedKeeps ==
  ASSUME IInv, ProxyStarted
  PROVE  IInv'
<1> USE DEF IInv, ProxyStarted, runnerVars, proxyVars, historyVars
<1>1. TypeOK'
  BY DEF Goto, Ensured, Over, TypeOK, Fault, Kinds, Steps, NoJob, Job
<1>2. JobOK'
  BY DEF Goto, Ensured, Over, JobOK, Idle, NoJob, ProxySteps
<1>3. NothingIsLost'
  BY DEF NothingIsLost, JobOK
<1>4. OwnAreNotAsked'
  BY DEF Goto, Ensured, Over, OwnAreNotAsked
<1>5. Stopped'
  BY DEF Stopped, JobOK, TypeOK, Job, Idle
<1>6. Prepared'
  BY DEF Goto, Ensured, Over, Prepared, ProxyAs, Routed, ProxySteps, JobOK
<1>7. Started'
  BY DEF Goto, Ensured, Over, Started, Prepared, ProxyAs, Routed, JobOK, TypeOK, Job, Idle
<1> QED
  BY <1>1, <1>2, <1>3, <1>4, <1>5, <1>6, <1>7

LEMMA ProxyExitsEarlyKeeps ==
  ASSUME IInv, ProxyExitsEarly
  PROVE  IInv'
<1> USE DEF IInv, ProxyExitsEarly, runnerVars, proxyVars, historyVars
<1>1. TypeOK'
  BY DEF ProxyFails, Goto, Over, ThreadAlive, FreeThread, TypeOK, JobOK, Fault, Phases, Kinds, Steps, NoJob, Idle, Job, Task, Thread
<1>2. JobOK'
  BY DEF ProxyFails, Goto, Over, JobOK, Idle, NoJob
<1>3. NothingIsLost'
  BY DEF FreeThread, NothingIsLost, JobOK, TypeOK
<1>4. OwnAreNotAsked'
  BY DEF ProxyFails, Goto, Over, OwnAreNotAsked, JobOK
<1>5. Stopped'
  BY DEF ProxyFails, Stopped
<1>6. Prepared'
  BY DEF ProxyFails, Goto, Over, Prepared, ProxySteps
<1>7. Started'
  BY DEF ProxyFails, Goto, Over, Started, JobOK, TypeOK, Job, Idle
<1> QED
  BY <1>1, <1>2, <1>3, <1>4, <1>5, <1>6, <1>7

LEMMA RefreshKeeps ==
  ASSUME IInv, Refresh
  PROVE  IInv'
<1> USE DEF IInv, Refresh, runnerVars, proxyVars, historyVars
<1>1. TypeOK'
  <2>1. task' \in [Tasks -> Task] /\ inner' \in Tasks \cup {NoTask}
    BY TaskTypes DEF TaskUnreaped, TypeOK
  <2>2. thread' \in [Threads -> Thread] /\ running' \in Threads \cup {NoThread}
    BY ThreadTypes DEF ProxyUnreaped, TypeOK
  <2> QED
    BY <2>1, <2>2 DEF TypeOK
<1>2. JobOK'
  BY DEF JobOK, Idle
<1>3. NothingIsLost'
  BY DEF FreeThread, FreeTask, NothingIsLost, TypeOK
<1>4. OwnAreNotAsked'
  BY DEF ProxyUnreaped, OwnAreNotAsked, JobOK
<1>5. Stopped'
  BY DEF Stopped
<1>6. Prepared'
  BY DEF Prepared, Idle
<1>7. Started'
  BY DEF ProxyUnreaped, TaskUnreaped, ThreadAlive, TaskAlive, FreeThread, FreeTask, Started, Prepared, ProxyAs, Runtimes, Http, Routed, ProxySteps, JobOK, TypeOK, Job, Task, Thread, Idle, NoJob, Steps, OwnAreNotAsked
<1> QED
  BY <1>1, <1>2, <1>3, <1>4, <1>5, <1>6, <1>7

LEMMA RatholeMovesKeeps ==
  ASSUME IInv, NEW t \in Tasks, RatholeMoves(t)
  PROVE  IInv'
<1> USE DEF IInv, RatholeMoves, runnerVars, proxyVars, historyVars
<1>1. TypeOK'
  <2>1. \/ \E p \in Phases : TaskEnds(t, p)
        \/ task' = [task EXCEPT ![t].at = "serving"]
    BY DEF RatholeListens, RatholeEnds, RatholeDies, Phases
  <2>2. task' \in [Tasks -> Task]
    BY <2>1, TaskTypes DEF TypeOK
  <2>3. faults' \in Nat
    BY DEF RatholeListens, RatholeEnds, RatholeDies, Fault, TypeOK
  <2> QED
    BY <2>2, <2>3 DEF TypeOK
<1>2. JobOK'
  BY DEF JobOK, Idle
<1>3. NothingIsLost'
  BY DEF RatholeListens, RatholeEnds, RatholeDies, TaskEnds, TaskAlive, NothingIsLost, TypeOK
<1>4. OwnAreNotAsked'
  BY DEF RatholeListens, RatholeEnds, RatholeDies, TaskEnds, FreeTask, OwnAreNotAsked, TypeOK, Task
<1>5. Stopped'
  BY DEF Stopped
<1>6. Prepared'
  BY DEF RatholeListens, RatholeEnds, RatholeDies, TaskEnds, FreeTask, Prepared, ProxyAs, TypeOK, Task
<1>7. Started'
  BY DEF Started, ProxyAs, Idle
<1> QED
  BY <1>1, <1>2, <1>3, <1>4, <1>5, <1>6, <1>7

LEMMA ProxyMovesKeeps ==
  ASSUME IInv, NEW h \in Threads, ProxyMoves(h)
  PROVE  IInv'
<1> USE DEF IInv, ProxyMoves, runnerVars, proxyVars, historyVars
<1>1. TypeOK'
  <2>1. \/ \E p \in Phases : ThreadEnds(h, p)
        \/ thread' = [thread EXCEPT ![h].at = "serving"]
    BY DEF ProxyListens, ProxyEnds, ProxyDies, Phases
  <2>2. thread' \in [Threads -> Thread]
    BY <2>1, ThreadTypes DEF TypeOK
  <2>3. faults' \in Nat
    BY DEF ProxyListens, ProxyEnds, ProxyDies, Fault, TypeOK
  <2> QED
    BY <2>2, <2>3 DEF TypeOK
<1>2. JobOK'
  BY DEF JobOK, Idle
<1>3. NothingIsLost'
  BY DEF ProxyListens, ProxyEnds, ProxyDies, ThreadEnds, ThreadAlive, NothingIsLost, TypeOK
<1>4. OwnAreNotAsked'
  BY DEF ProxyListens, ProxyEnds, ProxyDies, ThreadEnds, FreeThread, OwnAreNotAsked, JobOK, TypeOK, Job, Thread
<1>5. Stopped'
  BY DEF Stopped
<1>6. Prepared'
  BY DEF ProxyListens, ProxyEnds, ProxyDies, ThreadEnds, FreeThread, Prepared, ProxyAs, JobOK, TypeOK, Job, Thread
<1>7. Started'
  BY DEF ProxyListens, ProxyEnds, ProxyDies, ThreadEnds, FreeThread, Started, ProxyAs, TypeOK, Thread, Idle
<1> QED
  BY <1>1, <1>2, <1>3, <1>4, <1>5, <1>6, <1>7

(***************************************************************************)
(* The invariant.                                                          *)
(***************************************************************************)
LEMMA InitIInv ==
  ASSUME Init
  PROVE  IInv
<1> USE DEF Init, Idle, NoJob
<1>1. TypeOK
  <2>1. NoJob \in Job /\ at \in Steps
    BY DEF Job, Kinds, Steps
  <2>2. task \in [Tasks -> Task] /\ thread \in [Threads -> Thread]
    BY DEF Task, Thread, Phases, Kinds
  <2> QED
    BY <2>1, <2>2 DEF TypeOK
<1>2. JobOK /\ NothingIsLost /\ OwnAreNotAsked
  BY DEF JobOK, NothingIsLost, OwnAreNotAsked, ProxySteps
<1>3. Stopped /\ Prepared /\ Started
  BY DEF Stopped, Prepared, Started, ProxySteps
<1> QED
  BY <1>1, <1>2, <1>3 DEF IInv

LEMMA StutterKeeps ==
  ASSUME IInv, UNCHANGED vars
  PROVE  IInv'
<1> USE DEF vars, runnerVars, proxyVars, historyVars
<1>1. TypeOK' /\ JobOK'
  BY DEF IInv, TypeOK, JobOK, Idle
<1>2. NothingIsLost' /\ OwnAreNotAsked' /\ Stopped'
  BY DEF IInv, NothingIsLost, OwnAreNotAsked, Stopped
<1>3. Prepared' /\ Started'
  BY DEF IInv, Prepared, Started, ProxyAs, Runtimes, Routed, Http, Idle
<1> QED
  BY <1>1, <1>2, <1>3 DEF IInv

LEMMA NextIInv ==
  ASSUME IInv, [Next]_vars
  PROVE  IInv'
<1>1. CASE Message
  BY <1>1, ApplyConfigKeeps, StartKeeps, StopKeeps, RestartKeeps, RenewCertificateKeeps DEF Message
<1>2. CASE RatholeStep
  BY <1>2, StopRatholeKeeps, RatholeStoppedKeeps, RatholeStopTimesOutKeeps, StartRatholeKeeps
     DEF RatholeStep
<1>3. CASE ProxyStep
  BY <1>3, ApplyProxyKeeps, HaveCertificateKeeps, CertificateFailsKeeps, EnsureRunningKeeps,
     StopProxyKeeps, ProxyStoppedKeeps, ProxyStopTimesOutKeeps, StartProxyKeeps, BindFailsKeeps,
     ProxyStartedKeeps, ProxyExitsEarlyKeeps
     DEF ProxyStep
<1>4. CASE Refresh
  BY <1>4, RefreshKeeps
<1>5. CASE \E t \in Tasks : RatholeMoves(t)
  BY <1>5, RatholeMovesKeeps
<1>6. CASE \E h \in Threads : ProxyMoves(h)
  BY <1>6, ProxyMovesKeeps
<1>7. CASE UNCHANGED vars
  BY <1>7, StutterKeeps
<1> QED
  BY <1>1, <1>2, <1>3, <1>4, <1>5, <1>6, <1>7 DEF Next

LEMMA AlwaysIInv == Spec => []IInv
<1>1. Init => IInv
  BY InitIInv
<1>2. IInv /\ [Next]_vars => IInv'
  BY NextIInv
<1> QED
  BY <1>1, <1>2, PTL DEF Spec

(***************************************************************************)
(* What the runs check on two tasks and two threads.                       *)
(***************************************************************************)
\* Every variable of the agent's runner and of its HTTP proxy keeps its type.
THEOREM TypeCorrect == Spec => []TypeOK
<1>1. IInv => TypeOK
  BY DEF IInv
<1> QED
  BY <1>1, AlwaysIInv, PTL

\* Without a last error a node that was started runs rathole and the proxy as
\* they are configured (Runner::apply_config, start, restart, refresh).
THEOREM NoErrorIsServing == Spec => []NoErrorMeansServing
<1>1. IInv => NoErrorMeansServing
  <2> SUFFICES ASSUME IInv, Idle, wanted = "run", ~lastError
               PROVE  /\ config # NoConfig =>
                            (config.services => inner # NoTask /\ task[inner].config = config)
                      /\ renewal # "failed" => ProxyAs(config)
    BY DEF NoErrorMeansServing, ProxyAs
  <2>1. job.kind = "none" /\ at # "stop_rathole"
    BY DEF IInv, JobOK, Idle, NoJob
  <2> QED
    BY <2>1 DEF IInv, Started, Prepared
<1> QED
  BY <1>1, AlwaysIInv, PTL

\* A node that was stopped runs nothing (Runner::stop, HttpProxyRunner::stop),
\* whatever crossed the stop, unless a stop timed out or a renewal came later.
THEOREM StopIsSilent == Spec => []StoppedIsSilent
<1>1. IInv => StoppedIsSilent
  <2> SUFFICES ASSUME IInv, Idle, wanted = "stop", ~abandoned
               PROVE  /\ \A t \in Tasks : ~TaskAlive(t)
                      /\ renewal = "none" => \A h \in Threads : ~ThreadAlive(h)
    BY DEF StoppedIsSilent
  <2>1. job.task = NoTask /\ job.thread = NoThread /\ inner = NoTask
    BY DEF IInv, JobOK, Stopped, Idle, NoJob
  <2>2. renewal = "none" => running = NoThread
    BY DEF IInv, Stopped, Idle
  <2> QED
    BY <2>1, <2>2 DEF IInv, NothingIsLost, TaskAlive, ThreadAlive
<1> QED
  BY <1>1, AlwaysIInv, PTL
=============================================================================
