--------------------------- MODULE DaemonLifecycle ---------------------------
(***************************************************************************)
(* Start and Stop of internal/daemon/daemon.go as                           *)
(* cmd/docbuilder/commands/daemon.go runs them: Start in a goroutine of its *)
(* own, the main goroutine waiting for a signal or for Start's result and   *)
(* then calling Stop.  The scheduler's status job, the build queue and the  *)
(* worker group of worker_group.go run beside them.                         *)
(***************************************************************************)
EXTENDS FiniteSets

CONSTANTS
  Consumers,    \* the goroutines startWorkers starts
  LateWorkers   \* those mainLoop starts: initial_build and initial_discovery

ASSUME LifecycleAssumption == Consumers \cap LateWorkers = {}

VARIABLES
  status,       \* d.status, read without the mutex
  mu,           \* the holder of d.mu
  start,        \* where the Start goroutine is
  main,         \* where RunDaemon, and Stop within it, is
  signal,       \* SIGINT or SIGTERM arrived: the root context is done
  runCanceled,  \* runCancel was called
  stopClosed,   \* stopChan is closed
  busClosed,
  sched,        \* the gocron scheduler
  tick,         \* where the daemon-status job is
  queue,        \* the build queue's workers
  queueStop,    \* the build queue's own stop channel is closed
  build,        \* a build is running
  http,         \* the HTTP servers
  sse,          \* a live-reload client is connected
  saved,        \* Stop has saved the state
  storeOpen,    \* the event store
  workers,      \* running goroutines of the worker group
  due,          \* late workers mainLoop has still to start
  wgStopping,   \* WorkerGroup.stopping
  drained,      \* StopAndWait saw the group empty
  deadline      \* Stop's 30 s are over

ending == <<runCanceled, stopClosed, busClosed, saved, storeOpen, drained, deadline>>
scheduled == <<sched, tick>>
builds == <<queue, queueStop, build>>
servers == <<http, sse>>
group == <<workers, due, wgStopping>>
lifecycleVars == <<status, mu, start, main, signal, ending, scheduled, builds, servers, group>>

LifecycleInit ==
  /\ status = "stopped" /\ mu = "free" /\ start = "none" /\ main = "wait"
  /\ signal = FALSE /\ runCanceled = FALSE /\ stopClosed = FALSE /\ busClosed = FALSE
  /\ sched = "off" /\ tick = "idle"
  /\ queue = "off" /\ queueStop = FALSE /\ build = FALSE
  /\ http = "off" /\ sse = FALSE /\ saved = FALSE /\ storeOpen = TRUE
  /\ workers = {} /\ due = LateWorkers /\ wgStopping = FALSE
  /\ drained = FALSE /\ deadline = FALSE

RunEnded == signal \/ runCanceled

-----------------------------------------------------------------------------
(* Start.                                                                  *)

StartBegin ==
  /\ start = "none" /\ mu = "free"
  /\ status' = "starting" /\ mu' = "start" /\ start' = "http"
  /\ wgStopping' = FALSE
  /\ UNCHANGED <<main, signal, ending, scheduled, builds, servers, workers, due>>

StartHTTP ==
  /\ start = "http" /\ http' = "on" /\ start' = "workers"
  /\ UNCHANGED <<status, mu, main, signal, ending, scheduled, builds, sse, group>>

StartWorkers ==
  /\ start = "workers" /\ start' = "schedule"
  /\ queue' = "on"
  /\ workers' = IF wgStopping THEN workers ELSE workers \cup Consumers
  /\ UNCHANGED <<status, mu, main, signal, ending, scheduled, queueStop, build, servers, due, wgStopping>>

StartSchedule ==
  /\ start = "schedule" /\ start' = "loop"
  /\ sched' = "on" /\ status' = "running" /\ mu' = "free"
  /\ UNCHANGED <<main, signal, ending, tick, builds, servers, group>>

\* Mutated form of StartFails: d.mu is not released on the error path.
StartFails_KeepsLock ==
  /\ start \in {"http", "schedule"} /\ start' = "failed"
  /\ status' = "error" /\ runCanceled' = TRUE
  /\ UNCHANGED <<mu, main, signal, stopClosed, busClosed, saved, storeOpen, drained, deadline, scheduled, builds, servers, group>>

\* The HTTP servers cannot bind, or the schedule is refused.
StartFails ==
  /\ start \in {"http", "schedule"} /\ start' = "failed"
  /\ status' = "error" /\ runCanceled' = TRUE /\ mu' = "free"
  /\ UNCHANGED <<main, signal, stopClosed, busClosed, saved, storeOpen, drained, deadline, scheduled, builds, servers, group>>

\* Mutated form of GoWorker: the group takes workers while it is stopping.
GoWorker_NoCheck(x) ==
  /\ start = "loop" /\ x \in due
  /\ due' = due \ {x}
  /\ workers' = workers \cup {x}
  /\ UNCHANGED <<status, mu, start, main, signal, ending, scheduled, builds, servers, wgStopping>>

\* mainLoop starts the initial build or, when its timer fires, the discovery.
GoWorker(x) ==
  /\ start = "loop" /\ x \in due
  /\ due' = due \ {x}
  /\ workers' = IF wgStopping THEN workers ELSE workers \cup {x}
  /\ UNCHANGED <<status, mu, start, main, signal, ending, scheduled, builds, servers, wgStopping>>

LoopExits ==
  /\ start = "loop" /\ (RunEnded \/ stopClosed)
  /\ start' = "store"
  /\ UNCHANGED <<status, mu, main, signal, ending, scheduled, builds, servers, group>>

\* Mutated form of StartReturns: the end of the loop is taken for a full stop.
StartReturns_Stopped ==
  /\ start = "store" /\ start' = "returned" /\ status' = "stopped"
  /\ UNCHANGED <<mu, main, signal, ending, scheduled, builds, servers, group>>

StartReturns ==
  /\ start = "store" /\ start' = "returned" /\ status' = "stopping"
  /\ UNCHANGED <<mu, main, signal, ending, scheduled, builds, servers, group>>

-----------------------------------------------------------------------------
(* What runs beside Start and Stop.                                        *)

WorkerEnds(x) ==
  /\ x \in workers /\ (x \in LateWorkers \/ RunEnded \/ busClosed)
  /\ workers' = workers \ {x}
  /\ UNCHANGED <<status, mu, start, main, signal, ending, scheduled, builds, servers, due, wgStopping>>

BuildBegins ==
  /\ queue = "on" /\ ~build /\ build' = TRUE
  /\ UNCHANGED <<status, mu, start, main, signal, ending, scheduled, queue, queueStop, servers, group>>

BuildEnds ==
  /\ build /\ build' = FALSE
  /\ UNCHANGED <<status, mu, start, main, signal, ending, scheduled, queue, queueStop, servers, group>>

QueueWorkersEnd ==
  /\ queue = "on" /\ ~build /\ (RunEnded \/ queueStop)
  /\ queue' = "ended"
  /\ UNCHANGED <<status, mu, start, main, signal, ending, scheduled, queueStop, build, servers, group>>

\* The daemon-status job checks the status, then updateStatus takes d.mu.
TickBegins ==
  /\ sched = "on" /\ tick = "idle" /\ status = "running" /\ tick' = "lock"
  /\ UNCHANGED <<status, mu, start, main, signal, ending, sched, builds, servers, group>>

TickLocks ==
  /\ tick = "lock" /\ mu = "free" /\ tick' = "update" /\ mu' = "tick"
  /\ UNCHANGED <<status, start, main, signal, ending, sched, builds, servers, group>>

TickEnds ==
  /\ tick = "update" /\ tick' = "idle" /\ mu' = "free"
  /\ UNCHANGED <<status, start, main, signal, ending, sched, builds, servers, group>>

ClientConnects ==
  /\ http = "on" /\ ~sse /\ sse' = TRUE
  /\ UNCHANGED <<status, mu, start, main, signal, ending, scheduled, builds, http, group>>

ClientLeaves ==
  /\ sse /\ sse' = FALSE
  /\ UNCHANGED <<status, mu, start, main, signal, ending, scheduled, builds, http, group>>

Signal ==
  /\ ~signal /\ signal' = TRUE
  /\ UNCHANGED <<status, mu, start, main, ending, scheduled, builds, servers, group>>

-----------------------------------------------------------------------------
(* RunDaemon and Stop.                                                     *)

\* RunDaemon's select: the signal, or Start's result.
MainSignaled ==
  /\ main = "wait" /\ signal /\ main' = "lock"
  /\ UNCHANGED <<status, mu, start, signal, ending, scheduled, builds, servers, group>>

MainStartReturned ==
  /\ main = "wait" /\ start \in {"returned", "failed"}
  /\ main' = IF start = "failed" THEN "exitErr" ELSE "lock"
  /\ UNCHANGED <<status, mu, start, signal, ending, scheduled, builds, servers, group>>

StopLock ==
  /\ main = "lock" /\ mu = "free"
  /\ IF status \in {"stopped", "stopping"}
     THEN main' = "exit" /\ UNCHANGED status
     ELSE main' = "cancel" /\ status' = "stopping"
  /\ UNCHANGED <<mu, start, signal, ending, scheduled, builds, servers, group>>

StopCancel ==
  /\ main = "cancel" /\ main' = "sched"
  /\ runCanceled' = TRUE /\ stopClosed' = TRUE /\ busClosed' = TRUE
  /\ UNCHANGED <<status, mu, start, signal, saved, storeOpen, drained, deadline, scheduled, builds, servers, group>>

\* scheduler.Stop: no new job runs; gocron waits for the running one, a while.
StopScheduler ==
  /\ main = "sched" /\ main' = "queue"
  /\ sched' = "off"
  /\ UNCHANGED <<status, mu, start, signal, ending, tick, builds, servers, group>>

\* buildQueue.Stop closes its stop channel and waits for the workers.
StopQueue ==
  /\ main = "queue" /\ main' = "queueWait" /\ queueStop' = TRUE
  /\ UNCHANGED <<status, mu, start, signal, ending, scheduled, queue, build, servers, group>>

\* Mutated form of StopQueueReturns: Stop does not wait for the workers.
StopQueueReturns_NoWait ==
  /\ main = "queueWait" /\ main' = "http"
  /\ UNCHANGED <<status, mu, start, signal, ending, scheduled, builds, servers, group>>

StopQueueReturns ==
  /\ main = "queueWait" /\ queue # "on" /\ main' = "http"
  /\ UNCHANGED <<status, mu, start, signal, ending, scheduled, builds, servers, group>>

\* http.Server.Shutdown waits for open connections, up to the deadline;
\* liveReload.Shutdown then closes the live-reload clients.
StopHTTP ==
  /\ main = "http" /\ (~sse \/ deadline) /\ main' = "save"
  /\ http' = "off" /\ sse' = FALSE
  /\ UNCHANGED <<status, mu, start, signal, ending, scheduled, builds, group>>

\* stateManager.Save and eventStore.Close.
StopSave ==
  /\ main = "save" /\ main' = "workers"
  /\ saved' = TRUE /\ storeOpen' = FALSE
  /\ UNCHANGED <<status, mu, start, signal, runCanceled, stopClosed, busClosed, drained, deadline, scheduled, builds, servers, group>>

StopWorkers ==
  /\ main = "workers" /\ main' = "workersWait" /\ wgStopping' = TRUE
  /\ UNCHANGED <<status, mu, start, signal, ending, scheduled, builds, servers, workers, due>>

StopWorkersReturns ==
  /\ main = "workersWait" /\ (workers = {} \/ deadline)
  /\ main' = "status" /\ drained' = (workers = {})
  /\ UNCHANGED <<status, mu, start, signal, runCanceled, stopClosed, busClosed, saved, storeOpen, deadline, scheduled, builds, servers, group>>

StopReturns ==
  /\ main = "status" /\ mu = "free"
  /\ main' = "exit" /\ status' = "stopped"
  /\ UNCHANGED <<mu, start, signal, ending, scheduled, builds, servers, group>>

Deadline ==
  /\ main \in {"http", "workersWait"} /\ ~deadline /\ deadline' = TRUE
  /\ UNCHANGED <<status, mu, start, main, signal, runCanceled, stopClosed, busClosed, saved, storeOpen, drained, scheduled, builds, servers, group>>

-----------------------------------------------------------------------------
Alive == main \notin {"exit", "exitErr"}

StartStep ==
  \/ StartBegin \/ StartHTTP \/ StartWorkers \/ StartSchedule
  \/ LoopExits \/ StartReturns

StopStep ==
  \/ MainSignaled \/ MainStartReturned \/ StopLock \/ StopCancel \/ StopScheduler
  \/ StopQueue \/ StopQueueReturns \/ StopHTTP \/ StopSave
  \/ StopWorkers \/ StopWorkersReturns \/ StopReturns

Environment ==
  \/ StartFails \/ \E x \in LateWorkers : GoWorker(x)
  \/ BuildBegins \/ TickBegins \/ ClientConnects \/ ClientLeaves \/ Signal

\* The goroutines end with the process.
Exited == ~Alive /\ UNCHANGED lifecycleVars

LifecycleNext ==
  \/ Alive /\ (StartStep \/ StopStep \/ Environment)
  \/ Alive /\ (BuildEnds \/ QueueWorkersEnd \/ TickLocks \/ TickEnds \/ Deadline)
  \/ Alive /\ \E x \in Consumers \cup LateWorkers : WorkerEnds(x)
  \/ Exited

LifecycleSpec == LifecycleInit /\ [][LifecycleNext]_lifecycleVars

\* Goroutines run on and take d.mu in turn, builds end, and a queue worker
\* asked again and again to quit or to build does quit in the end.
LifecycleFairness ==
  /\ WF_lifecycleVars(Alive /\ (StartStep \/ StartFails)) /\ WF_lifecycleVars(Alive /\ StopStep)
  /\ SF_lifecycleVars(Alive /\ (StopLock \/ StopReturns)) /\ SF_lifecycleVars(Alive /\ StartBegin)
  /\ WF_lifecycleVars(Alive /\ BuildEnds) /\ SF_lifecycleVars(Alive /\ QueueWorkersEnd)
  /\ WF_lifecycleVars(Alive /\ TickEnds) /\ WF_lifecycleVars(Alive /\ Deadline)

LifecycleFairSpec == LifecycleSpec /\ LifecycleFairness

-----------------------------------------------------------------------------
(* Properties.                                                             *)

\* Every variable keeps its type.
LifecycleTypeOK ==
  /\ status \in {"stopped", "starting", "running", "stopping", "error"}
  /\ mu \in {"free", "start", "tick"}
  /\ start \in {"none", "http", "workers", "schedule", "loop", "store", "returned", "failed"}
  /\ main \in {"wait", "lock", "cancel", "sched", "queue", "queueWait", "http", "save",
               "workers", "workersWait", "status", "exit", "exitErr"}
  /\ sched \in {"off", "on"} /\ tick \in {"idle", "lock", "update"}
  /\ queue \in {"off", "on", "ended"} /\ http \in {"off", "on"}
  /\ signal \in BOOLEAN /\ runCanceled \in BOOLEAN /\ stopClosed \in BOOLEAN
  /\ busClosed \in BOOLEAN /\ queueStop \in BOOLEAN /\ build \in BOOLEAN
  /\ sse \in BOOLEAN /\ saved \in BOOLEAN /\ storeOpen \in BOOLEAN
  /\ wgStopping \in BOOLEAN /\ drained \in BOOLEAN /\ deadline \in BOOLEAN
  /\ workers \subseteq Consumers \cup LateWorkers /\ due \subseteq LateWorkers
  /\ mu = "start" <=> start \in {"http", "workers", "schedule"}
  /\ mu = "tick" <=> tick = "update"

\* A build, which records its events to the end, never runs on a closed event
\* store: Stop closes the store only when the queue's workers are gone.
BuildHasStore == build => storeOpen

\* Once StopAndWait has seen the worker group empty no worker runs, although
\* mainLoop may still try to start one.
DrainedForGood == drained => workers = {}

\* A daemon that was started reports "stopped" only when Stop has taken it
\* down: nothing runs, the state is saved and the store is closed.
StoppedIsDown ==
  status = "stopped" /\ start # "none" =>
    /\ sched = "off" /\ queue # "on" /\ ~build /\ http = "off"
    /\ saved /\ ~storeOpen

\* RunDaemon returns after a signal: no lock, worker or connection holds it up.
SignalEnds == signal ~> ~Alive

\* The inductive invariant: how far Stop is decides what is still up.
Stopping == {"cancel", "sched", "queue", "queueWait", "http", "save", "workers",
             "workersWait", "status"}

Shutdown ==
  /\ main \in Stopping => start \in {"loop", "store", "returned", "failed"}
  /\ main \in Stopping \ {"cancel", "sched"} => sched = "off"
  /\ main \in {"http", "save", "workers", "workersWait", "status"} => queue # "on"
  /\ main \in {"save", "workers", "workersWait", "status"} => http = "off"
  /\ main \in {"workers", "workersWait", "status"} => saved /\ ~storeOpen
  /\ ~storeOpen => main \in {"workers", "workersWait", "status", "exit"} /\ queue # "on"
  /\ build => queue = "on"
  /\ wgStopping => main \in {"workersWait", "status", "exit"}
  /\ main \in {"workersWait", "status"} => wgStopping
  /\ drained => wgStopping /\ main \in {"status", "exit"} /\ workers = {}
  /\ start = "none" => status = "stopped" /\ main \notin Stopping

\* Shutdown together with the type invariant and StoppedIsDown is inductive.
LifecycleInv ==
  /\ LifecycleTypeOK /\ Shutdown /\ StoppedIsDown
  /\ status = "stopped" /\ start # "none" => main = "exit"
=============================================================================
