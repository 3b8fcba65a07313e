----------------------------- MODULE BuildQueue -----------------------------
(***************************************************************************)
(* internal/build/queue/build_queue.go with the daemon's Builder,           *)
(* internal/daemon/build_service_adapter.go: a bounded channel of jobs, a    *)
(* pool of workers, retries of transient failures and a graceful Stop.      *)
(* The adapter's mutex lets one build run at a time.                        *)
(***************************************************************************)
EXTENDS Naturals, Sequences, FiniteSets

CONSTANTS
  Jobs,             \* the job objects callers may enqueue
  JobID,            \* JobID[j]: the ID field of job j
  NoJob,            \* no job
  Workers,          \* worker goroutines
  Nobody,           \* the adapter's mutex is free
  MaxSize,          \* capacity of the jobs channel
  HistorySize,      \* how many finished jobs the history keeps (50)
  MaxRetries,       \* retryPolicy.MaxRetries
  ReportsErrors     \* the Builder returns its report together with an error

ASSUME QueueAssumption ==
  /\ NoJob \notin Jobs /\ Nobody \notin Workers
  /\ MaxSize \in Nat \ {0} /\ HistorySize \in Nat \ {0} /\ MaxRetries \in Nat
  /\ DOMAIN JobID = Jobs
  /\ ReportsErrors \in BOOLEAN

IDs == {JobID[j] : j \in Jobs}

VARIABLES
  jobs,       \* the channel
  jobStatus,     \* jobStatus[j], with "new" before and "rejected" by Enqueue
  active,     \* active[id]: the job the active map holds for id
  history,
  at,         \* at[w]: where worker w is
  cur,        \* cur[w]: the job worker w received
  retries,    \* retries[j]: totalRetries
  lastErr,    \* lastErr[j]: the kind of the last failure of job j
  canceled,   \* jobs whose context is cancelled
  building,   \* the worker that holds the adapter's mutex
  stopper,    \* where Stop is; the stop channel is closed unless "none"
  ctxDone     \* the context given to Start has ended

work == <<at, cur>>
attempts == <<retries, lastErr>>
stopping == <<canceled, stopper, ctxDone>>
queueVars == <<jobs, jobStatus, active, history, work, attempts, building, stopping>>

QueueInit ==
  /\ jobs = <<>> /\ history = <<>> /\ canceled = {}
  /\ jobStatus = [j \in Jobs |-> "new"]
  /\ active = [id \in IDs |-> NoJob]
  /\ at = [w \in Workers |-> "idle"] /\ cur = [w \in Workers |-> NoJob]
  /\ retries = [j \in Jobs |-> 0] /\ lastErr = [j \in Jobs |-> "none"]
  /\ building = Nobody /\ stopper = "none" /\ ctxDone = FALSE

-----------------------------------------------------------------------------
Enqueue(j) ==
  /\ jobStatus[j] = "new"
  /\ IF Len(jobs) < MaxSize
     THEN jobs' = Append(jobs, j) /\ jobStatus' = [jobStatus EXCEPT ![j] = "queued"]
     ELSE jobStatus' = [jobStatus EXCEPT ![j] = "rejected"] /\ UNCHANGED jobs
  /\ UNCHANGED <<active, history, work, attempts, building, stopping>>

\* worker: select takes any ready case, so also a job of a queue being stopped.
Take(w) ==
  /\ at[w] = "idle" /\ jobs # <<>>
  /\ jobs' = Tail(jobs)
  /\ cur' = [cur EXCEPT ![w] = Head(jobs)]
  /\ at' = [at EXCEPT ![w] = "taken"]
  /\ UNCHANGED <<jobStatus, active, history, attempts, building, stopping>>

\* Mutated form of Quit: the worker does not watch the stop channel.
Quit_ContextOnly(w) ==
  /\ at[w] = "idle" /\ ctxDone
  /\ at' = [at EXCEPT ![w] = "gone"]
  /\ UNCHANGED <<jobs, jobStatus, active, history, cur, attempts, building, stopping>>

Quit(w) ==
  /\ at[w] = "idle" /\ (stopper # "none" \/ ctxDone)
  /\ at' = [at EXCEPT ![w] = "gone"]
  /\ UNCHANGED <<jobs, jobStatus, active, history, cur, attempts, building, stopping>>

\* processJob registers the job as active.
Begin(w) ==
  /\ at[w] = "taken"
  /\ jobStatus' = [jobStatus EXCEPT ![cur[w]] = "running"]
  /\ active' = [active EXCEPT ![JobID[cur[w]]] = cur[w]]
  /\ at' = [at EXCEPT ![w] = "attempt"]
  /\ UNCHANGED <<jobs, history, cur, attempts, building, stopping>>

\* BuildServiceAdapter.Build takes its mutex.
BuildStart(w) ==
  /\ at[w] = "attempt" /\ building = Nobody
  /\ building' = w
  /\ at' = [at EXCEPT ![w] = "building"]
  /\ UNCHANGED <<jobs, jobStatus, active, history, cur, attempts, stopping>>

BuildOk(w) ==
  /\ at[w] = "building"
  /\ building' = Nobody
  /\ lastErr' = [lastErr EXCEPT ![cur[w]] = "none"]
  /\ at' = [at EXCEPT ![w] = "finish"]
  /\ UNCHANGED <<jobs, jobStatus, active, history, cur, retries, stopping>>

\* findTransientError sees a transient failure only in a report.
Transient(kind) == kind = "transient" /\ ReportsErrors

ShouldStopRetrying(kind, n) == ~Transient(kind) \/ n >= MaxRetries

\* A failing attempt: executeBuild retries or gives up.
BuildFails(w, kind) ==
  LET j == cur[w] stop == ShouldStopRetrying(kind, retries[j])
  IN  /\ at[w] = "building"
      /\ building' = Nobody
      /\ lastErr' = [lastErr EXCEPT ![j] = kind]
      /\ retries' = IF stop THEN retries ELSE [retries EXCEPT ![j] = @ + 1]
      /\ at' = [at EXCEPT ![w] = IF stop THEN "finish" ELSE "backoff"]
      /\ UNCHANGED <<jobs, jobStatus, active, history, cur, stopping>>

BackoffEnds(w) ==
  /\ at[w] = "backoff"
  /\ at' = [at EXCEPT ![w] = "attempt"]
  /\ UNCHANGED <<jobs, jobStatus, active, history, cur, attempts, building, stopping>>

\* Mutated form of BackoffCanceled: the worker drops the job unrecorded.
BackoffCanceled_Drops(w) ==
  /\ at[w] = "backoff" /\ (cur[w] \in canceled \/ ctxDone)
  /\ cur' = [cur EXCEPT ![w] = NoJob] /\ at' = [at EXCEPT ![w] = "idle"]
  /\ UNCHANGED <<jobs, jobStatus, active, history, attempts, building, stopping>>

BackoffCanceled(w) ==
  /\ at[w] = "backoff" /\ (cur[w] \in canceled \/ ctxDone)
  /\ lastErr' = [lastErr EXCEPT ![cur[w]] = "canceled"]
  /\ at' = [at EXCEPT ![w] = "finish"]
  /\ UNCHANGED <<jobs, jobStatus, active, history, cur, retries, building, stopping>>

\* addToHistory: the oldest entry goes when the history is full.
AddToHistory(j) ==
  LET h == Append(history, j)
  IN  IF Len(h) > HistorySize THEN Tail(h) ELSE h

\* markJobCompleted; the job's deferred cancel; the worker's next round.
Finish(w) ==
  LET j == cur[w]
  IN  /\ at[w] = "finish"
      /\ active' = [active EXCEPT ![JobID[j]] = NoJob]
      /\ history' = AddToHistory(j)
      /\ jobStatus' = [jobStatus EXCEPT ![j] = IF lastErr[j] = "none" THEN "completed" ELSE "failed"]
      /\ cur' = [cur EXCEPT ![w] = NoJob] /\ at' = [at EXCEPT ![w] = "idle"]
      /\ UNCHANGED <<jobs, attempts, building, stopping>>

\* Stop: close the stop channel, cancel the active jobs, wait for the workers.
StopCall ==
  /\ stopper = "none" /\ stopper' = "canceling"
  /\ UNCHANGED <<jobs, jobStatus, active, history, work, attempts, building, canceled, ctxDone>>

QueueStopCancel ==
  /\ stopper = "canceling" /\ stopper' = "waiting"
  /\ canceled' = canceled \cup ({active[id] : id \in IDs} \ {NoJob})
  /\ UNCHANGED <<jobs, jobStatus, active, history, work, attempts, building, ctxDone>>

QueueStopReturns ==
  /\ stopper = "waiting" /\ \A w \in Workers : at[w] = "gone"
  /\ stopper' = "returned"
  /\ UNCHANGED <<jobs, jobStatus, active, history, work, attempts, building, canceled, ctxDone>>

CancelRun ==
  /\ ~ctxDone /\ ctxDone' = TRUE
  /\ UNCHANGED <<jobs, jobStatus, active, history, work, attempts, building, canceled, stopper>>

WorkerStep(w) ==
  \/ Take(w) \/ Quit(w) \/ Begin(w) \/ BuildStart(w) \/ BuildOk(w)
  \/ \E kind \in {"transient", "fatal"} : BuildFails(w, kind)
  \/ BackoffEnds(w) \/ BackoffCanceled(w) \/ Finish(w)

QueueNext ==
  \/ \E j \in Jobs : Enqueue(j)
  \/ \E w \in Workers : WorkerStep(w)
  \/ StopCall \/ QueueStopCancel \/ QueueStopReturns \/ CancelRun

QueueSpec == QueueInit /\ [][QueueNext]_queueVars

\* Every worker keeps running (a build ends, its mutex is handed over in turn)
\* and a Stop that has begun goes on.
QueueFairness ==
  /\ \A w \in Workers : WF_queueVars(WorkerStep(w)) /\ SF_queueVars(BuildStart(w))
  /\ WF_queueVars(QueueStopCancel \/ QueueStopReturns)

QueueFairSpec == QueueSpec /\ QueueFairness

-----------------------------------------------------------------------------
(* Properties.                                                             *)

\* Channel, maps, history and worker positions keep their types and bounds.
QueueTypeOK ==
  /\ jobs \in Seq(Jobs) /\ Len(jobs) <= MaxSize
  /\ jobStatus \in [Jobs -> {"new", "rejected", "queued", "running", "completed", "failed"}]
  /\ active \in [IDs -> Jobs \cup {NoJob}]
  /\ history \in Seq(Jobs) /\ Len(history) <= HistorySize
  /\ at \in [Workers -> {"idle", "taken", "attempt", "building", "backoff", "finish", "gone"}]
  /\ cur \in [Workers -> Jobs \cup {NoJob}]
  /\ \A w \in Workers : cur[w] = NoJob <=> at[w] \in {"idle", "gone"}
  /\ retries \in [Jobs -> 0 .. MaxRetries]
  /\ lastErr \in [Jobs -> {"none", "transient", "fatal", "canceled"}]
  /\ canceled \subseteq Jobs /\ building \in Workers \cup {Nobody}
  /\ stopper \in {"none", "canceling", "waiting", "returned"} /\ ctxDone \in BOOLEAN

\* A job waits in the channel once or is in the hands of one worker, never in
\* both, and exactly the accepted unfinished jobs are: none is lost or built
\* twice (Enqueue, worker and processJob).
JobInOnePlace ==
  /\ \A i, k \in DOMAIN jobs : jobs[i] = jobs[k] => i = k
  /\ \A w \in Workers : \A i \in DOMAIN jobs : cur[w] # jobs[i]
  /\ \A v, w \in Workers : cur[v] = cur[w] /\ cur[v] # NoJob => v = w
  /\ \A j \in Jobs : jobStatus[j] \in {"queued", "running"} <=>
       (\E i \in DOMAIN jobs : jobs[i] = j) \/ (\E w \in Workers : cur[w] = j)

UniqueIDs == \A i, j \in Jobs : JobID[i] = JobID[j] => i = j

\* With unique job IDs the active map, which CheckBuildRunning and Stop read,
\* holds exactly the jobs between processJob's two critical sections.
ActiveIsRunning ==
  UniqueIDs => \A j \in Jobs : active[JobID[j]] = j <=> jobStatus[j] = "running"

\* A job that fails on transient errors has used up its retries, unless it was
\* cancelled: transient stage failures are retried MaxRetries times.
TransientIsRetried ==
  \A j \in Jobs :
    jobStatus[j] = "failed" /\ lastErr[j] = "transient" => retries[j] = MaxRetries

\* Every job is accounted for at every moment: in one place, in the active map
\* exactly while it runs, and failed on a transient error only after MaxRetries
\* retries (Enqueue, processJob, executeBuild).
JobsAccountedFor == QueueTypeOK /\ JobInOnePlace /\ ActiveIsRunning /\ TransientIsRetried

\* An accepted job is finished, unless the queue is stopped first; and Stop returns,
\* whatever the workers were doing when it was called: also a job that a worker had
\* received but not yet registered is waited for.
StopEnds ==
  /\ \A j \in Jobs :
       jobStatus[j] = "queued" ~>
         (jobStatus[j] \in {"completed", "failed"} \/ stopper # "none" \/ ctxDone)
  /\ stopper = "canceling" ~> stopper = "returned"
=============================================================================
