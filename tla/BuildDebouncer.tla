--------------------------- MODULE BuildDebouncer ---------------------------
(***************************************************************************)
(* The debouncer of internal/daemon/build_debouncer.go: one goroutine (Run) *)
(* that coalesces BuildRequested events into BuildNow events.  A pending    *)
(* batch is emitted when no request has arrived for QuietWindow, when the   *)
(* batch is MaxDelay old, at once for an Immediate request, or, when a      *)
(* build is running, by polling every PollInterval until it has ended.      *)
(*                                                                         *)
(* Timers are countdowns; time passes in Tick, which waits for a timer that *)
(* has run out to be served.  The environment publishes requests, turns     *)
(* BuildNow events into builds, ends builds and cancels the context.        *)
(***************************************************************************)
EXTENDS Integers, Sequences

CONSTANTS
  JobIDs,        \* job identifiers a request can carry
  NoJob,         \* the empty job identifier
  Repos,         \* repositories a request can pin in its snapshot
  Commits,       \* commit identifiers
  NoCommit,      \* "this repository is not in the snapshot"
  QuietWindow, MaxDelay, PollInterval,
  ReqBuffer,     \* capacity of the BuildRequested subscription (64)
  NowBuffer      \* BuildNow events that fit on the way to a worker

ASSUME DebouncerAssumption ==
  /\ QuietWindow \in Nat \ {0} /\ MaxDelay \in Nat \ {0} /\ PollInterval \in Nat \ {0}
  /\ ReqBuffer \in Nat \ {0} /\ NowBuffer \in Nat \ {0}
  /\ NoJob \notin JobIDs /\ NoCommit \notin Commits

Off == -1                       \* a nil or drained timer channel

Snapshots == [Repos -> Commits \cup {NoCommit}]
NoSnapshot == [r \in Repos |-> NoCommit]
BuildRequested == [job : JobIDs \cup {NoJob}, immediate : BOOLEAN, snapshot : Snapshots]
BuildNow == [job : JobIDs \cup {NoJob}, snapshot : Snapshots]
Causes == {"immediate", "quiet", "max_delay", "after_running"}

VARIABLES
  at,                \* where Run is: init, select, tryEmit, publish, emitted, stopped
  cause,             \* the select case that called tryEmit
  pending, pendingAfterRun, pollingAfterRun, requestCount,
  age,               \* time since the first request of the batch was handled
  lastJobID, lastEmittedJobID, snapshot,
  quietC, maxC, pollC,
  reqCh, nowCh,      \* the two subscriptions' channels
  nowSub,            \* the BuildNow consumer has subscribed
  running,           \* what CheckBuildRunning reports
  ctxDone

loop   == <<at, cause>>
batch  == <<pending, pendingAfterRun, pollingAfterRun, requestCount, age,
            lastJobID, lastEmittedJobID, snapshot>>
timers == <<quietC, maxC, pollC>>
env    == <<reqCh, nowCh, nowSub, running, ctxDone>>
vars   == <<loop, batch, timers, env>>

Init ==
  /\ at = "init" /\ cause = "immediate"
  /\ pending = FALSE /\ pendingAfterRun = FALSE /\ pollingAfterRun = FALSE
  /\ requestCount = 0 /\ age = 0
  /\ lastJobID = NoJob /\ lastEmittedJobID = NoJob /\ snapshot = NoSnapshot
  /\ quietC = Off /\ maxC = Off /\ pollC = Off
  /\ reqCh = <<>> /\ nowCh = <<>> /\ nowSub = FALSE
  /\ running = FALSE /\ ctxDone = FALSE

-----------------------------------------------------------------------------
(* The lock-protected operations on the batch.                             *)

\* PlannedJobID: the identifier a trigger is told to reuse, if any.
PlannedJobID ==
  IF pending \/ pendingAfterRun THEN lastJobID ELSE NoJob

\* A request whose job was the last one emitted, with nothing pending.
Deduped(req) ==
  req.job # NoJob /\ req.job = lastEmittedJobID /\ ~pending

Merge(old, new) ==
  [r \in Repos |-> IF new[r] = NoCommit THEN old[r] ELSE new[r]]

\* Mutated form of OnRequest: the pins of a request replace those of the batch.
OnRequest_Replaces(req) ==
  IF Deduped(req)
  THEN UNCHANGED batch
  ELSE /\ pending' = TRUE
       /\ requestCount' = IF ~pending THEN 1 ELSE 2
       /\ age' = IF pending THEN age ELSE 0
       /\ snapshot' = req.snapshot
       /\ lastJobID' = req.job
       /\ UNCHANGED <<pendingAfterRun, pollingAfterRun, lastEmittedJobID>>

\* requestCount is only ever compared with 1, so it saturates at 2.
OnRequest(req) ==
  IF Deduped(req)
  THEN UNCHANGED batch
  ELSE /\ pending' = TRUE
       /\ requestCount' = IF ~pending THEN 1 ELSE 2
       /\ age' = IF pending THEN age ELSE 0
       /\ snapshot' = Merge(IF pending THEN snapshot ELSE NoSnapshot, req.snapshot)
       /\ lastJobID' = req.job
       /\ UNCHANGED <<pendingAfterRun, pollingAfterRun, lastEmittedJobID>>

\* Mutated form of PollAfterRun: a lost negation.
PollAfterRun_OnlyWhenPolling ==
  pollC' = IF pendingAfterRun' /\ pollingAfterRun' /\ pollC = Off THEN PollInterval ELSE pollC

\* shouldPollAfterRun and the arming of the poll timer that depends on it.
PollAfterRun ==
  pollC' = IF pendingAfterRun' /\ ~pollingAfterRun' /\ pollC = Off
           THEN PollInterval ELSE pollC

\* Mutated form of Returns: an emission leaves the max-delay timer running.
Returns_KeepsMaxTimer(emitted) ==
  /\ at' = "select" /\ UNCHANGED <<cause, maxC>>
  /\ IF emitted
     THEN quietC' = Off /\ pollC' = IF cause = "after_running" THEN Off ELSE pollC
     ELSE /\ UNCHANGED quietC
          /\ IF cause = "after_running" THEN pollC' = PollInterval ELSE PollAfterRun

\* What the select cases do with tryEmit's result.
Returns(emitted) ==
  /\ at' = "select" /\ UNCHANGED cause
  /\ IF emitted
     THEN /\ quietC' = Off /\ maxC' = Off
          /\ pollC' = IF cause = "after_running" THEN Off ELSE pollC
     ELSE /\ UNCHANGED <<quietC, maxC>>
          /\ IF cause = "after_running" THEN pollC' = PollInterval ELSE PollAfterRun

-----------------------------------------------------------------------------
(* The steps of Run.                                                       *)

Subscribe ==
  /\ at = "init" /\ at' = "select"
  /\ UNCHANGED <<cause, batch, timers, env>>

\* case req := <-reqCh
Receive ==
  /\ at = "select" /\ reqCh # <<>>
  /\ reqCh' = Tail(reqCh)
  /\ OnRequest(Head(reqCh))
  /\ IF Head(reqCh).immediate
     THEN at' = "tryEmit" /\ cause' = "immediate" /\ UNCHANGED timers
     ELSE /\ quietC' = QuietWindow
          /\ maxC' = IF pending' /\ requestCount' = 1 THEN MaxDelay ELSE maxC
          /\ PollAfterRun
          /\ UNCHANGED loop
  /\ UNCHANGED <<nowCh, nowSub, running, ctxDone>>

\* case <-quietC
QuietFires ==
  /\ at = "select" /\ quietC = 0
  /\ quietC' = Off /\ at' = "tryEmit" /\ cause' = "quiet"
  /\ UNCHANGED <<batch, maxC, pollC, env>>

\* Mutated form of MaxFires: the batch waits for its quiet window all the same.
MaxFires_WaitsForQuiet ==
  /\ at = "select" /\ maxC = 0
  /\ maxC' = Off
  /\ UNCHANGED <<loop, batch, quietC, pollC, env>>

\* case <-maxC
MaxFires ==
  /\ at = "select" /\ maxC = 0
  /\ maxC' = Off /\ at' = "tryEmit" /\ cause' = "max_delay"
  /\ UNCHANGED <<batch, quietC, pollC, env>>

\* case <-pollC: tryEmitAfterRunning up to its call of tryEmit
PollFires ==
  /\ at = "select" /\ pollC = 0
  /\ IF ~pendingAfterRun
     THEN /\ quietC' = Off /\ maxC' = Off /\ pollC' = Off
          /\ UNCHANGED <<loop, pollingAfterRun>>
     ELSE /\ pollingAfterRun' = TRUE
          /\ UNCHANGED <<quietC, maxC>>
          /\ IF running
             THEN pollC' = PollInterval /\ UNCHANGED loop
             ELSE pollC' = Off /\ at' = "tryEmit" /\ cause' = "after_running"
  /\ UNCHANGED <<pending, pendingAfterRun, requestCount, age,
                 lastJobID, lastEmittedJobID, snapshot, env>>

\* tryEmit up to the publication of BuildNow
TryEmit ==
  /\ at = "tryEmit"
  /\ \/ /\ ~pending
        /\ Returns(TRUE) /\ UNCHANGED batch
     \/ /\ pending /\ running
        /\ pendingAfterRun' = TRUE
        /\ UNCHANGED <<pending, pollingAfterRun, requestCount, age,
                       lastJobID, lastEmittedJobID, snapshot>>
        /\ Returns(FALSE)
     \/ /\ pending /\ ~running
        /\ at' = "publish" /\ UNCHANGED <<cause, batch, timers>>
  /\ UNCHANGED env

\* publishOrchestrationEventOnBus delivers; with no subscriber nothing does
PublishOk ==
  /\ at = "publish"
  /\ IF nowSub
     THEN /\ Len(nowCh) < NowBuffer
          /\ nowCh' = Append(nowCh, [job |-> lastJobID, snapshot |-> snapshot])
     ELSE UNCHANGED nowCh
  /\ at' = "emitted"
  /\ UNCHANGED <<cause, batch, timers, reqCh, nowSub, running, ctxDone>>

\* the consumer's channel stayed full for the publish timeout, or ctx ended
PublishFails ==
  /\ at = "publish"
  /\ (nowSub /\ Len(nowCh) = NowBuffer) \/ ctxDone
  /\ pendingAfterRun' = TRUE /\ pollingAfterRun' = FALSE
  /\ UNCHANGED <<pending, requestCount, age, lastJobID, lastEmittedJobID, snapshot>>
  /\ Returns(FALSE)
  /\ UNCHANGED env

\* tryEmit after a successful publication
Emitted ==
  /\ at = "emitted"
  /\ pending' = FALSE /\ pendingAfterRun' = FALSE /\ pollingAfterRun' = FALSE
  /\ lastEmittedJobID' = lastJobID
  /\ snapshot' = NoSnapshot
  /\ age' = 0        \* firstRequestAt has no meaning until the next batch
  /\ UNCHANGED <<requestCount, lastJobID>>
  /\ Returns(TRUE)
  /\ UNCHANGED env

\* case <-ctx.Done()
Done ==
  /\ at = "select" /\ ctxDone
  /\ at' = "stopped"
  /\ UNCHANGED <<cause, batch, timers, env>>

-----------------------------------------------------------------------------
(* The environment.                                                        *)

\* A trigger publishes a BuildRequested event that the bus delivers.
Request(req) ==
  /\ at \notin {"init", "stopped"}
  /\ Len(reqCh) < ReqBuffer
  /\ reqCh' = Append(reqCh, req)
  /\ UNCHANGED <<loop, batch, timers, nowCh, nowSub, running, ctxDone>>

ConsumerSubscribes ==
  /\ ~nowSub /\ nowSub' = TRUE
  /\ UNCHANGED <<loop, batch, timers, reqCh, nowCh, running, ctxDone>>

BuildStarts ==
  /\ ~running /\ nowCh # <<>>
  /\ running' = TRUE /\ nowCh' = Tail(nowCh)
  /\ UNCHANGED <<loop, batch, timers, reqCh, nowSub, ctxDone>>

BuildEnds ==
  /\ running /\ running' = FALSE
  /\ UNCHANGED <<loop, batch, timers, reqCh, nowCh, nowSub, ctxDone>>

Cancel ==
  /\ ~ctxDone /\ ctxDone' = TRUE
  /\ UNCHANGED <<loop, batch, timers, reqCh, nowCh, nowSub, running>>

Counted(t) == IF t > 0 THEN t - 1 ELSE t

\* Time passes while Run sleeps in its select or is blocked in Publish.
Tick ==
  /\ \/ at = "select" /\ ~ctxDone /\ 0 \notin {quietC, maxC, pollC}
     \/ at = "publish" /\ nowSub /\ Len(nowCh) = NowBuffer
  /\ quietC' = Counted(quietC) /\ maxC' = Counted(maxC) /\ pollC' = Counted(pollC)
  /\ age' = IF pending /\ age <= MaxDelay THEN age + 1 ELSE age
  /\ UNCHANGED <<loop, pending, pendingAfterRun, pollingAfterRun, requestCount,
                 lastJobID, lastEmittedJobID, snapshot, env>>

RunStep ==
  \/ Subscribe \/ Receive \/ QuietFires \/ MaxFires \/ PollFires
  \/ TryEmit \/ PublishOk \/ PublishFails \/ Emitted \/ Done

Next ==
  \/ RunStep
  \/ Tick
  \/ \E req \in BuildRequested : Request(req)
  \/ ConsumerSubscribes \/ BuildStarts \/ BuildEnds \/ Cancel

Spec == Init /\ [][Next]_vars

\* Go's select takes every case that stays or keeps becoming ready, the
\* scheduler runs the goroutine and time does not stop; a queued build is
\* started and every build ends.  Nothing forces a request or a cancellation.
Fairness ==
  /\ WF_vars(RunStep)
  /\ SF_vars(QuietFires) /\ SF_vars(MaxFires) /\ SF_vars(PollFires) /\ SF_vars(Done)
  /\ SF_vars(Tick)
  /\ WF_vars(BuildStarts) /\ WF_vars(BuildEnds)

FairSpec == Spec /\ Fairness

-----------------------------------------------------------------------------
(* Properties.                                                             *)

Timer(limit) == {Off} \cup (0 .. limit)

\* Every variable of the debouncer stays in the range its Go type and its
\* capacity give it.
TypeOK ==
  /\ at \in {"init", "select", "tryEmit", "publish", "emitted", "stopped"}
  /\ cause \in Causes
  /\ pending \in BOOLEAN /\ pendingAfterRun \in BOOLEAN /\ pollingAfterRun \in BOOLEAN
  /\ requestCount \in 0 .. 2 /\ age \in 0 .. (MaxDelay + 1)
  /\ lastJobID \in JobIDs \cup {NoJob} /\ lastEmittedJobID \in JobIDs \cup {NoJob}
  /\ snapshot \in Snapshots
  /\ quietC \in Timer(QuietWindow) /\ maxC \in Timer(MaxDelay) /\ pollC \in Timer(PollInterval)
  /\ reqCh \in Seq(BuildRequested) /\ Len(reqCh) <= ReqBuffer
  /\ nowCh \in Seq(BuildNow) /\ Len(nowCh) <= NowBuffer
  /\ nowSub \in BOOLEAN /\ running \in BOOLEAN /\ ctxDone \in BOOLEAN

\* A follow-up that waits for a running build is never forgotten: whenever Run
\* is back in its select with pendingAfterRun set, the poll timer is armed
\* (build_debouncer.go, shouldPollAfterRun and the pollC case).
FollowUpIsPolled ==
  at = "select" /\ pendingAfterRun => pollC # Off

\* The max-delay timer measures the age of the batch it was armed for: while it
\* runs for a batch that does not wait for a build, age and remaining time add
\* up to MaxDelay, so no quiet-window restart postpones the emission past it.
MaxDelayMeasuresBatch ==
  at = "select" /\ maxC # Off /\ ~pendingAfterRun => pending /\ age + maxC = MaxDelay

\* "max delay (cannot postpone indefinitely)": every batch is emitted, whatever
\* requests keep coming, unless Run is stopped; one that waits for a running build
\* is, once the build has ended.  Known exception: a poll timer that outlives the
\* follow-up it was armed for disarms the timers of a later batch.
PollIsForFollowUp == at = "select" /\ pollC # Off => pendingAfterRun
CannotPostponeIndefinitely ==
  /\ pendingAfterRun ~> (~pendingAfterRun \/ at = "stopped")
  /\ []PollIsForFollowUp => (pending ~> (~pending \/ at = "stopped"))

\* The batch as BuildCoalescing sees it: it has left as soon as its BuildNow is
\* published, though tryEmit clears it later.
C == INSTANCE BuildCoalescing WITH
       asked <- reqCh, sent <- nowCh, listening <- nowSub,
       batch <- IF pending /\ at # "emitted" THEN {[job |-> lastJobID, snapshot |-> snapshot]} ELSE {},
       last  <- IF at = "emitted" THEN lastJobID ELSE lastEmittedJobID

\* To whoever sends requests and receives BuildNow events, the loop, its timers
\* and the postponing behind running builds are a store of one batch that leaves in
\* one step: no request is lost, none is built with two batches, and a batch has the
\* commits that were pinned last (onRequest and tryEmit).
Coalesces == C!Spec
=============================================================================
