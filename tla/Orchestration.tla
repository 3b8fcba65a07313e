---------------------------- MODULE Orchestration ----------------------------
(***************************************************************************)
(* How the daemon turns triggers into builds (daemon_triggers.go,           *)
(* daemon_loop.go, discovery_callbacks.go, webhook_received_consumer.go,    *)
(* repo_updater.go, orchestrated_builds.go): a trigger asks the debouncer   *)
(* for its planned job ID and then publishes; a webhook goes through the    *)
(* repository updater; the debouncer (BuildDebouncer) emits BuildNow        *)
(* events; a consumer enqueues jobs; workers build them.                    *)
(***************************************************************************)
EXTENDS Integers, Sequences, FiniteSets

CONSTANTS
  Triggers,      \* trigger calls, each made once; t is also the ID it generates
  Kind,          \* Kind[t]: "manual", "initial", "scheduled", "discovery" or "webhook"
  Target,        \* Target[t]: the repository a webhook is about
  NoJob, Repos, NoCommit,
  MaxCommit,     \* bound: commits of a repository are 1 .. MaxCommit
  CachedHead,    \* CachedHead[r]: the updater's remote-heads.json, or NoCommit
  Workers,       \* concurrent_builds
  QuietWindow, MaxDelay, PollInterval, ReqBuffer, NowBuffer

Commits == 1 .. MaxCommit

ASSUME OrchestrationAssumption ==
  /\ NoJob \notin Triggers /\ MaxCommit \in Nat \ {0} /\ NoCommit \notin Commits
  /\ Kind \in [Triggers -> {"manual", "initial", "scheduled", "discovery", "webhook"}]
  /\ Target \in [Triggers -> Repos] /\ CachedHead \in [Repos -> Commits \cup {NoCommit}]
  /\ {QuietWindow, MaxDelay, PollInterval, ReqBuffer, NowBuffer} \subseteq Nat \ {0}

VARIABLES
  at, cause, pending, pendingAfterRun, pollingAfterRun, requestCount, age,
  lastJobID, lastEmittedJobID, snapshot, quietC, maxC, pollC,
  reqCh, nowCh, nowSub, ctxDone,
  call,        \* where trigger t is
  id,          \* the job ID trigger t publishes and returns
  hookCh,      \* WebhookReceived events
  updCh,       \* RepoUpdateRequested events
  updating,    \* the request the updater is handling, with the head it saw
  head,        \* the remote HEAD of each repository
  queue,       \* jobs waiting in the build queue
  slot,        \* slot[w]: the job worker w is building
  active,      \* the IDs in the queue's active map
  site,        \* the commit of each repository in the published site
  heard,       \* triggers whose request found the debouncer subscribed
  covered,     \* triggers after whose call a batch has been closed as emitted
  seen         \* seen[r]: the last head of r the updater saw

debouncer == <<at, cause, pending, pendingAfterRun, pollingAfterRun, requestCount, age,
               lastJobID, lastEmittedJobID, snapshot, quietC, maxC, pollC, nowSub, ctxDone>>
triggers == <<call, id, heard>>
updates == <<hookCh, updCh, updating, head, seen>>
builds == <<queue, slot, active, site>>
vars == <<debouncer, reqCh, nowCh, triggers, updates, builds, covered>>

\* CheckBuildRunning: the queue has active jobs; queued ones do not count.
CheckBuildRunning == active # {}

D == INSTANCE BuildDebouncer WITH JobIDs <- Triggers, running <- CheckBuildRunning

NoSnapshot == [r \in Repos |-> NoCommit]
NoBuild == [job |-> NoJob, snapshot |-> NoSnapshot]
Idle == [job |-> NoJob, repo |-> NoJob, pin |-> NoCommit]

Init ==
  /\ call = [t \in Triggers |-> "idle"] /\ id = [t \in Triggers |-> NoJob]
  /\ hookCh = <<>> /\ updCh = <<>> /\ updating = Idle
  /\ head = [r \in Repos |-> 1] /\ site = [r \in Repos |-> 1]
  /\ queue = <<>> /\ slot = [w \in Workers |-> NoBuild] /\ active = {}
  /\ heard = {} /\ covered = {} /\ seen = [r \in Repos |-> NoCommit]
  /\ D!Init

-----------------------------------------------------------------------------
(* Triggers.                                                               *)

\* Mutated form of TriggerReads: the trigger takes over the last emitted ID.
TriggerReads_LastEmitted(t) ==
  /\ call[t] = "idle"
  /\ call' = [call EXCEPT ![t] = "read"]
  /\ id' = [id EXCEPT ![t] = IF lastEmittedJobID = NoJob THEN t ELSE lastEmittedJobID]
  /\ UNCHANGED <<debouncer, heard, reqCh, nowCh, updates, builds, covered>>

\* Every trigger first asks for the planned job ID, or makes one of its own.
TriggerReads(t) ==
  /\ call[t] = "idle"
  /\ call' = [call EXCEPT ![t] = "read"]
  /\ id' = [id EXCEPT ![t] = IF D!PlannedJobID = NoJob THEN t ELSE D!PlannedJobID]
  /\ UNCHANGED <<debouncer, heard, reqCh, nowCh, updates, builds, covered>>

\* Publishing a BuildRequested; the bus has nobody to give it to before Run
\* has subscribed.
Publish(job, immediate, pins) ==
  IF at = "init"
  THEN UNCHANGED reqCh
  ELSE /\ Len(reqCh) < ReqBuffer
       /\ reqCh' = Append(reqCh, [job |-> job, immediate |-> immediate, snapshot |-> pins])

\* TriggerBuild, requestInitialBuild, triggerScheduledBuildForExplicitRepos
\* and onDiscoveryBuildRequest.
TriggerPublishes(t) ==
  /\ call[t] = "read" /\ Kind[t] # "webhook"
  /\ Publish(id[t], Kind[t] \in {"manual", "initial"}, NoSnapshot)
  /\ heard' = IF at = "init" THEN heard ELSE heard \cup {t}
  /\ call' = [call EXCEPT ![t] = "done"]
  /\ UNCHANGED <<debouncer, nowCh, id, updates, builds, covered>>

\* TriggerWebhookBuild.
WebhookPublishes(t) ==
  /\ call[t] = "read" /\ Kind[t] = "webhook"
  /\ hookCh' = Append(hookCh, [job |-> id[t], repo |-> Target[t]])
  /\ call' = [call EXCEPT ![t] = "done"]
  /\ UNCHANGED <<debouncer, reqCh, nowCh, id, heard, updCh, updating, head, seen, builds, covered>>

\* handleWebhookReceived: no repository, branch or docs path matches.
WebhookIgnored ==
  /\ hookCh # <<>> /\ hookCh' = Tail(hookCh)
  /\ UNCHANGED <<debouncer, reqCh, nowCh, triggers, updCh, updating, head, seen, builds, covered>>

WebhookMatched ==
  /\ hookCh # <<>> /\ hookCh' = Tail(hookCh)
  /\ updCh' = Append(updCh, Head(hookCh))
  /\ UNCHANGED <<debouncer, reqCh, nowCh, triggers, updating, head, seen, builds, covered>>

-----------------------------------------------------------------------------
(* RepoUpdater.handleRequest.                                              *)

\* CheckRemoteChanged: the remote's HEAD against the cached one.
UpdaterSeesChange ==
  /\ updating = Idle /\ updCh # <<>> /\ updCh' = Tail(updCh)
  /\ LET r == Head(updCh).repo
     IN  /\ CachedHead[r] # head[r]
         /\ updating' = [job |-> Head(updCh).job, repo |-> r, pin |-> head[r]]
         /\ seen' = [seen EXCEPT ![r] = head[r]]
  /\ UNCHANGED <<debouncer, reqCh, nowCh, triggers, hookCh, head, builds, covered>>

\* ls-remote failed: assumed changed, with no commit to pin.
UpdaterCannotTell ==
  /\ updating = Idle /\ updCh # <<>> /\ updCh' = Tail(updCh)
  /\ updating' = [job |-> Head(updCh).job, repo |-> Head(updCh).repo, pin |-> NoCommit]
  /\ UNCHANGED <<debouncer, reqCh, nowCh, triggers, hookCh, head, seen, builds, covered>>

UpdaterSeesNoChange ==
  /\ updating = Idle /\ updCh # <<>> /\ updCh' = Tail(updCh)
  /\ CachedHead[Head(updCh).repo] = head[Head(updCh).repo]
  /\ UNCHANGED <<debouncer, reqCh, nowCh, triggers, hookCh, updating, head, seen, builds, covered>>

UpdaterPublishes ==
  /\ updating # Idle /\ updating' = Idle
  /\ Publish(updating.job, TRUE, [NoSnapshot EXCEPT ![updating.repo] = updating.pin])
  /\ UNCHANGED <<debouncer, nowCh, triggers, hookCh, updCh, head, seen, builds, covered>>

Push(r) ==
  /\ head[r] < MaxCommit
  /\ head' = [head EXCEPT ![r] = @ + 1]
  /\ UNCHANGED <<debouncer, reqCh, nowCh, triggers, hookCh, updCh, updating, seen, builds, covered>>

-----------------------------------------------------------------------------
(* From BuildNow to the site.                                              *)

\* runBuildNowConsumer and enqueueOrchestratedBuild.
Enqueue ==
  /\ nowCh # <<>> /\ nowCh' = Tail(nowCh)
  /\ queue' = Append(queue, Head(nowCh))
  /\ UNCHANGED <<debouncer, reqCh, triggers, updates, slot, active, site, covered>>

\* A worker takes a job and registers it as active.
BuildStarts(w) ==
  /\ slot[w] = NoBuild /\ queue # <<>>
  /\ queue' = Tail(queue)
  /\ slot' = [slot EXCEPT ![w] = Head(queue)]
  /\ active' = active \cup {Head(queue).job}
  /\ UNCHANGED <<debouncer, reqCh, nowCh, triggers, updates, site, covered>>

\* The build publishes the pinned commits, and the heads where none is pinned;
\* markJobCompleted removes the ID from the active map.
BuildEnds(w) ==
  /\ slot[w] # NoBuild
  /\ site' = [r \in Repos |-> IF slot[w].snapshot[r] = NoCommit THEN head[r] ELSE slot[w].snapshot[r]]
  /\ active' = active \ {slot[w].job}
  /\ slot' = [slot EXCEPT ![w] = NoBuild]
  /\ UNCHANGED <<debouncer, reqCh, nowCh, triggers, updates, queue, covered>>

-----------------------------------------------------------------------------
\* The debouncer's own steps; requests and builds are the actions above.
DebouncerStep ==
  /\ UNCHANGED <<triggers, updates, builds>>
  /\ covered' = IF at = "emitted" THEN covered \cup {t \in Triggers : call[t] # "idle"} ELSE covered
  /\ D!RunStep \/ D!Tick \/ D!ConsumerSubscribes

Next ==
  \/ \E t \in Triggers : TriggerReads(t) \/ TriggerPublishes(t) \/ WebhookPublishes(t)
  \/ WebhookIgnored \/ WebhookMatched
  \/ UpdaterSeesChange \/ UpdaterCannotTell \/ UpdaterSeesNoChange \/ UpdaterPublishes
  \/ \E r \in Repos : Push(r)
  \/ Enqueue
  \/ \E w \in Workers : BuildStarts(w) \/ BuildEnds(w)
  \/ DebouncerStep

Spec == Init /\ [][Next]_vars

-----------------------------------------------------------------------------
(* Properties.                                                             *)

Jobs == [job : Triggers \cup {NoJob}, snapshot : D!Snapshots]

\* The debouncer's types, and those of the triggers, updates and builds.
TypeOK ==
  /\ D!TypeOK
  /\ call \in [Triggers -> {"idle", "read", "done"}]
  /\ id \in [Triggers -> Triggers \cup {NoJob}]
  /\ \A t \in Triggers : call[t] = "idle" <=> id[t] = NoJob
  /\ head \in [Repos -> Commits] /\ site \in [Repos -> Commits]
  /\ queue \in Seq(Jobs) /\ slot \in [Workers -> Jobs]
  /\ seen \in [Repos -> Commits \cup {NoCommit}]
  /\ active \subseteq Triggers /\ heard \subseteq Triggers /\ covered \subseteq Triggers
  /\ active \subseteq {slot[w].job : w \in Workers}

\* Nothing is under way: no event, batch or job is left.
Quiet ==
  /\ at = "select" /\ ~pending /\ reqCh = <<>> /\ nowCh = <<>>
  /\ hookCh = <<>> /\ updCh = <<>> /\ updating = Idle
  /\ queue = <<>> /\ \A w \in Workers : slot[w] = NoBuild

\* A request is dropped as a duplicate only when the batch it was planned into
\* was emitted after its trigger was called: when the daemon is quiet again, a
\* batch has been emitted since the call of every trigger the debouncer heard.
TriggerIsCovered == Quiet => heard \subseteq covered

\* Between the triggers and the queue the debouncer is a store of one batch
\* (BuildCoalescing): every request published joins the batch that waits or opens
\* one, unless it asks for the batch that left last; a batch leaves once, with all
\* that was pinned, however reads of the planned ID, timers and builds interleave.
Coalesces == D!Coalesces
=============================================================================
