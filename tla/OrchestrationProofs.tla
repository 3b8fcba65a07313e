------------------------- MODULE OrchestrationProofs -------------------------
(***************************************************************************)
(* Proofs about Orchestration for every set of triggers, repositories and   *)
(* workers and every buffer size and delay: the composition is type         *)
(* correct, the debouncer keeps its own guarantees inside it, and no        *)
(* trigger's request is dropped as a duplicate of a batch that was emitted  *)
(* before the trigger was called.                                           *)
(***************************************************************************)
EXTENDS Orchestration, TLAPS

DP == INSTANCE BuildDebouncerProofs WITH JobIDs <- Triggers, running <- CheckBuildRunning

(* The triggers that have been called.                                      *)
Called == {t \in Triggers : call[t] # "idle"}

(* Events and jobs about the triggers of a set C.                           *)
RequestsOf(C) == [job : C, immediate : BOOLEAN, snapshot : D!Snapshots]
JobsOf(C) == [job : C, snapshot : D!Snapshots]
HooksOf(C) == [job : C, repo : Repos]
UpdatesOf(C) == [job : C, repo : Repos, pin : Commits \cup {NoCommit}]

(* A job ID is on its way only after the trigger that made it was called,   *)
(* and only a trigger that has not been called has none.                    *)
IDsAreCalled ==
  /\ call \in [Triggers -> {"idle", "read", "done"}] /\ id \in [Triggers -> Called \cup {NoJob}]
  /\ \A t \in Triggers : call[t] = "idle" <=> id[t] = NoJob
  /\ reqCh \in Seq(RequestsOf(Called)) /\ nowCh \in Seq(JobsOf(Called))
  /\ hookCh \in Seq(HooksOf(Called)) /\ updCh \in Seq(HooksOf(Called))
  /\ updating \in UpdatesOf(Called) \cup {Idle}
  /\ lastJobID \in Called \cup {NoJob} /\ lastEmittedJobID \in Called \cup {NoJob}
  /\ pending => lastJobID # NoJob
  /\ heard \subseteq Called /\ covered \subseteq Called

(* The build side: what is active is being built by some worker.            *)
BuildsAreCalled ==
  /\ queue \in Seq(JobsOf(Called)) /\ slot \in [Workers -> JobsOf(Called) \cup {NoBuild}]
  /\ active \subseteq Called /\ active \subseteq {slot[w].job : w \in Workers}
  /\ head \in [Repos -> Commits] /\ site \in [Repos -> Commits]
  /\ seen \in [Repos -> Commits \cup {NoCommit}]

(* A trigger since whose call nothing was emitted may have the ID of the    *)
(* last emitted batch only as the planned ID of a batch that is pending.    *)
LastIsOlder == \A t \in Called \ covered : id[t] = lastEmittedJobID => pending

(* Its request is in the channel or has opened or joined the pending batch. *)
HeardIsHeld ==
  \A t \in heard \ covered : pending \/ \E i \in 1 .. Len(reqCh) : reqCh[i].job = id[t]

IInv == DP!IInv /\ IDsAreCalled /\ BuildsAreCalled /\ LastIsOlder /\ HeardIsHeld

-----------------------------------------------------------------------------
LEMMA SeqGrows ==
  ASSUME NEW S, NEW T, S \subseteq T, NEW s \in Seq(S)
  PROVE  s \in Seq(T)
  OBVIOUS

LEMMA TailFacts ==
  ASSUME NEW S, NEW s \in Seq(S), s # <<>>
  PROVE  /\ Tail(s) \in Seq(S) /\ Head(s) \in S /\ Len(s) \in Nat \ {0} /\ Len(Tail(s)) = Len(s) - 1
         /\ Head(s) = s[1] /\ \A i \in 1 .. Len(s) : i # 1 => i - 1 \in 1 .. Len(Tail(s)) /\ Tail(s)[i - 1] = s[i]
  OBVIOUS

LEMMA AppendFacts ==
  ASSUME NEW S, NEW s \in Seq(S), NEW e \in S
  PROVE  /\ Append(s, e) \in Seq(S) /\ Len(Append(s, e)) = Len(s) + 1 /\ Len(s) \in Nat
         /\ Append(s, e)[Len(s) + 1] = e
         /\ \A i \in 1 .. Len(s) : i \in 1 .. Len(Append(s, e)) /\ Append(s, e)[i] = s[i]
  OBVIOUS

LEMMA DebouncerNext ==
  ASSUME D!RunStep \/ D!Tick \/ D!ConsumerSubscribes
  PROVE  DP!Next
<1>1. D!RunStep \/ D!Tick \/ D!ConsumerSubscribes => DP!RunStep \/ DP!Tick \/ DP!ConsumerSubscribes
  BY DEF D!RunStep, DP!RunStep, D!Subscribe, DP!Subscribe, D!Receive, DP!Receive, D!QuietFires,
     DP!QuietFires, D!MaxFires, DP!MaxFires, D!PollFires, DP!PollFires, D!TryEmit, DP!TryEmit,
     D!PublishOk, DP!PublishOk, D!PublishFails, DP!PublishFails, D!Emitted, DP!Emitted, D!Done,
     DP!Done, D!Tick, DP!Tick, D!ConsumerSubscribes, DP!ConsumerSubscribes, D!OnRequest,
     DP!OnRequest, D!Deduped, DP!Deduped, D!Merge, DP!Merge, D!PollAfterRun, DP!PollAfterRun,
     D!Returns, DP!Returns, D!Counted, DP!Counted, D!Off, DP!Off, D!NoSnapshot, DP!NoSnapshot,
     D!loop, DP!loop, D!batch, DP!batch, D!timers, DP!timers, D!env, DP!env
<1> QED BY <1>1 DEF DP!Next

LEMMA DebouncerSteps ==
  ASSUME DP!IInv, UNCHANGED active, D!RunStep \/ D!Tick \/ D!ConsumerSubscribes
  PROVE  DP!IInv'
<1>1. DP!DebouncerAssumption
  BY OrchestrationAssumption DEF DP!DebouncerAssumption
<1> QED BY <1>1, DebouncerNext, DP!StepIInv

LEMMA DebouncerInit == D!Init => DP!IInv
<1>1. DP!DebouncerAssumption
  BY OrchestrationAssumption DEF DP!DebouncerAssumption
<1>2. D!Init => DP!Init
  BY DEF D!Init, DP!Init, D!Off, DP!Off, D!NoSnapshot, DP!NoSnapshot
<1> QED BY <1>1, <1>2, DP!InitIInv

(* The debouncer does not notice what happens around its channels.          *)
LEMMA DebouncerKept ==
  ASSUME DP!IInv, UNCHANGED debouncer,
         reqCh' \in Seq(D!BuildRequested), Len(reqCh') <= ReqBuffer,
         nowCh' \in Seq(D!BuildNow), Len(nowCh') <= NowBuffer
  PROVE  DP!IInv'
<1>1. D!BuildRequested = DP!BuildRequested /\ D!BuildNow = DP!BuildNow
  BY DEF D!BuildRequested, DP!BuildRequested, D!BuildNow, DP!BuildNow, D!Snapshots, DP!Snapshots
<1>2. CheckBuildRunning' \in BOOLEAN
  BY DEF CheckBuildRunning
<1>3. DP!TypeOK'
  BY <1>1, <1>2 DEF DP!IInv, DP!TypeOK, debouncer
<1>4. DP!WaitingIsPending' /\ DP!PollArmed' /\ DP!MaxArmed'
  BY DEF DP!IInv, DP!WaitingIsPending, DP!PollArmed, DP!MaxArmed, debouncer
<1> QED BY <1>3, <1>4 DEF DP!IInv

(* What the rest of the proof uses of the debouncer's invariant.            *)
LEMMA DebouncerFacts ==
  ASSUME DP!IInv
  PROVE  /\ pendingAfterRun => pending
         /\ at \in {"publish", "emitted"} => pending
         /\ pending \in BOOLEAN /\ snapshot \in D!Snapshots
         /\ reqCh \in Seq(D!BuildRequested) /\ Len(reqCh) <= ReqBuffer
         /\ nowCh \in Seq(D!BuildNow) /\ Len(nowCh) <= NowBuffer
  BY DEF DP!IInv, DP!WaitingIsPending, DP!TypeOK, D!BuildRequested, DP!BuildRequested,
     D!BuildNow, DP!BuildNow, D!Snapshots, DP!Snapshots

LEMMA InitIInv == Init => IInv
<1> SUFFICES ASSUME Init PROVE IInv
  OBVIOUS
<1> USE OrchestrationAssumption
<1>1. DP!IInv
  BY DebouncerInit DEF Init
<1>2. Called = {}
  BY DEF Init, Called
<1>3. IDsAreCalled
  BY <1>2 DEF Init, D!Init, IDsAreCalled
<1>4. BuildsAreCalled
  BY <1>2 DEF Init, BuildsAreCalled, Commits
<1>5. LastIsOlder /\ HeardIsHeld
  BY <1>2 DEF Init, LastIsOlder, HeardIsHeld
<1> QED BY <1>1, <1>3, <1>4, <1>5 DEF IInv

(* A trigger asks for its ID: the planned one, or its own, which nothing    *)
(* has carried before.                                                      *)
LEMMA ReadStep ==
  ASSUME IInv, NEW t \in Triggers, TriggerReads(t)
  PROVE  IInv'
<1> USE OrchestrationAssumption
<1>1. /\ call[t] = "idle" /\ call' = [call EXCEPT ![t] = "read"]
      /\ id' = [id EXCEPT ![t] = IF D!PlannedJobID = NoJob THEN t ELSE D!PlannedJobID]
      /\ UNCHANGED <<debouncer, heard, reqCh, nowCh, updates, builds, covered>>
  BY DEF TriggerReads
<1>2. Called' = Called \cup {t} /\ t \notin Called
  BY <1>1 DEF Called, IInv, IDsAreCalled
<1>3. DP!IInv'
  BY <1>1, DebouncerFacts, DebouncerKept DEF IInv
<1>4. /\ id'[t] \in Called' /\ id'[t] # NoJob /\ \A x \in Triggers : x # t => id'[x] = id[x] /\ call'[x] = call[x]
      /\ id'[t] = t \/ (pending /\ id'[t] = lastJobID)
  <2>1. id'[t] = IF D!PlannedJobID = NoJob THEN t ELSE D!PlannedJobID
    BY <1>1 DEF IInv, IDsAreCalled
  <2>2. D!PlannedJobID # NoJob => pending /\ D!PlannedJobID = lastJobID
    BY DebouncerFacts DEF D!PlannedJobID, IInv
  <2>3. \A x \in Triggers : x # t => id'[x] = id[x] /\ call'[x] = call[x]
    BY <1>1 DEF IInv, IDsAreCalled
  <2>4. D!PlannedJobID # NoJob => D!PlannedJobID \in Called
    BY <2>2 DEF IInv, IDsAreCalled
  <2> QED BY <2>1, <2>2, <2>3, <2>4, <1>2
<1>5. IDsAreCalled'
  <2>1. /\ call' \in [Triggers -> {"idle", "read", "done"}] /\ id' \in [Triggers -> Called' \cup {NoJob}]
        /\ \A x \in Triggers : call'[x] = "idle" <=> id'[x] = NoJob
    BY <1>1, <1>2, <1>4 DEF IInv, IDsAreCalled
  <2>2. /\ RequestsOf(Called) \subseteq RequestsOf(Called') /\ JobsOf(Called) \subseteq JobsOf(Called')
        /\ HooksOf(Called) \subseteq HooksOf(Called') /\ UpdatesOf(Called) \subseteq UpdatesOf(Called')
    BY <1>2 DEF RequestsOf, JobsOf, HooksOf, UpdatesOf
  <2>3. reqCh' \in Seq(RequestsOf(Called')) /\ nowCh' \in Seq(JobsOf(Called'))
    BY <1>1, <2>2, SeqGrows DEF IInv, IDsAreCalled
  <2>4. hookCh' \in Seq(HooksOf(Called')) /\ updCh' \in Seq(HooksOf(Called'))
    BY <1>1, <2>2, SeqGrows DEF IInv, IDsAreCalled, updates
  <2>5. updating' \in UpdatesOf(Called') \cup {Idle}
    BY <1>1, <2>2 DEF IInv, IDsAreCalled, updates
  <2> QED BY <1>1, <1>2, <2>1, <2>3, <2>4, <2>5
          DEF IInv, IDsAreCalled, debouncer, RequestsOf, JobsOf, HooksOf, UpdatesOf, D!Snapshots
<1>6. BuildsAreCalled'
  <2>1. JobsOf(Called) \subseteq JobsOf(Called')
    BY <1>2 DEF JobsOf
  <2>2. queue' \in Seq(JobsOf(Called'))
    BY <1>1, <2>1, SeqGrows DEF IInv, BuildsAreCalled, builds
  <2>3. slot' \in [Workers -> JobsOf(Called') \cup {NoBuild}]
    BY <1>1, <2>1 DEF IInv, BuildsAreCalled, builds
  <2> QED BY <1>1, <1>2, <2>2, <2>3 DEF IInv, BuildsAreCalled, builds, updates, JobsOf
<1>7. LastIsOlder'
  <2> SUFFICES ASSUME NEW x \in Called' \ covered, id'[x] = lastEmittedJobID PROVE pending
    BY <1>1 DEF LastIsOlder, debouncer
  <2>1. CASE x = t
    BY <2>1, <1>2, <1>4 DEF IInv, IDsAreCalled
  <2>2. CASE x # t
    <3>1. x \in Called /\ x \in Triggers /\ id[x] = lastEmittedJobID
      BY <2>2, <1>2, <1>4 DEF Called
    <3> QED BY <3>1 DEF IInv, LastIsOlder
  <2> QED BY <2>1, <2>2
<1>8. HeardIsHeld'
  <2>1. \A x \in heard : x # t /\ id'[x] = id[x]
    BY <1>2, <1>4 DEF IInv, IDsAreCalled, Called
  <2>2. UNCHANGED <<heard, covered, pending, reqCh>>
    BY <1>1 DEF debouncer
  <2> QED BY <2>1, <2>2 DEF IInv, HeardIsHeld
<1> QED BY <1>3, <1>5, <1>6, <1>7, <1>8 DEF IInv

(* A request that is published goes behind the ones in the channel.         *)
LEMMA PublishFacts ==
  ASSUME IInv, NEW job \in Called, NEW immediate \in BOOLEAN, NEW pins \in D!Snapshots,
         Publish(job, immediate, pins)
  PROVE  /\ reqCh' \in Seq(RequestsOf(Called)) /\ reqCh' \in Seq(D!BuildRequested) /\ Len(reqCh') <= ReqBuffer
         /\ \A i \in 1 .. Len(reqCh) : i \in 1 .. Len(reqCh') /\ reqCh'[i] = reqCh[i]
         /\ at # "init" => \E i \in 1 .. Len(reqCh') : reqCh'[i].job = job
<1> USE OrchestrationAssumption
<1> DEFINE e == [job |-> job, immediate |-> immediate, snapshot |-> pins]
<1>1. e \in RequestsOf(Called) /\ e.job = job
  BY DEF RequestsOf
<1>2. reqCh \in Seq(RequestsOf(Called)) /\ Len(reqCh) <= ReqBuffer
  BY DebouncerFacts DEF IInv, IDsAreCalled
<1>3. RequestsOf(Called) \subseteq D!BuildRequested
  BY DEF RequestsOf, D!BuildRequested, Called
<1>4. CASE at = "init"
  BY <1>2, <1>3, <1>4, SeqGrows DEF Publish
<1>5. CASE at # "init"
  <2>1. Len(reqCh) < ReqBuffer /\ reqCh' = Append(reqCh, e)
    BY <1>5 DEF Publish
  <2> HIDE DEF e
  <2>2. /\ reqCh' \in Seq(RequestsOf(Called)) /\ Len(reqCh') = Len(reqCh) + 1 /\ Len(reqCh) \in Nat
        /\ reqCh'[Len(reqCh) + 1] = e
        /\ \A i \in 1 .. Len(reqCh) : i \in 1 .. Len(reqCh') /\ reqCh'[i] = reqCh[i]
    BY <2>1, <1>1, <1>2, AppendFacts
  <2>3. Len(reqCh) + 1 \in 1 .. Len(reqCh') /\ reqCh'[Len(reqCh) + 1].job = job /\ Len(reqCh') <= ReqBuffer
    BY <2>1, <2>2, <1>1
  <2> QED BY <2>2, <2>3, <1>3, SeqGrows
<1> QED BY <1>4, <1>5

LEMMA PublishStep ==
  ASSUME IInv, NEW t \in Triggers, TriggerPublishes(t)
  PROVE  IInv'
<1> USE OrchestrationAssumption
<1>1. /\ call[t] = "read" /\ call' = [call EXCEPT ![t] = "done"]
      /\ heard' = IF at = "init" THEN heard ELSE heard \cup {t}
      /\ Publish(id[t], Kind[t] \in {"manual", "initial"}, NoSnapshot)
      /\ UNCHANGED <<debouncer, nowCh, id, updates, builds, covered>>
  BY DEF TriggerPublishes
<1>2. Called' = Called /\ t \in Called /\ call' \in [Triggers -> {"idle", "read", "done"}]
      /\ \A x \in Triggers : call'[x] = "idle" <=> call[x] = "idle"
  BY <1>1 DEF Called, IInv, IDsAreCalled
<1>3. id[t] \in Called
  BY <1>1 DEF IInv, IDsAreCalled
<1>4. NoSnapshot \in D!Snapshots
  BY DEF NoSnapshot, D!Snapshots
<1>5. /\ reqCh' \in Seq(RequestsOf(Called)) /\ reqCh' \in Seq(D!BuildRequested) /\ Len(reqCh') <= ReqBuffer
      /\ \A i \in 1 .. Len(reqCh) : i \in 1 .. Len(reqCh') /\ reqCh'[i] = reqCh[i]
      /\ at # "init" => \E i \in 1 .. Len(reqCh') : reqCh'[i].job = id[t]
  <2> DEFINE immediate == Kind[t] \in {"manual", "initial"}
  <2>1. immediate \in BOOLEAN /\ Publish(id[t], immediate, NoSnapshot)
    BY <1>1
  <2> HIDE DEF immediate
  <2> QED BY <2>1, <1>3, <1>4, PublishFacts
<1>6. DP!IInv'
  BY <1>1, <1>5, DebouncerFacts, DebouncerKept DEF IInv
<1>7. IDsAreCalled'
  BY <1>1, <1>2, <1>5 DEF IInv, IDsAreCalled, debouncer, updates, RequestsOf, JobsOf, HooksOf, UpdatesOf, D!Snapshots
<1>8. BuildsAreCalled' /\ LastIsOlder'
  BY <1>1, <1>2 DEF IInv, BuildsAreCalled, LastIsOlder, debouncer, updates, builds, JobsOf
<1>9. HeardIsHeld'
  <2>0. UNCHANGED <<pending, id, covered>>
    BY <1>1 DEF debouncer
  <2> SUFFICES ASSUME NEW x \in heard' \ covered, ~pending
               PROVE  \E i \in 1 .. Len(reqCh') : reqCh'[i].job = id[x]
    BY <2>0 DEF HeardIsHeld
  <2>1. CASE x \in heard
    BY <2>1, <1>5 DEF IInv, HeardIsHeld
  <2>2. CASE x \notin heard
    BY <2>2, <1>1, <1>5
  <2> QED BY <2>1, <2>2
<1> QED BY <1>6, <1>7, <1>8, <1>9 DEF IInv

(* Webhooks and the updater up to the publication, and pushes.              *)
LEMMA UpdateSteps ==
  ASSUME IInv,
         \/ \E t \in Triggers : WebhookPublishes(t)
         \/ WebhookIgnored \/ WebhookMatched \/ UpdaterSeesChange \/ UpdaterCannotTell \/ UpdaterSeesNoChange
         \/ \E r \in Repos : Push(r)
  PROVE  IInv'
<1> USE OrchestrationAssumption
<1>1. UNCHANGED <<debouncer, reqCh, nowCh, id, heard, builds, covered>>
  BY DEF WebhookPublishes, WebhookIgnored, WebhookMatched, UpdaterSeesChange, UpdaterCannotTell,
     UpdaterSeesNoChange, Push, triggers
<1>2. call' = call \/ \E t \in Triggers : call[t] = "read" /\ call' = [call EXCEPT ![t] = "done"]
  BY DEF WebhookPublishes, WebhookIgnored, WebhookMatched, UpdaterSeesChange, UpdaterCannotTell,
     UpdaterSeesNoChange, Push, triggers
<1>3. Called' = Called /\ call' \in [Triggers -> {"idle", "read", "done"}]
      /\ \A x \in Triggers : call'[x] = "idle" <=> call[x] = "idle"
  BY <1>2 DEF Called, IInv, IDsAreCalled
<1>4. DP!IInv'
  BY <1>1, DebouncerFacts, DebouncerKept DEF IInv
<1>5. /\ hookCh \in Seq(HooksOf(Called)) /\ updCh \in Seq(HooksOf(Called))
      /\ updating \in UpdatesOf(Called) \cup {Idle}
      /\ head \in [Repos -> Commits] /\ seen \in [Repos -> Commits \cup {NoCommit}]
  BY DEF IInv, IDsAreCalled, BuildsAreCalled
<1>6. /\ hookCh' \in Seq(HooksOf(Called)) /\ updCh' \in Seq(HooksOf(Called))
      /\ updating' \in UpdatesOf(Called) \cup {Idle}
      /\ head' \in [Repos -> Commits] /\ seen' \in [Repos -> Commits \cup {NoCommit}]
  <2>1. ASSUME NEW t \in Triggers, WebhookPublishes(t) PROVE <1>6
    <3>1. [job |-> id[t], repo |-> Target[t]] \in HooksOf(Called)
      BY <2>1 DEF WebhookPublishes, HooksOf, IInv, IDsAreCalled
    <3> QED BY <2>1, <3>1, <1>5, AppendFacts DEF WebhookPublishes
  <2>2. CASE WebhookIgnored \/ WebhookMatched
    <3>1. hookCh # <<>> /\ hookCh' = Tail(hookCh) /\ UNCHANGED <<updating, head, seen>>
          /\ (updCh' = updCh \/ updCh' = Append(updCh, Head(hookCh)))
      BY <2>2 DEF WebhookIgnored, WebhookMatched
    <3>2. hookCh' \in Seq(HooksOf(Called)) /\ Head(hookCh) \in HooksOf(Called)
      BY <3>1, <1>5, TailFacts
    <3>3. updCh' \in Seq(HooksOf(Called))
      <4> DEFINE h == Head(hookCh)
      <4>1. h \in HooksOf(Called) /\ (updCh' = updCh \/ updCh' = Append(updCh, h))
        BY <3>1, <3>2
      <4> HIDE DEF h
      <4>2. Append(updCh, h) \in Seq(HooksOf(Called))
        BY <4>1, <1>5, AppendFacts
      <4> QED BY <4>1, <4>2, <1>5
    <3> QED BY <3>1, <3>2, <3>3, <1>5
  <2>3. CASE UpdaterSeesChange \/ UpdaterCannotTell \/ UpdaterSeesNoChange
    <3>1. /\ updCh # <<>> /\ updCh' = Tail(updCh) /\ UNCHANGED <<hookCh, head>>
      BY <2>3 DEF UpdaterSeesChange, UpdaterCannotTell, UpdaterSeesNoChange
    <3>2. updCh' \in Seq(HooksOf(Called)) /\ Head(updCh) \in HooksOf(Called)
      BY <3>1, <1>5, TailFacts
    <3>3. Head(updCh).job \in Called /\ Head(updCh).repo \in Repos /\ head[Head(updCh).repo] \in Commits
      BY <3>2, <1>5 DEF HooksOf
    <3>4. updating' \in UpdatesOf(Called) \cup {Idle}
      BY <2>3, <3>3, <1>5 DEF UpdaterSeesChange, UpdaterCannotTell, UpdaterSeesNoChange, UpdatesOf
    <3>5. seen' \in [Repos -> Commits \cup {NoCommit}]
      BY <2>3, <3>3, <1>5 DEF UpdaterSeesChange, UpdaterCannotTell, UpdaterSeesNoChange
    <3> QED BY <3>1, <3>2, <3>4, <3>5, <1>5
  <2>4. ASSUME NEW r \in Repos, Push(r) PROVE <1>6
    <3>1. head' \in [Repos -> Commits] /\ UNCHANGED <<hookCh, updCh, updating, seen>>
      BY <2>4, <1>5 DEF Push, Commits
    <3> QED BY <3>1, <1>5
  <2> QED BY <2>1, <2>2, <2>3, <2>4
<1>7. IDsAreCalled'
  BY <1>1, <1>3, <1>6 DEF IInv, IDsAreCalled, debouncer, RequestsOf, JobsOf, HooksOf, UpdatesOf, D!Snapshots
<1>8. BuildsAreCalled' /\ LastIsOlder' /\ HeardIsHeld'
  BY <1>1, <1>3, <1>6 DEF IInv, BuildsAreCalled, LastIsOlder, HeardIsHeld, debouncer, builds, JobsOf
<1> QED BY <1>4, <1>7, <1>8 DEF IInv

LEMMA UpdaterPublishStep ==
  ASSUME IInv, UpdaterPublishes
  PROVE  IInv'
<1> USE OrchestrationAssumption
<1> DEFINE pins == [NoSnapshot EXCEPT ![updating.repo] = updating.pin]
<1>1. /\ updating # Idle /\ updating' = Idle /\ Publish(updating.job, TRUE, pins)
      /\ UNCHANGED <<debouncer, nowCh, triggers, hookCh, updCh, head, seen, builds, covered>>
  BY DEF UpdaterPublishes
<1>2. updating.job \in Called /\ updating.repo \in Repos /\ updating.pin \in Commits \cup {NoCommit}
  BY <1>1 DEF IInv, IDsAreCalled, UpdatesOf
<1>3. pins \in D!Snapshots
  BY <1>2 DEF NoSnapshot, D!Snapshots
<1> HIDE DEF pins
<1>4. /\ reqCh' \in Seq(RequestsOf(Called)) /\ reqCh' \in Seq(D!BuildRequested) /\ Len(reqCh') <= ReqBuffer
      /\ \A i \in 1 .. Len(reqCh) : i \in 1 .. Len(reqCh') /\ reqCh'[i] = reqCh[i]
  BY <1>1, <1>2, <1>3, PublishFacts
<1>5. Called' = Called /\ UNCHANGED <<call, id, heard, covered, pending>>
  BY <1>1 DEF Called, triggers, debouncer
<1>6. DP!IInv'
  BY <1>1, <1>4, DebouncerFacts, DebouncerKept DEF IInv
<1>7. IDsAreCalled'
  BY <1>1, <1>4, <1>5 DEF IInv, IDsAreCalled, debouncer, RequestsOf, JobsOf, HooksOf, UpdatesOf, D!Snapshots
<1>8. BuildsAreCalled' /\ LastIsOlder'
  BY <1>1, <1>5 DEF IInv, BuildsAreCalled, LastIsOlder, debouncer, builds, JobsOf
<1>9. HeardIsHeld'
  BY <1>4, <1>5 DEF IInv, HeardIsHeld
<1> QED BY <1>6, <1>7, <1>8, <1>9 DEF IInv

(* From BuildNow to the site.                                               *)
LEMMA BuildSteps ==
  ASSUME IInv, Enqueue \/ \E w \in Workers : BuildStarts(w) \/ BuildEnds(w)
  PROVE  IInv'
<1> USE OrchestrationAssumption
<1>1. UNCHANGED <<debouncer, reqCh, triggers, updates, covered>>
  BY DEF Enqueue, BuildStarts, BuildEnds
<1>2. Called' = Called /\ UNCHANGED <<call, id, heard, covered, pending, reqCh, lastEmittedJobID, head, seen>>
  BY <1>1 DEF Called, triggers, debouncer, updates
<1>3. /\ nowCh \in Seq(JobsOf(Called)) /\ queue \in Seq(JobsOf(Called))
      /\ slot \in [Workers -> JobsOf(Called) \cup {NoBuild}] /\ active \subseteq Called
      /\ active \subseteq {slot[w].job : w \in Workers} /\ site \in [Repos -> Commits] /\ head \in [Repos -> Commits]
  BY DEF IInv, IDsAreCalled, BuildsAreCalled
<1>4. /\ nowCh \in Seq(D!BuildNow) /\ Len(nowCh) <= NowBuffer
      /\ reqCh \in Seq(D!BuildRequested) /\ Len(reqCh) <= ReqBuffer
  BY DebouncerFacts DEF IInv
<1>5. /\ nowCh' \in Seq(JobsOf(Called)) /\ nowCh' \in Seq(D!BuildNow) /\ Len(nowCh') <= NowBuffer
  <2>1. CASE Enqueue
    BY <2>1, <1>3, <1>4, TailFacts DEF Enqueue
  <2>2. CASE \E w \in Workers : BuildStarts(w) \/ BuildEnds(w)
    BY <2>2, <1>3, <1>4 DEF BuildStarts, BuildEnds
  <2> QED BY <2>1, <2>2
<1>6. DP!IInv'
  BY <1>1, <1>2, <1>4, <1>5, DebouncerKept DEF IInv
<1>7. /\ queue' \in Seq(JobsOf(Called)) /\ slot' \in [Workers -> JobsOf(Called) \cup {NoBuild}]
      /\ active' \subseteq Called /\ active' \subseteq {slot'[w].job : w \in Workers}
      /\ site' \in [Repos -> Commits]
  <2>1. CASE Enqueue
    <3> DEFINE e == Head(nowCh)
    <3>1. nowCh # <<>> /\ queue' = Append(queue, e) /\ UNCHANGED <<slot, active, site>>
      BY <2>1 DEF Enqueue
    <3>2. e \in JobsOf(Called)
      BY <3>1, <1>3, TailFacts
    <3> HIDE DEF e
    <3> QED BY <3>1, <3>2, <1>3, AppendFacts
  <2>2. ASSUME NEW w \in Workers, BuildStarts(w) PROVE <1>7
    <3> DEFINE e == Head(queue)
    <3>1. /\ queue # <<>> /\ slot[w] = NoBuild /\ queue' = Tail(queue) /\ slot' = [slot EXCEPT ![w] = e]
          /\ active' = active \cup {e.job} /\ UNCHANGED site
      BY <2>2 DEF BuildStarts
    <3>2. e \in JobsOf(Called) /\ queue' \in Seq(JobsOf(Called))
      BY <3>1, <1>3, TailFacts
    <3> HIDE DEF e
    <3>3. e.job \in Called /\ slot' \in [Workers -> JobsOf(Called) \cup {NoBuild}] /\ slot'[w] = e
          /\ \A x \in Workers : x # w => slot'[x] = slot[x]
      BY <3>1, <3>2, <1>3 DEF JobsOf
    <3>4. NoBuild.job \notin active
      BY <1>3 DEF NoBuild, Called
    <3>5. active' \subseteq {slot'[x].job : x \in Workers}
      BY <3>1, <3>3, <3>4, <1>3
    <3> QED BY <3>1, <3>2, <3>3, <3>5, <1>3
  <2>3. ASSUME NEW w \in Workers, BuildEnds(w) PROVE <1>7
    <3>1. /\ slot[w] # NoBuild /\ active' = active \ {slot[w].job} /\ slot' = [slot EXCEPT ![w] = NoBuild]
          /\ site' = [r \in Repos |-> IF slot[w].snapshot[r] = NoCommit THEN head[r] ELSE slot[w].snapshot[r]]
          /\ UNCHANGED queue
      BY <2>3 DEF BuildEnds
    <3>2. slot[w].snapshot \in [Repos -> Commits \cup {NoCommit}]
      BY <3>1, <1>3 DEF JobsOf, D!Snapshots
    <3>3. site' \in [Repos -> Commits]
      BY <3>1, <3>2, <1>3
    <3>4. slot' \in [Workers -> JobsOf(Called) \cup {NoBuild}] /\ \A x \in Workers : x # w => slot'[x] = slot[x]
      BY <3>1, <1>3
    <3>5. active' \subseteq {slot'[x].job : x \in Workers}
      BY <3>1, <3>4, <1>3
    <3> QED BY <3>1, <3>3, <3>4, <3>5, <1>3
  <2> QED BY <2>1, <2>2, <2>3
<1>8. IDsAreCalled'
  BY <1>1, <1>2, <1>5 DEF IInv, IDsAreCalled, debouncer, updates, RequestsOf, JobsOf, HooksOf, UpdatesOf, D!Snapshots
<1>9. BuildsAreCalled'
  BY <1>2, <1>7 DEF IInv, BuildsAreCalled, JobsOf
<1>10. LastIsOlder' /\ HeardIsHeld'
  BY <1>2 DEF IInv, LastIsOlder, HeardIsHeld
<1> QED BY <1>6, <1>8, <1>9, <1>10 DEF IInv

(* The steps of Run: a request may be dropped only when its trigger is      *)
(* covered, and closing a batch as emitted covers every trigger called.     *)
LEMMA RunSteps ==
  ASSUME IInv, DebouncerStep
  PROVE  IInv'
<1> USE OrchestrationAssumption
<1>1. /\ UNCHANGED <<call, id, heard, active>> /\ UNCHANGED <<updates, builds>>
      /\ covered' = IF at = "emitted" THEN covered \cup Called ELSE covered
      /\ D!RunStep \/ D!Tick \/ D!ConsumerSubscribes
  BY DEF DebouncerStep, triggers, builds, Called
<1>2. Called' = Called
  BY <1>1 DEF Called
<1>3. DP!IInv'
  BY <1>1, DebouncerSteps DEF IInv
<1>4. /\ reqCh \in Seq(RequestsOf(Called)) /\ nowCh \in Seq(JobsOf(Called))
      /\ lastJobID \in Called \cup {NoJob} /\ lastEmittedJobID \in Called \cup {NoJob}
      /\ pending => lastJobID # NoJob
  BY DEF IInv, IDsAreCalled
<1>5. /\ pendingAfterRun => pending
      /\ at \in {"publish", "emitted"} => pending
      /\ pending \in BOOLEAN /\ snapshot \in D!Snapshots
  BY DebouncerFacts DEF IInv
<1>6. CASE D!Receive
  <2> DEFINE req == Head(reqCh)
  <2>1. at = "select" /\ reqCh # <<>> /\ reqCh' = Tail(reqCh) /\ D!OnRequest(req) /\ nowCh' = nowCh
    BY <1>6 DEF D!Receive
  <2>2. /\ reqCh' \in Seq(RequestsOf(Called)) /\ req \in RequestsOf(Called) /\ req = reqCh[1]
        /\ \A i \in 1 .. Len(reqCh) : i # 1 => i - 1 \in 1 .. Len(reqCh') /\ reqCh'[i - 1] = reqCh[i]
    BY <2>1, <1>4, TailFacts
  <2> HIDE DEF req
  <2>3. /\ lastEmittedJobID' = lastEmittedJobID /\ (pending => pending')
        /\ ~pending' => req.job = lastEmittedJobID
        /\ lastJobID' \in {lastJobID, req.job} /\ (pending' => lastJobID' = req.job \/ pending)
    BY <2>1, <1>5 DEF D!OnRequest, D!Deduped, D!batch
  <2>4. req.job \in Called
    BY <2>2 DEF RequestsOf
  <2>5. IDsAreCalled'
    <3>1. lastJobID' \in Called \cup {NoJob} /\ (pending' => lastJobID' # NoJob)
      BY <2>3, <2>4, <1>4 DEF Called
    <3> QED BY <1>1, <1>2, <1>4, <2>1, <2>2, <2>3, <3>1
            DEF IInv, IDsAreCalled, updates, RequestsOf, JobsOf, HooksOf, UpdatesOf, D!Snapshots
  <2>6. covered' = covered
    BY <1>1, <2>1
  <2>7. LastIsOlder'
    BY <1>1, <1>2, <2>3, <2>6 DEF IInv, LastIsOlder
  <2>8. HeardIsHeld'
    <3> SUFFICES ASSUME NEW x \in heard \ covered, ~pending'
                 PROVE  \E i \in 1 .. Len(reqCh') : reqCh'[i].job = id[x]
      BY <1>1, <2>6 DEF HeardIsHeld
    <3>1. ~pending /\ req.job = lastEmittedJobID
      BY <2>3
    <3>2. PICK i \in 1 .. Len(reqCh) : reqCh[i].job = id[x]
      BY <3>1 DEF IInv, HeardIsHeld
    <3>3. id[x] # lastEmittedJobID
      BY <3>1 DEF IInv, LastIsOlder, IDsAreCalled
    <3>4. i # 1
      BY <2>2, <3>1, <3>2, <3>3
    <3> QED BY <2>2, <3>2, <3>4
  <2>9. BuildsAreCalled'
    BY <1>1, <1>2 DEF IInv, BuildsAreCalled, builds, updates, JobsOf
  <2> QED BY <1>3, <2>5, <2>7, <2>8, <2>9 DEF IInv
<1>7. CASE D!Emitted \/ at = "emitted"
  <2>1. at = "emitted" /\ covered' = covered \cup Called
    BY <1>1, <1>7 DEF D!Emitted
  <2>2. D!Emitted \/ D!ConsumerSubscribes
    BY <1>1, <2>1 DEF D!RunStep, D!Subscribe, D!Receive, D!QuietFires, D!MaxFires, D!PollFires,
       D!TryEmit, D!PublishOk, D!PublishFails, D!Done, D!Tick
  <2>3. UNCHANGED <<reqCh, nowCh, lastJobID>> /\ lastEmittedJobID' \in {lastEmittedJobID, lastJobID}
        /\ (pending' => pending)
    <3>1. CASE D!Emitted
      BY <3>1 DEF D!Emitted, D!env
    <3>2. CASE D!ConsumerSubscribes
      BY <3>2 DEF D!ConsumerSubscribes, D!batch
    <3> QED BY <2>2, <3>1, <3>2
  <2>4. IDsAreCalled'
    BY <1>1, <1>2, <1>4, <2>1, <2>3
    DEF IInv, IDsAreCalled, updates, RequestsOf, JobsOf, HooksOf, UpdatesOf, D!Snapshots
  <2>5. LastIsOlder' /\ HeardIsHeld'
    BY <1>1, <1>2, <2>1 DEF IInv, IDsAreCalled, LastIsOlder, HeardIsHeld
  <2>6. BuildsAreCalled'
    BY <1>1, <1>2 DEF IInv, BuildsAreCalled, builds, updates, JobsOf
  <2> QED BY <1>3, <2>4, <2>5, <2>6 DEF IInv
<1>8. CASE ~D!Receive /\ ~D!Emitted /\ at # "emitted"
  <2>1. covered' = covered
    BY <1>1, <1>8
  <2>2. UNCHANGED <<pending, lastJobID, lastEmittedJobID, reqCh>>
    BY <1>1, <1>8 DEF D!RunStep, D!Subscribe, D!QuietFires, D!MaxFires, D!PollFires,
       D!TryEmit, D!PublishOk, D!PublishFails, D!Done, D!Tick, D!ConsumerSubscribes, D!batch, D!env
  <2>3. nowCh' \in Seq(JobsOf(Called))
    <3>1. CASE D!PublishOk
      <4> DEFINE e == [job |-> lastJobID, snapshot |-> snapshot]
      <4>1. nowCh' = nowCh \/ nowCh' = Append(nowCh, e)
        BY <3>1 DEF D!PublishOk
      <4>2. e \in JobsOf(Called)
        BY <3>1, <1>4, <1>5 DEF D!PublishOk, JobsOf
      <4> HIDE DEF e
      <4>3. Append(nowCh, e) \in Seq(JobsOf(Called))
        BY <4>2, <1>4, AppendFacts
      <4> QED BY <4>1, <4>3, <1>4
    <3>2. CASE ~D!PublishOk
      <4>1. nowCh' = nowCh
        BY <1>1, <1>8, <3>2 DEF D!RunStep, D!Subscribe, D!QuietFires, D!MaxFires, D!PollFires,
           D!TryEmit, D!PublishFails, D!Done, D!Tick, D!ConsumerSubscribes, D!env
      <4> QED BY <4>1, <1>4
    <3> QED BY <3>1, <3>2
  <2>4. IDsAreCalled'
    BY <1>1, <1>2, <1>4, <2>1, <2>2, <2>3
    DEF IInv, IDsAreCalled, updates, RequestsOf, JobsOf, HooksOf, UpdatesOf, D!Snapshots
  <2>5. LastIsOlder' /\ HeardIsHeld'
    BY <1>1, <1>2, <2>1, <2>2 DEF IInv, LastIsOlder, HeardIsHeld
  <2>6. BuildsAreCalled'
    BY <1>1, <1>2 DEF IInv, BuildsAreCalled, builds, updates, JobsOf
  <2> QED BY <1>3, <2>4, <2>5, <2>6 DEF IInv
<1> QED BY <1>6, <1>7, <1>8

LEMMA StutterStep ==
  ASSUME IInv, UNCHANGED vars
  PROVE  IInv'
<1>1. /\ Called' = Called
      /\ UNCHANGED <<debouncer, reqCh, nowCh, call, id, heard, covered, updates, builds>>
  BY DEF Called, vars, triggers
<1>2. DP!IInv'
  BY <1>1, DebouncerFacts, DebouncerKept DEF IInv
<1>3. IDsAreCalled'
  BY <1>1 DEF IInv, IDsAreCalled, debouncer, updates, RequestsOf, JobsOf, HooksOf, UpdatesOf, D!Snapshots
<1>4. BuildsAreCalled' /\ LastIsOlder' /\ HeardIsHeld'
  BY <1>1 DEF IInv, BuildsAreCalled, LastIsOlder, HeardIsHeld, debouncer, builds, updates, JobsOf
<1> QED BY <1>2, <1>3, <1>4 DEF IInv

LEMMA StepIInv == IInv /\ [Next]_vars => IInv'
  BY ReadStep, PublishStep, UpdateSteps, UpdaterPublishStep, BuildSteps, RunSteps, StutterStep DEF Next

-----------------------------------------------------------------------------
(* The inductive invariant of the composition.                              *)
THEOREM OrchestrationInv == Spec => []IInv
  BY InitIInv, StepIInv, PTL DEF Spec

(* The composition is type correct; in particular what the queue reports    *)
(* as active is a job some worker is building.                              *)
THEOREM OrchestrationTypes == Spec => []TypeOK
<1>1. IInv => TypeOK
  <2> SUFFICES ASSUME IInv PROVE TypeOK
    OBVIOUS
  <2>1. D!TypeOK
    BY DEF IInv, DP!IInv, DP!TypeOK, D!TypeOK, D!BuildRequested, DP!BuildRequested, D!BuildNow, DP!BuildNow,
       D!Snapshots, DP!Snapshots, D!Causes, DP!Causes, D!Timer, DP!Timer, D!Off, DP!Off
  <2>2. Called \subseteq Triggers
    BY DEF Called
  <2>3. JobsOf(Called) \subseteq Jobs /\ NoBuild \in Jobs
    BY <2>2 DEF JobsOf, Jobs, NoBuild, NoSnapshot, D!Snapshots
  <2>4. queue \in Seq(Jobs) /\ slot \in [Workers -> Jobs]
    BY <2>3, SeqGrows DEF IInv, BuildsAreCalled
  <2>5. /\ call \in [Triggers -> {"idle", "read", "done"}] /\ id \in [Triggers -> Triggers \cup {NoJob}]
        /\ \A t \in Triggers : call[t] = "idle" <=> id[t] = NoJob
        /\ heard \subseteq Triggers /\ covered \subseteq Triggers
    BY <2>2 DEF IInv, IDsAreCalled
  <2> QED BY <2>1, <2>2, <2>4, <2>5 DEF IInv, BuildsAreCalled, TypeOK
<1> QED BY <1>1, OrchestrationInv, PTL

(* When the daemon is quiet, a batch has been emitted since the call of     *)
(* every trigger the debouncer heard, however reads of the planned ID,      *)
(* publications, emissions and builds interleave: the duplicate check of    *)
(* onRequest loses nobody's build.                                          *)
THEOREM NoTriggerIsLost == Spec => []TriggerIsCovered
<1>1. IInv => TriggerIsCovered
  <2> SUFFICES ASSUME IInv, Quiet PROVE heard \subseteq covered
    BY DEF TriggerIsCovered
  <2>1. ~pending /\ Len(reqCh) = 0
    BY DEF Quiet
  <2> QED BY <2>1 DEF IInv, HeardIsHeld
<1> QED BY <1>1, OrchestrationInv, PTL

(* The debouncer's guarantees hold in the daemon, where CheckBuildRunning   *)
(* is what the build queue reports: a follow-up behind a running build is   *)
(* polled for, and the max-delay timer measures the age of its batch.       *)
THEOREM DebouncerInDaemon == Spec => [](D!FollowUpIsPolled /\ D!MaxDelayMeasuresBatch)
<1>1. IInv => D!FollowUpIsPolled /\ D!MaxDelayMeasuresBatch
  BY DEF IInv, DP!IInv, DP!PollArmed, DP!MaxArmed, D!FollowUpIsPolled, D!MaxDelayMeasuresBatch, D!Off, DP!Off
<1> QED BY <1>1, OrchestrationInv, PTL

-----------------------------------------------------------------------------
(* The daemon from triggers to queue implements BuildCoalescing.            *)

(* Publishing a BuildRequested is Ask, or nothing before Run subscribes.    *)
LEMMA PublishAsks ==
  ASSUME NEW job \in Triggers \cup {NoJob}, NEW immediate \in BOOLEAN, NEW pins \in D!Snapshots,
         Publish(job, immediate, pins), UNCHANGED <<debouncer, nowCh>>
  PROVE  D!C!Next \/ UNCHANGED D!C!vars
<1>1. CASE at = "init"
  BY <1>1 DEF Publish, D!C!vars, debouncer
<1>2. CASE at # "init"
  <2> DEFINE req == [job |-> job, immediate |-> immediate, snapshot |-> pins]
  <2>1. req \in D!C!Requests
    BY DEF D!C!Requests, D!C!Pins, D!Snapshots
  <2>2. D!C!Ask(req)
    BY <1>2 DEF Publish, D!C!Ask, debouncer
  <2> QED BY <2>1, <2>2 DEF D!C!Next
<1> QED BY <1>1, <1>2

LEMMA CoalescingStep == IInv /\ [Next]_vars => [D!C!Next]_(D!C!vars)
<1> SUFFICES ASSUME IInv, [Next]_vars PROVE D!C!Next \/ UNCHANGED D!C!vars
  OBVIOUS
<1> USE OrchestrationAssumption
<1>1. NoSnapshot \in D!Snapshots
  BY DEF NoSnapshot, D!Snapshots
<1>2. ASSUME NEW t \in Triggers, TriggerPublishes(t) PROVE D!C!Next \/ UNCHANGED D!C!vars
  <2>1. id[t] \in Triggers \cup {NoJob}
    BY DEF IInv, IDsAreCalled, Called
  <2>2. Publish(id[t], Kind[t] \in {"manual", "initial"}, NoSnapshot) /\ UNCHANGED <<debouncer, nowCh>>
    BY <1>2 DEF TriggerPublishes
  <2>3. (Kind[t] \in {"manual", "initial"}) \in BOOLEAN
    OBVIOUS
  <2> QED BY <1>1, <2>1, <2>2, <2>3, PublishAsks
<1>3. CASE UpdaterPublishes
  <2> DEFINE pins == [NoSnapshot EXCEPT ![updating.repo] = updating.pin]
  <2>1. updating.job \in Triggers \cup {NoJob} /\ updating.pin \in Commits \cup {NoCommit}
    BY <1>3 DEF UpdaterPublishes, IInv, IDsAreCalled, UpdatesOf, Called
  <2>2. pins \in D!Snapshots
    BY <1>1, <2>1 DEF D!Snapshots
  <2>3. Publish(updating.job, TRUE, pins) /\ UNCHANGED <<debouncer, nowCh>>
    BY <1>3 DEF UpdaterPublishes
  <2> HIDE DEF pins
  <2> QED BY <2>1, <2>2, <2>3, PublishAsks
<1>4. CASE Enqueue
  <2>1. D!C!Build
    BY <1>4 DEF Enqueue, D!C!Build, debouncer
  <2> QED BY <2>1 DEF D!C!Next
<1>5. CASE DebouncerStep
  <2>1. DP!DebouncerAssumption
    BY DEF DP!DebouncerAssumption
  <2>2. DP!IInv /\ DP!Next
    BY <1>5, DebouncerNext DEF DebouncerStep, IInv
  <2>3. DP!C!Next \/ UNCHANGED DP!C!vars
    BY <2>1, <2>2, DP!CoalescingStep
  <2> QED
    BY <2>3 DEF D!C!Next, DP!C!Next, D!C!Take, DP!C!Take, D!C!Again, DP!C!Again, D!C!Joined, DP!C!Joined,
        D!C!Leave, DP!C!Leave, D!C!Ask, DP!C!Ask, D!C!Requests, DP!C!Requests, D!C!Pins, DP!C!Pins,
        D!C!Listen, DP!C!Listen, D!C!Build, DP!C!Build, D!C!vars, DP!C!vars
<1>6. ASSUME UNCHANGED <<debouncer, reqCh, nowCh>> PROVE UNCHANGED D!C!vars
  BY <1>6 DEF debouncer, D!C!vars
<1>7. ASSUME NEW t \in Triggers, TriggerReads(t) \/ WebhookPublishes(t) PROVE UNCHANGED D!C!vars
  BY <1>6, <1>7 DEF TriggerReads, WebhookPublishes
<1>8. CASE WebhookIgnored \/ WebhookMatched \/ UpdaterSeesChange \/ UpdaterCannotTell \/ UpdaterSeesNoChange
  BY <1>6, <1>8 DEF WebhookIgnored, WebhookMatched, UpdaterSeesChange, UpdaterCannotTell, UpdaterSeesNoChange
<1>9. ASSUME NEW r \in Repos, Push(r) PROVE UNCHANGED D!C!vars
  BY <1>6, <1>9 DEF Push
<1>10. ASSUME NEW w \in Workers, BuildStarts(w) \/ BuildEnds(w) PROVE UNCHANGED D!C!vars
  BY <1>6, <1>10 DEF BuildStarts, BuildEnds
<1>11. CASE UNCHANGED vars
  BY <1>6, <1>11 DEF vars
<1> QED BY <1>2, <1>3, <1>4, <1>5, <1>7, <1>8, <1>9, <1>10, <1>11 DEF Next

(* Between the triggers and the build queue the daemon implements the store *)
(* of one batch, for any triggers, repositories, workers and delays: no     *)
(* request that reaches the debouncer is lost or built with two batches.    *)
THEOREM DaemonCoalesces == Spec => Coalesces
<1>1. Init => D!C!Init
  BY DEF Init, D!Init, D!C!Init
<1> QED BY <1>1, CoalescingStep, OrchestrationInv, PTL DEF Spec, Coalesces, D!Coalesces, D!C!Spec
=============================================================================
