----------------------------- MODULE DaemonProofs ----------------------------
(***************************************************************************)
(* Proofs about what every part of the daemon runs on.  The event          *)
(* bus (EventBus), for any number of publishers, subscribers, event types   *)
(* and any capacity: it is type correct, no publisher sends on a closed     *)
(* channel, and Close leaves no subscription open.  Start and Stop          *)
(* (DaemonLifecycle), for any consumers and late workers: what Stop has     *)
(* taken down stays down.  The build queue (BuildQueue), for any jobs,      *)
(* workers, capacity, history size and number of retries: no job is lost,   *)
(* doubled or forgotten in the active map, one build runs at a time, and a  *)
(* Builder that reports its errors is asked again until the retries are     *)
(* used up.                                                                 *)
(***************************************************************************)
EXTENDS EventBus, DaemonLifecycle, BuildQueue, TLAPS

-----------------------------------------------------------------------------
(* The event bus.                                                          *)


(* Only a publisher that holds the read lock has deliveries to make, and    *)
(* what it has to deliver to is still registered.                           *)
DeliveryUnderLock ==
  \A p \in Publishers :
    /\ todo[p] # {} => p \in readers
    /\ todo[p] \subseteq subs

(* A registered subscriber is between Subscribe and unsubscribe and its     *)
(* channel is open.                                                         *)
RegisteredIsOpen ==
  \A s \in subs : chan[s] = "open" /\ sub[s] \in {"active", "unsubscribing"}

(* isClosed is set by Close, which then empties the map; nobody registers   *)
(* afterwards, so the channels Close closes late are not in use.            *)
ClosePhases ==
  /\ isClosed <=> closer # "open"
  /\ closer \in {"closing", "closed"} => subs = {}
  /\ closer \in {"open", "locking"} => toClose = {}
  /\ closer = "closed" => toClose = {}
  /\ \A s \in toClose : sub[s] \notin {"start", "subscribing"}

(* A subscription that was handed out is registered, closed, or about to be *)
(* closed by Close.                                                         *)
HandedOutIsKnown ==
  \A s \in Subscribers :
    sub[s] \notin {"start", "subscribing"} => s \in subs \/ s \in toClose \/ chan[s] = "closed"

(* The channel of a Subscribe in progress is open.                          *)
SubscribingIsOpen ==
  \A s \in Subscribers : sub[s] = "subscribing" => chan[s] = "open"

IInv ==
  /\ TypeOK /\ DeliveryUnderLock /\ RegisteredIsOpen /\ ClosePhases
  /\ HandedOutIsKnown /\ SubscribingIsOpen

-----------------------------------------------------------------------------
LEMMA InitIInv == Init => IInv
<1> SUFFICES ASSUME Init PROVE IInv
  OBVIOUS
<1>1. TypeOK
  <2>1. \A s \in Subscribers : buf[s] = <<>> /\ Len(buf[s]) = 0
    BY DEF Init
  <2>2. buf \in [Subscribers -> Seq(Types)] /\ \A s \in Subscribers : Len(buf[s]) <= Buffer
    BY <2>1, BusAssumption DEF Init
  <2> QED BY <2>2 DEF Init, TypeOK
<1>2. DeliveryUnderLock /\ RegisteredIsOpen /\ ClosePhases /\ HandedOutIsKnown
      /\ SubscribingIsOpen
  BY DEF Init, DeliveryUnderLock, RegisteredIsOpen, ClosePhases, HandedOutIsKnown, SubscribingIsOpen
<1> QED BY <1>1, <1>2 DEF IInv

LEMMA StepIInv == IInv /\ [Next]_vars => IInv'
<1> SUFFICES ASSUME IInv, [Next]_vars PROVE IInv'
  OBVIOUS
<1> USE BusAssumption
<1> DEFINE Rest == /\ DeliveryUnderLock /\ RegisteredIsOpen /\ ClosePhases
                   /\ HandedOutIsKnown /\ SubscribingIsOpen
<1>1. ASSUME NEW s \in Subscribers, SubscribeCheck(s) PROVE IInv'
  <2>1. TypeOK'
    BY <1>1, ZenonT(60) DEF SubscribeCheck, IInv, TypeOK, pubs
  <2>2. s \notin subs /\ s \notin toClose
    BY <1>1 DEF SubscribeCheck, IInv, RegisteredIsOpen, ClosePhases
  <2>3. UNCHANGED <<isClosed, subs, readers, pubs, closer, toClose>>
    BY <1>1 DEF SubscribeCheck
  <2>4. \A t \in Subscribers : t # s => chan'[t] = chan[t] /\ sub'[t] = sub[t]
    BY <1>1 DEF SubscribeCheck, IInv, TypeOK
  <2>5. \/ chan'[s] = "closed" /\ sub'[s] = "gone"
        \/ chan'[s] = "open" /\ sub'[s] = "subscribing"
    BY <1>1 DEF SubscribeCheck, IInv, TypeOK
  <2>6. (DeliveryUnderLock /\ RegisteredIsOpen)'
    BY <2>2, <2>3, <2>4 DEF IInv, TypeOK, pubs, DeliveryUnderLock, RegisteredIsOpen
  <2>7. ClosePhases'
    BY <2>2, <2>3, <2>4 DEF IInv, TypeOK, ClosePhases
  <2>8. (HandedOutIsKnown /\ SubscribingIsOpen)'
    BY <2>3, <2>4, <2>5 DEF IInv, HandedOutIsKnown, SubscribingIsOpen
  <2> QED BY <2>1, <2>6, <2>7, <2>8 DEF IInv
<1>2. ASSUME NEW s \in Subscribers, SubscribeRegister(s) PROVE IInv'
  <2>1. TypeOK'
    BY <1>2, ZenonT(60) DEF SubscribeRegister, IInv, TypeOK, pubs
  <2>4. \A p \in Publishers : todo[p] = {}
    BY <1>2 DEF SubscribeRegister, IInv, TypeOK, DeliveryUnderLock
  <2>5. DeliveryUnderLock'
    BY <1>2, <2>4 DEF SubscribeRegister, pubs, DeliveryUnderLock
  <2>6. s \notin subs /\ s \notin toClose
    BY <1>2 DEF SubscribeRegister, IInv, RegisteredIsOpen, ClosePhases
  <2>7. ~isClosed => chan[s] = "open"
    BY <1>2 DEF SubscribeRegister, IInv, SubscribingIsOpen
  <2>8. RegisteredIsOpen'
    BY <1>2, <2>6, <2>7 DEF SubscribeRegister, IInv, TypeOK, RegisteredIsOpen
  <2>9. ClosePhases'
    BY <1>2, <2>6 DEF SubscribeRegister, IInv, TypeOK, ClosePhases
  <2>2. (DeliveryUnderLock /\ RegisteredIsOpen /\ ClosePhases)'
    BY <2>5, <2>8, <2>9
  <2>3. (HandedOutIsKnown /\ SubscribingIsOpen)'
    BY <1>2, ZenonT(60) DEF SubscribeRegister, IInv, TypeOK, pubs, HandedOutIsKnown, SubscribingIsOpen
  <2> QED BY <2>1, <2>2, <2>3 DEF IInv
<1>3. ASSUME NEW s \in Subscribers, Consume(s) PROVE IInv'
  <2>1. Tail(buf[s]) \in Seq(Types) /\ Len(Tail(buf[s])) <= Buffer
    BY <1>3 DEF Consume, IInv, TypeOK
  <2>2. TypeOK'
    BY <1>3, <2>1 DEF Consume, IInv, TypeOK, locks, pubs
  <2>3. Rest'
    BY <1>3 DEF Consume, IInv, locks, pubs, DeliveryUnderLock, RegisteredIsOpen,
        ClosePhases, HandedOutIsKnown, SubscribingIsOpen
  <2> QED BY <2>2, <2>3 DEF IInv
<1>4. ASSUME NEW s \in Subscribers, ConsumerReturns(s) PROVE IInv'
  BY <1>4 DEF ConsumerReturns, IInv, TypeOK, bus, pubs, DeliveryUnderLock, RegisteredIsOpen,
      ClosePhases, HandedOutIsKnown, SubscribingIsOpen
<1>5. ASSUME NEW s \in Subscribers, Unsubscribe(s) PROVE IInv'
  <2>1. TypeOK'
    BY <1>5 DEF Unsubscribe, IInv, TypeOK, pubs
  <2>2. Rest'
    BY <1>5 DEF Unsubscribe, IInv, TypeOK, pubs, DeliveryUnderLock, RegisteredIsOpen,
        ClosePhases, HandedOutIsKnown, SubscribingIsOpen
  <2> QED BY <2>1, <2>2 DEF IInv
<1>6. ASSUME NEW p \in Publishers, NEW type \in Types, PublishCheck(p, type) PROVE IInv'
  BY <1>6 DEF PublishCheck, IInv, TypeOK, bus, locks, DeliveryUnderLock, RegisteredIsOpen,
      ClosePhases, HandedOutIsKnown, SubscribingIsOpen
<1>7. ASSUME NEW p \in Publishers, PublishLock(p) PROVE IInv'
  <2>1. TypeOK'
    BY <1>7 DEF PublishLock, IInv, TypeOK, bus
  <2>2. Rest'
    BY <1>7 DEF PublishLock, IInv, TypeOK, bus, DeliveryUnderLock, RegisteredIsOpen,
        ClosePhases, HandedOutIsKnown, SubscribingIsOpen
  <2> QED BY <2>1, <2>2 DEF IInv
<1>8. ASSUME NEW p \in Publishers, NEW s \in Subscribers, Send(p, s) PROVE IInv'
  <2>1. Append(buf[s], evt[p]) \in Seq(Types) /\ Len(Append(buf[s], evt[p])) <= Buffer
    BY <1>8 DEF Send, IInv, TypeOK
  <2>2. TypeOK'
    BY <1>8, <2>1 DEF Send, IInv, TypeOK, locks
  <2>3. Rest'
    BY <1>8 DEF Send, IInv, TypeOK, locks, DeliveryUnderLock, RegisteredIsOpen,
        ClosePhases, HandedOutIsKnown, SubscribingIsOpen
  <2> QED BY <2>2, <2>3 DEF IInv
<1>9. ASSUME NEW p \in Publishers, PublishReturns(p) \/ PublishCanceled(p) PROVE IInv'
  <2>1. /\ UNCHANGED <<bus, writers, sub, evt, closer, toClose>>
        /\ readers' = readers \ {p}
        /\ pub' = [pub EXCEPT ![p] = "idle"]
        /\ todo' = [todo EXCEPT ![p] = {}]
    BY <1>9 DEF PublishReturns, PublishCanceled, IInv, TypeOK
  <2>2. TypeOK'
    BY <2>1 DEF IInv, TypeOK, bus
  <2>3. DeliveryUnderLock'
    BY <2>1 DEF IInv, TypeOK, bus, DeliveryUnderLock
  <2>4. (RegisteredIsOpen /\ ClosePhases /\ HandedOutIsKnown /\ SubscribingIsOpen)'
    BY <2>1 DEF IInv, bus, RegisteredIsOpen, ClosePhases, HandedOutIsKnown, SubscribingIsOpen
  <2> QED BY <2>2, <2>3, <2>4 DEF IInv
<1>10. CASE CloseStart
  BY <1>10 DEF CloseStart, IInv, TypeOK, pubs, DeliveryUnderLock, RegisteredIsOpen,
      ClosePhases, HandedOutIsKnown, SubscribingIsOpen
<1>11. CASE CloseCollect
  BY <1>11 DEF CloseCollect, IInv, TypeOK, pubs, DeliveryUnderLock, RegisteredIsOpen,
      ClosePhases, HandedOutIsKnown, SubscribingIsOpen
<1>12. ASSUME NEW s \in Subscribers, CloseChannel(s) PROVE IInv'
  BY <1>12 DEF CloseChannel, IInv, TypeOK, pubs, locks, DeliveryUnderLock, RegisteredIsOpen,
      ClosePhases, HandedOutIsKnown, SubscribingIsOpen
<1>13. CASE CloseReturns
  BY <1>13 DEF CloseReturns, IInv, TypeOK, bus, pubs, locks, DeliveryUnderLock,
      RegisteredIsOpen, ClosePhases, HandedOutIsKnown, SubscribingIsOpen
<1>14. CASE UNCHANGED vars
  BY <1>14 DEF vars, bus, locks, pubs, IInv, TypeOK, DeliveryUnderLock, RegisteredIsOpen,
      ClosePhases, HandedOutIsKnown, SubscribingIsOpen
<1> QED
  BY <1>1, <1>2, <1>3, <1>4, <1>5, <1>6, <1>7, <1>8, <1>9, <1>10, <1>11, <1>12, <1>13, <1>14
  DEF Next, SubscriberStep, CloseStep

-----------------------------------------------------------------------------
(* The inductive invariant holds in every reachable state of the bus.      *)
THEOREM IInvHolds == Spec => []IInv
  BY InitIInv, StepIInv, PTL DEF Spec

(* Channels, locks and positions stay in their types and capacities.       *)
THEOREM TypeCorrect == Spec => []TypeOK
<1>1. IInv => TypeOK
  BY DEF IInv
<1> QED BY <1>1, IInvHolds, PTL

(* Publish never sends on a channel that unsubscribe or Close has closed.  *)
THEOREM SendsAreSafe == Spec => []NoSendOnClosed
<1>1. IInv => NoSendOnClosed
  BY DEF IInv, TypeOK, DeliveryUnderLock, RegisteredIsOpen, NoSendOnClosed
<1> QED BY <1>1, IInvHolds, PTL

(* When Close has returned no subscription that was handed out is open.    *)
THEOREM CloseIsComplete == Spec => []CloseClosesAll
<1>1. IInv => CloseClosesAll
  BY DEF IInv, ClosePhases, HandedOutIsKnown, CloseClosesAll
<1> QED BY <1>1, IInvHolds, PTL

-----------------------------------------------------------------------------
(* Start and Stop.                                                         *)

\* The initial state satisfies the inductive invariant.
LEMMA LifecycleStarts == LifecycleInit => LifecycleInv
  BY DEF LifecycleInit, LifecycleInv, LifecycleTypeOK, Shutdown, StoppedIsDown, Stopping

\* Every step keeps the types and the ownership of d.mu.
LEMMA LifecycleTypesKept == LifecycleTypeOK /\ [LifecycleNext]_lifecycleVars => LifecycleTypeOK'
<1> SUFFICES ASSUME LifecycleTypeOK, [LifecycleNext]_lifecycleVars PROVE LifecycleTypeOK'
  OBVIOUS
<1> USE DEF LifecycleTypeOK, ending, scheduled, builds, servers, group
<1>1. CASE StartStep
  <2>1. CASE StartBegin
    <3>1. wgStopping' \in BOOLEAN
      BY <2>1, Zenon DEF StartBegin
    <3>2. QED BY <2>1, <3>1 DEF StartBegin
  <2>2. CASE StartHTTP
    BY <2>2 DEF StartHTTP
  <2>3. CASE StartWorkers
    BY <2>3 DEF StartWorkers
  <2>4. CASE StartSchedule
    BY <2>4 DEF StartSchedule
  <2>5. CASE LoopExits
    BY <2>5 DEF LoopExits
  <2>6. CASE StartReturns
    BY <2>6 DEF StartReturns
  <2>7. QED BY <1>1, <2>1, <2>2, <2>3, <2>4, <2>5, <2>6 DEF StartStep
<1>2. CASE StopStep
  <2>1. CASE MainSignaled
    BY <2>1 DEF MainSignaled
  <2>2. CASE MainStartReturned
    BY <2>2 DEF MainStartReturned
  <2>3. CASE StopLock
    BY <2>3 DEF StopLock
  <2>4. CASE StopCancel
    BY <2>4 DEF StopCancel
  <2>5. CASE StopScheduler
    BY <2>5 DEF StopScheduler
  <2>6. CASE StopQueue
    BY <2>6 DEF StopQueue
  <2>7. CASE StopQueueReturns
    BY <2>7 DEF StopQueueReturns
  <2>8. CASE StopHTTP
    <3>1. sse' \in BOOLEAN
      BY <2>8, Zenon DEF StopHTTP
    <3>2. QED BY <2>8, <3>1 DEF StopHTTP
  <2>9. CASE StopSave
    <3>1. storeOpen' \in BOOLEAN /\ saved' \in BOOLEAN
      BY <2>9, Zenon DEF StopSave
    <3>2. QED BY <2>9, <3>1 DEF StopSave
  <2>10. CASE StopWorkers
    BY <2>10 DEF StopWorkers
  <2>11. CASE StopWorkersReturns
    BY <2>11 DEF StopWorkersReturns
  <2>12. CASE StopReturns
    BY <2>12 DEF StopReturns
  <2>13. QED BY <1>2, <2>1, <2>2, <2>3, <2>4, <2>5, <2>6, <2>7, <2>8, <2>9, <2>10, <2>11, <2>12 DEF StopStep
<1>3. CASE Environment
  <2>1. CASE StartFails
    BY <2>1 DEF StartFails
  <2>2. CASE \E x \in LateWorkers : GoWorker(x)
    BY <2>2 DEF GoWorker
  <2>3. CASE BuildBegins
    BY <2>3 DEF BuildBegins
  <2>4. CASE TickBegins
    BY <2>4 DEF TickBegins
  <2>5. CASE ClientConnects
    BY <2>5 DEF ClientConnects
  <2>6. CASE ClientLeaves
    <3>1. sse' \in BOOLEAN
      BY <2>6, Zenon DEF ClientLeaves
    <3>2. QED BY <2>6, <3>1 DEF ClientLeaves
  <2>7. CASE Signal
    BY <2>7 DEF Signal
  <2>8. QED BY <1>3, <2>1, <2>2, <2>3, <2>4, <2>5, <2>6, <2>7 DEF Environment
<1>4. CASE BuildEnds \/ QueueWorkersEnd \/ TickLocks \/ TickEnds \/ Deadline
  <2>1. CASE BuildEnds
    <3>1. build' \in BOOLEAN
      BY <2>1, Zenon DEF BuildEnds
    <3>2. QED BY <2>1, <3>1 DEF BuildEnds
  <2>2. CASE QueueWorkersEnd
    BY <2>2 DEF QueueWorkersEnd
  <2>3. CASE TickLocks
    BY <2>3 DEF TickLocks
  <2>4. CASE TickEnds
    BY <2>4 DEF TickEnds
  <2>5. CASE Deadline
    BY <2>5 DEF Deadline
  <2>6. QED BY <1>4, <2>1, <2>2, <2>3, <2>4, <2>5
<1>5. CASE \E x \in Consumers \cup LateWorkers : WorkerEnds(x)
  BY <1>5 DEF WorkerEnds
<1>6. CASE UNCHANGED lifecycleVars
  BY <1>6 DEF lifecycleVars
<1>7. QED
  BY <1>1, <1>2, <1>3, <1>4, <1>5, <1>6 DEF LifecycleNext, Exited

\* Every step keeps what Stop's progress implies.
LEMMA LifecycleStep == LifecycleInv /\ [LifecycleNext]_lifecycleVars => LifecycleInv'
<1> SUFFICES ASSUME LifecycleInv, [LifecycleNext]_lifecycleVars PROVE LifecycleInv'
  OBVIOUS
<1>0. LifecycleTypeOK /\ LifecycleTypeOK'
  BY LifecycleTypesKept DEF LifecycleInv
<1> USE <1>0 DEF LifecycleInv, LifecycleTypeOK, Shutdown, StoppedIsDown, Stopping, Alive, ending, scheduled, builds, servers, group
<1>1. CASE Alive /\ StartStep
  BY <1>1 DEF StartStep, StartBegin, StartHTTP, StartWorkers, StartSchedule, LoopExits, StartReturns
<1>2. CASE Alive /\ StopStep
  <2>1. CASE MainSignaled \/ MainStartReturned
    BY <1>2, <2>1 DEF MainSignaled, MainStartReturned
  <2>2. CASE StopLock
    BY <1>2, <2>2 DEF StopLock
  <2>3. CASE StopCancel \/ StopScheduler \/ StopQueue \/ StopQueueReturns
    BY <1>2, <2>3 DEF StopCancel, StopScheduler, StopQueue, StopQueueReturns
  <2>4. CASE StopHTTP \/ StopSave
    BY <1>2, <2>4 DEF StopHTTP, StopSave
  <2>5. CASE StopWorkers \/ StopReturns
    BY <1>2, <2>5 DEF StopWorkers, StopReturns
  <2>6. CASE StopWorkersReturns
    <3>1. drained' => workers' = {}
      BY <2>6 DEF StopWorkersReturns
    <3>2. /\ main = "workersWait" /\ main' = "status"
          /\ UNCHANGED <<status, start, saved, storeOpen, sched, queue, build, http, workers, wgStopping>>
      BY <2>6 DEF StopWorkersReturns
    <3>3. wgStopping
      BY <3>2
    <3>4. QED BY <3>1, <3>2, <3>3
  <2>7. QED BY <1>2, <2>1, <2>2, <2>3, <2>4, <2>5, <2>6 DEF StopStep
<1>3. CASE Alive /\ Environment
  BY <1>3 DEF Environment, StartFails, GoWorker, BuildBegins, TickBegins, ClientConnects, ClientLeaves, Signal
<1>4. CASE Alive /\ (BuildEnds \/ QueueWorkersEnd \/ TickLocks \/ TickEnds \/ Deadline)
  BY <1>4 DEF BuildEnds, QueueWorkersEnd, TickLocks, TickEnds, Deadline
<1>5. CASE Alive /\ \E x \in Consumers \cup LateWorkers : WorkerEnds(x)
  BY <1>5 DEF WorkerEnds
<1>6. CASE UNCHANGED lifecycleVars
  BY <1>6 DEF lifecycleVars
<1>7. QED
  BY <1>1, <1>2, <1>3, <1>4, <1>5, <1>6 DEF LifecycleNext, Exited

\* The inductive invariant of Start and Stop (daemon.go) holds throughout.
THEOREM LifecycleInvHolds == LifecycleSpec => []LifecycleInv
  BY LifecycleStarts, LifecycleStep, PTL DEF LifecycleSpec

\* No build of the queue runs on an event store that Stop has closed.
THEOREM BuildsHaveStore == LifecycleSpec => []BuildHasStore
<1>1. LifecycleInv => BuildHasStore
  BY DEF LifecycleInv, Shutdown, BuildHasStore, LifecycleTypeOK
<1>2. QED BY <1>1, LifecycleInvHolds, PTL

\* The worker group stays empty once StopAndWait has seen it empty.
THEOREM GroupStaysDrained == LifecycleSpec => []DrainedForGood
<1>1. LifecycleInv => DrainedForGood
  BY DEF LifecycleInv, Shutdown, DrainedForGood
<1>2. QED BY <1>1, LifecycleInvHolds, PTL

\* A started daemon that reports "stopped" has been taken down completely.
THEOREM StoppedMeansDown == LifecycleSpec => []StoppedIsDown
<1>1. LifecycleInv => StoppedIsDown
  BY DEF LifecycleInv
<1>2. QED BY <1>1, LifecycleInvHolds, PTL

-----------------------------------------------------------------------------
(* The build queue.                                                        *)

(* What a worker has received is queued until processJob registers it and   *)
(* running from then on; what waits in the channel is queued.               *)
StageMatchesStatus ==
  /\ \A w \in Workers : at[w] = "taken" => jobStatus[cur[w]] = "queued"
  /\ \A w \in Workers :
       at[w] \in {"attempt", "building", "backoff", "finish"} => jobStatus[cur[w]] = "running"
  /\ \A i \in DOMAIN jobs : jobStatus[jobs[i]] = "queued"
  /\ \A j \in Jobs : jobStatus[j] = "running" =>
       \E w \in Workers : cur[w] = j /\ at[w] \in {"attempt", "building", "backoff", "finish"}

(* The adapter's mutex is held by the one worker that builds.               *)
MutexIsHeld == \A w \in Workers : at[w] = "building" <=> building = w

(* A worker that has given up on a transient failure has used the retries.  *)
GaveUpAfterRetries ==
  \A w \in Workers :
    at[w] = "finish" /\ lastErr[cur[w]] = "transient" => retries[cur[w]] = MaxRetries

QueueInv ==
  /\ QueueTypeOK /\ JobInOnePlace /\ StageMatchesStatus /\ ActiveIsRunning /\ MutexIsHeld

-----------------------------------------------------------------------------
(* The first element of a channel and what is left behind it.              *)
LEMMA HeadAndTail ==
  ASSUME NEW S, NEW s \in Seq(S), s # <<>>
  PROVE  /\ Head(s) \in S /\ Tail(s) \in Seq(S) /\ Len(Tail(s)) = Len(s) - 1
         /\ 1 \in DOMAIN s /\ Head(s) = s[1]
         /\ \A i \in DOMAIN Tail(s) : i + 1 \in DOMAIN s /\ Tail(s)[i] = s[i + 1]
         /\ \A i \in DOMAIN s : i # 1 => i - 1 \in DOMAIN Tail(s) /\ Tail(s)[i - 1] = s[i]
OBVIOUS

(* What appending to a channel changes.                                    *)
LEMMA Appended ==
  ASSUME NEW S, NEW s \in Seq(S), NEW e \in S
  PROVE  /\ Append(s, e) \in Seq(S) /\ Append(s, e) # <<>> /\ Len(Append(s, e)) = Len(s) + 1
         /\ DOMAIN Append(s, e) = DOMAIN s \cup {Len(s) + 1} /\ Len(s) + 1 \notin DOMAIN s
         /\ \A i \in DOMAIN s : Append(s, e)[i] = s[i]
         /\ Append(s, e)[Len(s) + 1] = e
OBVIOUS

LEMMA QueueStarts == QueueInit => QueueInv
<1> SUFFICES ASSUME QueueInit PROVE QueueInv
  OBVIOUS
<1>1. QueueTypeOK
  <2>1. jobs \in Seq(Jobs) /\ Len(jobs) <= MaxSize /\ history \in Seq(Jobs) /\ Len(history) <= HistorySize
    BY QueueAssumption DEF QueueInit
  <2>2. retries \in [Jobs -> 0 .. MaxRetries]
    BY QueueAssumption DEF QueueInit
  <2> QED BY <2>1, <2>2 DEF QueueInit, QueueTypeOK
<1>2. JobInOnePlace /\ StageMatchesStatus /\ MutexIsHeld
  BY QueueAssumption DEF QueueInit, JobInOnePlace, StageMatchesStatus, MutexIsHeld
<1>3. ActiveIsRunning
  BY QueueAssumption DEF QueueInit, ActiveIsRunning, IDs
<1> QED BY <1>1, <1>2, <1>3 DEF QueueInv

LEMMA EnqueueInv == ASSUME QueueInv, NEW j \in Jobs, Enqueue(j) PROVE QueueInv'
<1> USE QueueAssumption
<1>1. CASE Len(jobs) < MaxSize
  <2>1. jobs' = Append(jobs, j) /\ jobStatus' = [jobStatus EXCEPT ![j] = "queued"]
        /\ UNCHANGED <<active, history, at, cur, retries, lastErr, building, canceled, stopper, ctxDone>>
    BY <1>1 DEF Enqueue, work, attempts, stopping
  <2>2. /\ jobs' \in Seq(Jobs) /\ Len(jobs') = Len(jobs) + 1
        /\ DOMAIN jobs' = DOMAIN jobs \cup {Len(jobs) + 1} /\ Len(jobs) + 1 \notin DOMAIN jobs
        /\ \A i \in DOMAIN jobs : jobs'[i] = jobs[i]
        /\ jobs'[Len(jobs) + 1] = j
    BY <2>1, Appended DEF QueueInv, QueueTypeOK
  <2>3. QueueTypeOK'
    <3>1. Len(jobs') <= MaxSize
      BY <1>1, <2>2 DEF QueueInv, QueueTypeOK
    <3> QED BY <2>1, <2>2, <3>1 DEF QueueInv, QueueTypeOK
  <2>4. jobStatus[j] = "new" /\ \A i \in DOMAIN jobs : jobs[i] # j
    BY DEF Enqueue, QueueInv, StageMatchesStatus
  <2>5. \A w \in Workers : cur[w] # j
    BY <2>4 DEF QueueInv, JobInOnePlace
  <2>6. JobInOnePlace'
    <3>1. \A i, k \in DOMAIN jobs' : jobs'[i] = jobs'[k] => i = k
      BY <2>2, <2>4 DEF QueueInv, JobInOnePlace
    <3>2. \A w \in Workers : \A i \in DOMAIN jobs' : cur'[w] # jobs'[i]
      BY <2>1, <2>2, <2>5 DEF QueueInv, JobInOnePlace
    <3>3. \A k \in Jobs : (\E i \in DOMAIN jobs' : jobs'[i] = k) <=>
                          k = j \/ (\E i \in DOMAIN jobs : jobs[i] = k)
      BY <2>2
    <3>4. \A k \in Jobs : jobStatus'[k] \in {"queued", "running"} <=>
                          k = j \/ jobStatus[k] \in {"queued", "running"}
      BY <2>1 DEF QueueInv, QueueTypeOK
    <3> QED BY <2>1, <3>1, <3>2, <3>3, <3>4 DEF QueueInv, JobInOnePlace
  <2>7. StageMatchesStatus'
    BY <2>1, <2>2, <2>4, <2>5 DEF QueueInv, QueueTypeOK, StageMatchesStatus
  <2>8. ActiveIsRunning' /\ MutexIsHeld'
    BY <2>1, <2>4 DEF QueueInv, QueueTypeOK, ActiveIsRunning, UniqueIDs, MutexIsHeld
  <2> QED BY <2>3, <2>6, <2>7, <2>8 DEF QueueInv
<1>2. CASE ~(Len(jobs) < MaxSize)
  <2>1. jobStatus' = [jobStatus EXCEPT ![j] = "rejected"]
        /\ UNCHANGED <<jobs, active, history, at, cur, retries, lastErr, building, canceled, stopper, ctxDone>>
    BY <1>2 DEF Enqueue, work, attempts, stopping
  <2>2. QueueTypeOK' /\ jobStatus[j] = "new"
    BY <2>1 DEF Enqueue, QueueInv, QueueTypeOK
  <2>3. JobInOnePlace' /\ StageMatchesStatus'
    BY <2>1, <2>2, SMTT(30) DEF QueueInv, QueueTypeOK, JobInOnePlace, StageMatchesStatus
  <2>4. ActiveIsRunning' /\ MutexIsHeld'
    BY <2>1, <2>2 DEF QueueInv, QueueTypeOK, ActiveIsRunning, UniqueIDs, MutexIsHeld
  <2> QED BY <2>2, <2>3, <2>4 DEF QueueInv
<1> QED BY <1>1, <1>2

LEMMA TakeInv == ASSUME QueueInv, NEW w \in Workers, Take(w) PROVE QueueInv'
<1> USE QueueAssumption
<1> DEFINE j == Head(jobs)
<1>1. /\ at[w] = "idle" /\ jobs' = Tail(jobs)
      /\ cur' = [cur EXCEPT ![w] = j] /\ at' = [at EXCEPT ![w] = "taken"]
      /\ UNCHANGED <<jobStatus, active, history, retries, lastErr, building, canceled, stopper, ctxDone>>
  BY DEF Take, attempts, stopping
<1>2. /\ j \in Jobs /\ jobs' \in Seq(Jobs) /\ Len(jobs') = Len(jobs) - 1
      /\ 1 \in DOMAIN jobs /\ j = jobs[1]
      /\ \A i \in DOMAIN jobs' : i + 1 \in DOMAIN jobs /\ jobs'[i] = jobs[i + 1]
      /\ \A i \in DOMAIN jobs : i # 1 => i - 1 \in DOMAIN jobs' /\ jobs'[i - 1] = jobs[i]
  BY <1>1, HeadAndTail DEF Take, QueueInv, QueueTypeOK
<1> HIDE DEF j
<1>3. DOMAIN jobs \subseteq Nat /\ DOMAIN jobs' \subseteq Nat \ {0}
  BY <1>2, SMTT(40) DEF QueueInv, QueueTypeOK
<1>4. QueueTypeOK'
  BY <1>1, <1>2 DEF QueueInv, QueueTypeOK
<1>5. \A v \in Workers : cur[v] # j
  BY <1>2 DEF QueueInv, JobInOnePlace
<1>6. \A i \in DOMAIN jobs' : jobs'[i] # j
  BY <1>2, <1>3 DEF QueueInv, JobInOnePlace
<1>7. \A i, k \in DOMAIN jobs' : jobs'[i] = jobs'[k] => i = k
  BY <1>2, <1>3 DEF QueueInv, JobInOnePlace
<1>8. \A v \in Workers : \A i \in DOMAIN jobs' : cur'[v] # jobs'[i]
  BY <1>1, <1>2, <1>6 DEF QueueInv, QueueTypeOK, JobInOnePlace
<1>9. \A v, u \in Workers : cur'[v] = cur'[u] /\ cur'[v] # NoJob => v = u
  BY <1>1, <1>5 DEF QueueInv, QueueTypeOK, JobInOnePlace
<1>10. cur[w] = NoJob /\ cur'[w] = j /\ \A v \in Workers : v # w => cur'[v] = cur[v]
  BY <1>1 DEF QueueInv, QueueTypeOK
<1>11. ASSUME NEW k \in Jobs
       PROVE  (\E i \in DOMAIN jobs : jobs[i] = k) \/ (\E v \in Workers : cur[v] = k)
              <=> (\E i \in DOMAIN jobs' : jobs'[i] = k) \/ (\E v \in Workers : cur'[v] = k)
  <2>1. (\E i \in DOMAIN jobs : jobs[i] = k) <=> k = j \/ (\E i \in DOMAIN jobs' : jobs'[i] = k)
    BY <1>2
  <2>2. (\E v \in Workers : cur'[v] = k) <=> k = j \/ (\E v \in Workers : cur[v] = k)
    BY <1>10
  <2> QED BY <2>1, <2>2
<1>12. JobInOnePlace'
  BY <1>1, <1>7, <1>8, <1>9, <1>11 DEF QueueInv, JobInOnePlace
<1>13. StageMatchesStatus'
  BY <1>1, <1>2, <1>10, SMTT(30) DEF QueueInv, QueueTypeOK, StageMatchesStatus
<1>14. ActiveIsRunning' /\ MutexIsHeld'
  BY <1>1 DEF QueueInv, QueueTypeOK, ActiveIsRunning, UniqueIDs, MutexIsHeld
<1> QED BY <1>4, <1>12, <1>13, <1>14 DEF QueueInv

LEMMA BeginInv == ASSUME QueueInv, NEW w \in Workers, Begin(w) PROVE QueueInv'
<1> USE QueueAssumption
<1> DEFINE j == cur[w]
<1>1. /\ at[w] = "taken"
      /\ jobStatus' = [jobStatus EXCEPT ![j] = "running"]
      /\ active' = [active EXCEPT ![JobID[j]] = j]
      /\ at' = [at EXCEPT ![w] = "attempt"]
      /\ UNCHANGED <<jobs, history, cur, retries, lastErr, building, canceled, stopper, ctxDone>>
  BY DEF Begin, attempts, stopping
<1>2. j \in Jobs /\ JobID[j] \in IDs /\ jobStatus[j] = "queued"
  BY <1>1 DEF QueueInv, QueueTypeOK, StageMatchesStatus, IDs
<1>3. \A v \in Workers : v # w => cur[v] # j
  BY <1>2 DEF QueueInv, JobInOnePlace
<1>4. \A i \in DOMAIN jobs : jobs[i] # j /\ jobs[i] \in Jobs
  BY <1>2 DEF QueueInv, QueueTypeOK, JobInOnePlace
<1>5. \A k \in Jobs : JobID[k] \in IDs
  BY DEF IDs
<1> HIDE DEF j
<1>6. QueueTypeOK'
  BY <1>1, <1>2 DEF QueueInv, QueueTypeOK
<1>7. JobInOnePlace'
  BY <1>1, <1>2 DEF QueueInv, QueueTypeOK, JobInOnePlace
<1>8. StageMatchesStatus'
  <2>1. cur[w] = j /\ \A k \in Jobs : k # j => jobStatus'[k] = jobStatus[k]
    BY <1>1 DEF j, QueueInv, QueueTypeOK
  <2> QED BY <1>1, <1>2, <1>3, <1>4, <2>1 DEF QueueInv, QueueTypeOK, StageMatchesStatus
<1>9. ActiveIsRunning'
  <2> SUFFICES ASSUME UniqueIDs, NEW k \in Jobs
               PROVE  active'[JobID[k]] = k <=> jobStatus'[k] = "running"
    BY DEF ActiveIsRunning, UniqueIDs
  <2> QED BY <1>1, <1>2, <1>5 DEF QueueInv, QueueTypeOK, ActiveIsRunning, UniqueIDs
<1>10. MutexIsHeld'
  BY <1>1 DEF QueueInv, QueueTypeOK, MutexIsHeld
<1> QED BY <1>6, <1>7, <1>8, <1>9, <1>10 DEF QueueInv

LEMMA FinishInv == ASSUME QueueInv, NEW w \in Workers, Finish(w) PROVE QueueInv'
<1> USE QueueAssumption
<1> DEFINE j == cur[w]
           end == IF lastErr[j] = "none" THEN "completed" ELSE "failed"
<1>1. /\ at[w] = "finish"
      /\ active' = [active EXCEPT ![JobID[j]] = NoJob]
      /\ history' = AddToHistory(j)
      /\ jobStatus' = [jobStatus EXCEPT ![j] = end]
      /\ cur' = [cur EXCEPT ![w] = NoJob] /\ at' = [at EXCEPT ![w] = "idle"]
      /\ UNCHANGED <<jobs, retries, lastErr, building, canceled, stopper, ctxDone>>
  BY DEF Finish, attempts, stopping
<1>2. j \in Jobs /\ JobID[j] \in IDs /\ jobStatus[j] = "running"
  <2>1. at[w] = "finish"
    BY <1>1
  <2>2. cur[w] \in Jobs
    BY <2>1 DEF QueueInv, QueueTypeOK
  <2>3. jobStatus[cur[w]] = "running"
    BY <2>1 DEF QueueInv, StageMatchesStatus
  <2> QED BY <2>2, <2>3 DEF IDs
<1>3. \A v \in Workers : v # w => cur[v] # j
  BY <1>2 DEF QueueInv, JobInOnePlace
<1>4. \A i \in DOMAIN jobs : jobs[i] # j /\ jobs[i] \in Jobs
  BY <1>2 DEF QueueInv, QueueTypeOK, JobInOnePlace
<1>5. \A k \in Jobs : JobID[k] \in IDs
  BY DEF IDs
<1>6. end \in {"completed", "failed"}
  OBVIOUS
<1>7. history' \in Seq(Jobs) /\ Len(history') <= HistorySize
  <2>1. Append(history, j) \in Seq(Jobs) /\ Append(history, j) # <<>>
        /\ Len(Append(history, j)) = Len(history) + 1
    BY <1>2, Appended DEF QueueInv, QueueTypeOK
  <2>3. Tail(Append(history, j)) \in Seq(Jobs) /\ Len(Tail(Append(history, j))) = Len(history)
    BY <2>1, HeadAndTail DEF QueueInv, QueueTypeOK
  <2> QED BY <1>1, <2>1, <2>3, SMTT(40) DEF AddToHistory, QueueInv, QueueTypeOK
<1> HIDE DEF j, end
<1>8. cur[w] = j /\ \A k \in Jobs : k # j => jobStatus'[k] = jobStatus[k]
  BY <1>1 DEF j, QueueInv, QueueTypeOK
<1>9. QueueTypeOK'
  BY <1>1, <1>2, <1>6, <1>7 DEF QueueInv, QueueTypeOK
<1>10. JobInOnePlace'
  BY <1>1, <1>2, <1>3, <1>4, <1>6, <1>8, SMTT(30) DEF QueueInv, QueueTypeOK, JobInOnePlace
<1>11. StageMatchesStatus'
  BY <1>1, <1>2, <1>3, <1>4, <1>6, <1>8 DEF QueueInv, QueueTypeOK, StageMatchesStatus
<1>12. ActiveIsRunning'
  <2> SUFFICES ASSUME UniqueIDs, NEW k \in Jobs
               PROVE  active'[JobID[k]] = k <=> jobStatus'[k] = "running"
    BY DEF ActiveIsRunning, UniqueIDs
  <2> QED BY <1>1, <1>2, <1>5, <1>6 DEF QueueInv, QueueTypeOK, ActiveIsRunning, UniqueIDs
<1>13. MutexIsHeld'
  BY <1>1 DEF QueueInv, QueueTypeOK, MutexIsHeld
<1> QED BY <1>9, <1>10, <1>11, <1>12, <1>13 DEF QueueInv

(* The steps of an attempt move one worker within the stages of a running   *)
(* job.                                                                     *)
LEMMA AttemptInv ==
  ASSUME QueueInv, NEW w \in Workers,
         \/ BuildStart(w) \/ BuildOk(w) \/ BackoffEnds(w) \/ BackoffCanceled(w)
         \/ \E kind \in {"transient", "fatal"} : BuildFails(w, kind)
  PROVE  QueueInv'
<1> USE QueueAssumption
<1> DEFINE Stages == {"attempt", "building", "backoff", "finish"}
<1>1. PICK to \in Stages : at' = [at EXCEPT ![w] = to]
  BY DEF BuildStart, BuildOk, BuildFails, BackoffEnds, BackoffCanceled
<1>2. /\ at[w] \in Stages
      /\ UNCHANGED <<jobs, jobStatus, active, history, cur, canceled, stopper, ctxDone>>
  BY DEF BuildStart, BuildOk, BuildFails, BackoffEnds, BackoffCanceled, attempts, stopping
<1>3. cur[w] \in Jobs
  BY <1>2 DEF QueueInv, QueueTypeOK
<1>4. lastErr' \in [Jobs -> {"none", "transient", "fatal", "canceled"}] /\ building' \in Workers \cup {Nobody}
  <2>1. lastErr' = lastErr \/ \E e \in {"none", "transient", "fatal", "canceled"} : lastErr' = [lastErr EXCEPT ![cur[w]] = e]
    BY DEF BuildStart, BuildOk, BuildFails, BackoffEnds, BackoffCanceled, attempts
  <2>2. building' \in {building, w, Nobody}
    BY DEF BuildStart, BuildOk, BuildFails, BackoffEnds, BackoffCanceled
  <2>3. /\ lastErr \in [Jobs -> {"none", "transient", "fatal", "canceled"}]
        /\ building \in Workers \cup {Nobody}
    BY DEF QueueInv, QueueTypeOK
  <2> QED BY <1>3, <2>1, <2>2, <2>3
<1>5. retries' \in [Jobs -> 0 .. MaxRetries]
  <2>1. CASE retries' = retries
    BY <2>1 DEF QueueInv, QueueTypeOK
  <2>2. CASE retries' # retries
    <3>1. retries' = [retries EXCEPT ![cur[w]] = retries[cur[w]] + 1] /\ ~(retries[cur[w]] >= MaxRetries)
      BY <2>2 DEF BuildStart, BuildOk, BuildFails, BackoffEnds, BackoffCanceled, attempts, ShouldStopRetrying
    <3>2. retries[cur[w]] + 1 \in 0 .. MaxRetries
      BY <1>3, <3>1 DEF QueueInv, QueueTypeOK
    <3> QED BY <1>3, <3>1, <3>2 DEF QueueInv, QueueTypeOK
  <2> QED BY <2>1, <2>2
<1>6. QueueTypeOK'
  BY <1>1, <1>2, <1>3, <1>4, <1>5 DEF QueueInv, QueueTypeOK
<1>7. JobInOnePlace' /\ ActiveIsRunning'
  BY <1>2 DEF QueueInv, JobInOnePlace, ActiveIsRunning, UniqueIDs
<1>8. StageMatchesStatus'
  BY <1>1, <1>2 DEF QueueInv, QueueTypeOK, StageMatchesStatus
<1>9. MutexIsHeld'
  BY DEF QueueInv, QueueTypeOK, MutexIsHeld, BuildStart, BuildOk, BuildFails, BackoffEnds, BackoffCanceled
<1> QED BY <1>6, <1>7, <1>8, <1>9 DEF QueueInv

(* Stopping touches neither the jobs nor what the workers do with them.     *)
LEMMA StoppingInv ==
  ASSUME QueueInv,
         (\E w \in Workers : Quit(w)) \/ StopCall \/ QueueStopCancel \/ QueueStopReturns \/ CancelRun
         \/ UNCHANGED queueVars
  PROVE  QueueInv'
<1> USE QueueAssumption
<1>1. UNCHANGED <<jobs, jobStatus, active, history, cur, retries, lastErr, building>>
  BY DEF Quit, StopCall, QueueStopCancel, QueueStopReturns, CancelRun, work, attempts, queueVars
<1>2. \/ at' = at
      \/ \E w \in Workers : at[w] = "idle" /\ at' = [at EXCEPT ![w] = "gone"]
  BY DEF Quit, StopCall, QueueStopCancel, QueueStopReturns, CancelRun, work, queueVars
<1>3. /\ canceled' \subseteq Jobs /\ ctxDone' \in BOOLEAN
      /\ stopper' \in {"none", "canceling", "waiting", "returned"}
  <2>1. {active[id] : id \in IDs} \ {NoJob} \subseteq Jobs
    BY DEF QueueInv, QueueTypeOK
  <2>2. canceled' = canceled \/ canceled' = canceled \cup ({active[id] : id \in IDs} \ {NoJob})
    BY DEF Quit, StopCall, QueueStopCancel, QueueStopReturns, CancelRun, stopping, queueVars
  <2>3. ctxDone' \in {ctxDone, TRUE} /\ stopper' \in {stopper, "canceling", "waiting", "returned"}
    BY DEF Quit, StopCall, QueueStopCancel, QueueStopReturns, CancelRun, stopping, queueVars
  <2> QED BY <2>1, <2>2, <2>3 DEF QueueInv, QueueTypeOK
<1>4. QueueTypeOK'
  BY <1>1, <1>2, <1>3 DEF QueueInv, QueueTypeOK
<1>5. JobInOnePlace' /\ ActiveIsRunning'
  BY <1>1 DEF QueueInv, JobInOnePlace, ActiveIsRunning, UniqueIDs
<1>6. StageMatchesStatus'
  <2>1. \A w \in Workers : at'[w] = at[w] \/ (at[w] = "idle" /\ at'[w] = "gone")
    BY <1>2 DEF QueueInv, QueueTypeOK
  <2> QED BY <1>1, <2>1 DEF QueueInv, StageMatchesStatus
<1>7. MutexIsHeld'
  BY <1>1, <1>2 DEF QueueInv, QueueTypeOK, MutexIsHeld
<1> QED BY <1>4, <1>5, <1>6, <1>7 DEF QueueInv

LEMMA QueueStep == QueueInv /\ [QueueNext]_queueVars => QueueInv'
<1> SUFFICES ASSUME QueueInv, [QueueNext]_queueVars PROVE QueueInv'
  OBVIOUS
<1> QED BY EnqueueInv, TakeInv, BeginInv, FinishInv, AttemptInv, StoppingInv DEF QueueNext, WorkerStep

(* The queue loses no job and doubles none: whatever the interleaving of    *)
(* Enqueue, the workers and Stop, an accepted job that has not ended waits  *)
(* once in the channel or is with one worker, and the active map, which     *)
(* CheckBuildRunning and Stop read, holds exactly the running ones.         *)
THEOREM QueueKeepsJobs == QueueSpec => [](QueueTypeOK /\ JobInOnePlace /\ ActiveIsRunning)
<1>1. QueueInv => QueueTypeOK /\ JobInOnePlace /\ ActiveIsRunning
  BY DEF QueueInv
<1> QED BY QueueStarts, QueueStep, <1>1, PTL DEF QueueSpec

-----------------------------------------------------------------------------
(* One build at a time: the adapter's mutex serializes the workers, however *)
(* many there are.                                                          *)
OneBuildAtATime == \A v, w \in Workers : at[v] = "building" /\ at[w] = "building" => v = w

(* Two workers never build at once, with any number of workers, retries and *)
(* cancellations (BuildServiceAdapter.Build).                               *)
THEOREM BuildsAreSerialized == QueueSpec => []OneBuildAtATime
<1>1. QueueInv => OneBuildAtATime
  BY DEF QueueInv, MutexIsHeld, OneBuildAtATime
<1> QED BY QueueStarts, QueueStep, <1>1, PTL DEF QueueSpec

(* The error with which a worker leaves executeBuild.                       *)
LEMMA RetriesStep ==
  ASSUME ReportsErrors, QueueInv, GaveUpAfterRetries, TransientIsRetried, [QueueNext]_queueVars
  PROVE  GaveUpAfterRetries' /\ TransientIsRetried'
<1> USE QueueAssumption
<1>1. ASSUME NEW w \in Workers, Begin(w) \/ Take(w)
      PROVE  GaveUpAfterRetries' /\ TransientIsRetried'
  <2>1. CASE Begin(w)
    <3>1. GaveUpAfterRetries'
      BY <2>1 DEF Begin, attempts, QueueInv, QueueTypeOK, GaveUpAfterRetries
    <3>2. TransientIsRetried'
      BY <2>1 DEF Begin, attempts, QueueInv, QueueTypeOK, TransientIsRetried
    <3> QED BY <3>1, <3>2
  <2>2. CASE Take(w)
    <3>1. GaveUpAfterRetries'
      BY <2>2 DEF Take, attempts, QueueInv, QueueTypeOK, GaveUpAfterRetries
    <3>2. TransientIsRetried'
      BY <2>2 DEF Take, attempts, QueueInv, QueueTypeOK, TransientIsRetried
    <3> QED BY <3>1, <3>2
  <2> QED BY <1>1, <2>1, <2>2
<1>2. ASSUME NEW w \in Workers, Finish(w) PROVE GaveUpAfterRetries' /\ TransientIsRetried'
  <2>1. cur[w] \in Jobs
    BY <1>2 DEF Finish, QueueInv, QueueTypeOK
  <2>2. TransientIsRetried'
    BY <1>2, <2>1 DEF Finish, attempts, QueueInv, QueueTypeOK, GaveUpAfterRetries, TransientIsRetried
  <2>3. GaveUpAfterRetries'
    BY <1>2, <2>1 DEF Finish, attempts, QueueInv, QueueTypeOK, GaveUpAfterRetries
  <2> QED BY <2>2, <2>3
<1>3. ASSUME NEW w \in Workers,
             \/ BuildStart(w) \/ BuildOk(w) \/ BackoffEnds(w) \/ BackoffCanceled(w)
             \/ \E kind \in {"transient", "fatal"} : BuildFails(w, kind)
      PROVE  GaveUpAfterRetries' /\ TransientIsRetried'
  <2>1. /\ cur[w] \in Jobs /\ jobStatus[cur[w]] = "running"
        /\ \A v \in Workers : v # w => cur[v] # cur[w]
    <3>1. at[w] \in {"attempt", "building", "backoff", "finish"}
      BY <1>3 DEF BuildStart, BuildOk, BuildFails, BackoffEnds, BackoffCanceled
    <3>2. cur[w] \in Jobs
      BY <3>1 DEF QueueInv, QueueTypeOK
    <3> QED BY <3>1, <3>2 DEF QueueInv, StageMatchesStatus, JobInOnePlace
  <2>2. UNCHANGED <<jobStatus, cur>> /\ \A v \in Workers : v # w => at'[v] = at[v]
    BY <1>3 DEF BuildStart, BuildOk, BuildFails, BackoffEnds, BackoffCanceled, QueueInv, QueueTypeOK
  <2>3. \A j \in Jobs : j # cur[w] => retries'[j] = retries[j] /\ lastErr'[j] = lastErr[j]
    BY <1>3, <2>1 DEF BuildStart, BuildOk, BuildFails, BackoffEnds, BackoffCanceled, attempts, QueueInv, QueueTypeOK
  <2>4. TransientIsRetried'
    BY <2>1, <2>2, <2>3 DEF TransientIsRetried
  <2>5. at'[w] = "finish" /\ lastErr'[cur[w]] = "transient" => retries'[cur[w]] = MaxRetries
    <3>1. CASE BuildStart(w) \/ BackoffEnds(w)
      BY <3>1 DEF BuildStart, BackoffEnds, QueueInv, QueueTypeOK
    <3>2. CASE BuildOk(w) \/ BackoffCanceled(w)
      BY <3>2, <2>1 DEF BuildOk, BackoffCanceled, QueueInv, QueueTypeOK
    <3>3. ASSUME NEW kind \in {"transient", "fatal"}, BuildFails(w, kind),
                 at'[w] = "finish", lastErr'[cur[w]] = "transient"
          PROVE  retries'[cur[w]] = MaxRetries
      <4>1. kind = "transient"
        BY <3>3, <2>1 DEF BuildFails, QueueInv, QueueTypeOK
      <4>2. ShouldStopRetrying(kind, retries[cur[w]])
        BY <3>3 DEF BuildFails, QueueInv, QueueTypeOK
      <4>3. retries' = retries /\ retries[cur[w]] >= MaxRetries
        BY <3>3, <4>1, <4>2 DEF BuildFails, ShouldStopRetrying, Transient
      <4> QED BY <4>3, <2>1 DEF QueueInv, QueueTypeOK
    <3> QED BY <1>3, <3>1, <3>2, <3>3
  <2>6. \A v \in Workers : at[v] = "finish" => cur[v] \in Jobs
    BY DEF QueueInv, QueueTypeOK
  <2>7. GaveUpAfterRetries'
    BY <2>1, <2>2, <2>3, <2>5, <2>6 DEF GaveUpAfterRetries
  <2> QED BY <2>4, <2>7
<1>4. ASSUME NEW j \in Jobs, Enqueue(j) PROVE GaveUpAfterRetries' /\ TransientIsRetried'
  BY <1>4 DEF Enqueue, work, attempts, QueueInv, QueueTypeOK, GaveUpAfterRetries, TransientIsRetried
<1>5. CASE (\E w \in Workers : Quit(w)) \/ StopCall \/ QueueStopCancel \/ QueueStopReturns \/ CancelRun
           \/ UNCHANGED queueVars
  BY <1>5 DEF Quit, StopCall, QueueStopCancel, QueueStopReturns, CancelRun, work, attempts, queueVars, QueueInv, QueueTypeOK,
      GaveUpAfterRetries, TransientIsRetried
<1> QED BY <1>1, <1>2, <1>3, <1>4, <1>5 DEF QueueNext, WorkerStep

(* With a Builder that returns its report together with an error, every job *)
(* is accounted for at every moment: in one place, in the active map while  *)
(* it runs, and failed on a transient error only after MaxRetries retries.  *)
THEOREM AccountedFor == ASSUME ReportsErrors PROVE QueueSpec => []JobsAccountedFor
<1> DEFINE RInv == QueueInv /\ GaveUpAfterRetries /\ TransientIsRetried
<1>1. QueueInit => RInv
  BY QueueStarts DEF QueueInit, GaveUpAfterRetries, TransientIsRetried
<1>2. RInv /\ [QueueNext]_queueVars => RInv'
  BY QueueStep, RetriesStep
<1>3. RInv => JobsAccountedFor
  BY DEF QueueInv, JobsAccountedFor
<1> QED BY <1>1, <1>2, <1>3, PTL DEF QueueSpec

(* The retries of a Builder that returns no report with an error, as the    *)
(* daemon's BuildServiceAdapter does.                                       *)
NeverRetried == \A j \in Jobs : retries[j] = 0

(* With such a Builder no failure counts as transient: nothing is retried,  *)
(* whatever max_retries says.                                               *)
THEOREM WithoutReportNoRetry == ASSUME ~ReportsErrors PROVE QueueSpec => []NeverRetried
<1>1. QueueInit => NeverRetried
  BY DEF QueueInit, NeverRetried
<1>2. NeverRetried /\ [QueueNext]_queueVars => NeverRetried'
  <2> SUFFICES ASSUME NeverRetried, [QueueNext]_queueVars PROVE retries' = retries
    BY DEF NeverRetried
  <2>1. \A w \in Workers, kind \in {"transient", "fatal"} : BuildFails(w, kind) => retries' = retries
    BY DEF BuildFails, ShouldStopRetrying, Transient
  <2> QED BY <2>1 DEF QueueNext, WorkerStep, Enqueue, Take, Quit, Begin, BuildStart, BuildOk, BackoffEnds,
              BackoffCanceled, Finish, StopCall, QueueStopCancel, QueueStopReturns, CancelRun, attempts, queueVars
<1> QED BY <1>1, <1>2, PTL DEF QueueSpec

=============================================================================
