------------------------ MODULE BuildDebouncerProofs ------------------------
(***************************************************************************)
(* Proofs about BuildDebouncer for every value of its constants: it is type *)
(* correct, a follow-up that waits for a running build always has the poll  *)
(* timer armed, and the max-delay timer measures the age of its batch.      *)
(***************************************************************************)
EXTENDS BuildDebouncer, TLAPS

(* A batch that waits for a build is pending, and only such a batch polls. *)
WaitingIsPending ==
  /\ pendingAfterRun => pending
  /\ pollingAfterRun => pendingAfterRun
  /\ at \in {"publish", "emitted"} => pending

(* FollowUpIsPolled, extended to the states inside a select case: the poll  *)
(* timer may be disarmed there only when its own case is being served.      *)
PollArmed ==
  pendingAfterRun =>
    \/ pollC # Off
    \/ at \in {"tryEmit", "publish", "emitted"} /\ cause = "after_running"

(* MaxDelayMeasuresBatch, extended to the states inside a select case; time *)
(* may pass while Publish blocks, but then the timer is about to be reset.  *)
MaxArmed ==
  maxC # Off /\ ~pendingAfterRun =>
    /\ pending
    /\ at \notin {"publish", "emitted"} => age + maxC = MaxDelay

IInv == TypeOK /\ WaitingIsPending /\ PollArmed /\ MaxArmed

-----------------------------------------------------------------------------
(* Sequences of requests and of BuildNow events stay typed and bounded.    *)
LEMMA TailType ==
  ASSUME NEW S, NEW s \in Seq(S), s # <<>>
  PROVE  /\ Tail(s) \in Seq(S) /\ Head(s) \in S
         /\ Len(s) \in Nat \ {0} /\ Len(Tail(s)) = Len(s) - 1
  OBVIOUS

LEMMA AppendType ==
  ASSUME NEW S, NEW s \in Seq(S), NEW e \in S
  PROVE  Append(s, e) \in Seq(S) /\ Len(Append(s, e)) = Len(s) + 1 /\ Len(s) \in Nat
  OBVIOUS

(* onRequest keeps the batch typed and opens a batch of age 0.             *)
LEMMA OnRequestType ==
  ASSUME NEW req \in BuildRequested, TypeOK, OnRequest(req)
  PROVE  /\ pending' \in BOOLEAN /\ pendingAfterRun' = pendingAfterRun
         /\ pollingAfterRun' = pollingAfterRun
         /\ requestCount' \in 0 .. 2 /\ age' \in 0 .. (MaxDelay + 1)
         /\ lastJobID' \in JobIDs \cup {NoJob} /\ lastEmittedJobID' = lastEmittedJobID
         /\ snapshot' \in Snapshots
         /\ pending => pending' /\ age' = age /\ requestCount' = 2
         /\ (~pending /\ pending') => age' = 0 /\ requestCount' = 1
<1> USE DebouncerAssumption
<1>1. CASE Deduped(req)
  BY <1>1 DEF OnRequest, batch, TypeOK, Deduped
<1>2. CASE ~Deduped(req)
  <2>1. req.job \in JobIDs \cup {NoJob} /\ req.snapshot \in Snapshots
    BY DEF BuildRequested
  <2>2. NoSnapshot \in Snapshots
    BY DEF NoSnapshot, Snapshots
  <2>3. \A old \in Snapshots : Merge(old, req.snapshot) \in Snapshots
    BY <2>1 DEF Merge, Snapshots
  <2> QED
    BY <1>2, <2>1, <2>2, <2>3 DEF OnRequest, TypeOK
<1> QED BY <1>1, <1>2

LEMMA InitIInv == Init => IInv
<1> SUFFICES ASSUME Init PROVE IInv
  OBVIOUS
<1>1. NoSnapshot \in Snapshots
  BY DEF NoSnapshot, Snapshots
<1>2. /\ reqCh \in Seq(BuildRequested) /\ Len(reqCh) <= ReqBuffer
      /\ nowCh \in Seq(BuildNow) /\ Len(nowCh) <= NowBuffer
  BY DebouncerAssumption DEF Init
<1>3. /\ requestCount \in 0 .. 2 /\ age \in 0 .. (MaxDelay + 1)
      /\ quietC \in Timer(QuietWindow) /\ maxC \in Timer(MaxDelay) /\ pollC \in Timer(PollInterval)
  BY DebouncerAssumption DEF Init, Timer
<1>4. TypeOK
  BY <1>1, <1>2, <1>3 DEF Init, TypeOK, Causes
<1>5. WaitingIsPending /\ PollArmed /\ MaxArmed
  BY DEF Init, WaitingIsPending, PollArmed, MaxArmed
<1> QED BY <1>4, <1>5 DEF IInv

LEMMA StepIInv == IInv /\ [Next]_vars => IInv'
<1> SUFFICES ASSUME IInv, [Next]_vars PROVE IInv'
  OBVIOUS
<1> USE DebouncerAssumption
<1>1. CASE Subscribe
  BY <1>1 DEF Subscribe, IInv, TypeOK, WaitingIsPending, PollArmed, MaxArmed,
      batch, timers, env
<1>2. CASE Receive
  <2> DEFINE req == Head(reqCh)
  <2>1. reqCh # <<>> /\ reqCh' = Tail(reqCh) /\ OnRequest(req) /\ at = "select"
    BY <1>2 DEF Receive
  <2>2. req \in BuildRequested /\ reqCh' \in Seq(BuildRequested) /\ Len(reqCh') <= ReqBuffer
    BY <2>1, TailType DEF IInv, TypeOK
  <2> HIDE DEF req
  <2>3. /\ pending' \in BOOLEAN /\ pendingAfterRun' = pendingAfterRun
        /\ pollingAfterRun' = pollingAfterRun
        /\ requestCount' \in 0 .. 2 /\ age' \in 0 .. (MaxDelay + 1)
        /\ lastJobID' \in JobIDs \cup {NoJob} /\ lastEmittedJobID' = lastEmittedJobID
        /\ snapshot' \in Snapshots
        /\ pending => pending' /\ age' = age /\ requestCount' = 2
        /\ (~pending /\ pending') => age' = 0 /\ requestCount' = 1
    BY <2>1, <2>2, OnRequestType DEF IInv
  <2>4. TypeOK'
    BY <1>2, <2>1, <2>2, <2>3, SMTT(40)
    DEF Receive, PollAfterRun, IInv, TypeOK, loop, timers, Timer, Off, Causes
  <2>5. (WaitingIsPending /\ PollArmed)'
    BY <1>2, <2>1, <2>3
    DEF Receive, PollAfterRun, IInv, TypeOK, WaitingIsPending, PollArmed, loop, timers, Timer, Off
  <2>6. MaxArmed'
    <3>1. CASE pending
      BY <1>2, <2>1, <2>3, <3>1 DEF Receive, IInv, TypeOK, MaxArmed, loop, timers
    <3>2. CASE ~pending
      BY <1>2, <2>1, <2>3, <3>2
      DEF Receive, IInv, TypeOK, WaitingIsPending, MaxArmed, loop, timers
    <3> QED BY <3>1, <3>2
  <2> QED BY <2>4, <2>5, <2>6 DEF IInv
<1>3. CASE QuietFires
  BY <1>3 DEF QuietFires, IInv, TypeOK, WaitingIsPending, PollArmed, MaxArmed,
      batch, env, Timer, Off, Causes
<1>4. CASE MaxFires
  BY <1>4 DEF MaxFires, IInv, TypeOK, WaitingIsPending, PollArmed, MaxArmed,
      batch, env, Timer, Off, Causes
<1>5. CASE PollFires
  <2>1. TypeOK'
    <3>1. /\ quietC' \in Timer(QuietWindow) /\ maxC' \in Timer(MaxDelay)
          /\ pollC' \in Timer(PollInterval)
      BY <1>5 DEF PollFires, IInv, TypeOK, Timer
    <3>2. pollingAfterRun' \in BOOLEAN
      BY <1>5 DEF PollFires, IInv, TypeOK
    <3>3. at' \in {"select", "tryEmit"} /\ cause' \in Causes
      BY <1>5 DEF PollFires, IInv, TypeOK, loop, Causes
    <3> QED
      BY <1>5, <3>1, <3>2, <3>3 DEF PollFires, IInv, TypeOK, env
  <2>2. (WaitingIsPending /\ PollArmed /\ MaxArmed)'
    BY <1>5 DEF PollFires, IInv, TypeOK, WaitingIsPending, PollArmed, MaxArmed, loop, Off
  <2> QED BY <2>1, <2>2 DEF IInv
<1>6. CASE TryEmit
  <2>1. CASE ~pending
    BY <1>6, <2>1 DEF TryEmit, Returns, IInv, TypeOK, WaitingIsPending, PollArmed, MaxArmed,
        batch, env, Timer, Off
  <2>2. CASE pending /\ running
    <3>1. TypeOK'
      BY <1>6, <2>2 DEF TryEmit, Returns, PollAfterRun, IInv, TypeOK, env, Timer, Off
    <3>2. (WaitingIsPending /\ PollArmed /\ MaxArmed)'
      BY <1>6, <2>2 DEF TryEmit, Returns, PollAfterRun, IInv, TypeOK, WaitingIsPending,
          PollArmed, MaxArmed, Off
    <3> QED BY <3>1, <3>2 DEF IInv
  <2>3. CASE pending /\ ~running
    <3>1. at' = "publish" /\ UNCHANGED <<cause, batch, timers, env>>
      BY <1>6, <2>3 DEF TryEmit
    <3> QED
      BY <1>6, <2>3, <3>1 DEF TryEmit, IInv, TypeOK, WaitingIsPending, PollArmed, MaxArmed,
          batch, timers, env
  <2> QED BY <2>1, <2>2, <2>3
<1>7. CASE PublishOk
  <2>1. [job |-> lastJobID, snapshot |-> snapshot] \in BuildNow
    BY DEF IInv, TypeOK, BuildNow
  <2>2. nowCh' \in Seq(BuildNow) /\ Len(nowCh') <= NowBuffer
    <3>1. CASE nowSub
      BY <1>7, <2>1, <3>1, AppendType, SMTT(30) DEF PublishOk, IInv, TypeOK
    <3>2. CASE ~nowSub
      BY <1>7, <3>2 DEF PublishOk, IInv, TypeOK
    <3> QED BY <3>1, <3>2
  <2> QED
    BY <1>7, <2>2 DEF PublishOk, IInv, TypeOK, WaitingIsPending, PollArmed, MaxArmed,
        batch, timers
<1>8. CASE PublishFails
  <2>1. TypeOK'
    <3>1. /\ quietC' \in Timer(QuietWindow) /\ maxC' \in Timer(MaxDelay)
          /\ pollC' \in Timer(PollInterval)
      BY <1>8 DEF PublishFails, Returns, PollAfterRun, IInv, TypeOK, Timer
    <3>2. pendingAfterRun' \in BOOLEAN /\ pollingAfterRun' \in BOOLEAN
      BY <1>8 DEF PublishFails
    <3> QED
      BY <1>8, <3>1, <3>2 DEF PublishFails, Returns, IInv, TypeOK, env
  <2>2. (WaitingIsPending /\ PollArmed /\ MaxArmed)'
    BY <1>8 DEF PublishFails, Returns, PollAfterRun, IInv, TypeOK, WaitingIsPending,
        PollArmed, MaxArmed, Off
  <2> QED BY <2>1, <2>2 DEF IInv
<1>9. CASE Emitted
  <2>1. NoSnapshot \in Snapshots
    BY DEF NoSnapshot, Snapshots
  <2>2. TypeOK'
    <3>1. /\ quietC' \in Timer(QuietWindow) /\ maxC' \in Timer(MaxDelay)
          /\ pollC' \in Timer(PollInterval) /\ age' \in 0 .. (MaxDelay + 1)
      BY <1>9 DEF Emitted, Returns, IInv, TypeOK, Timer
    <3>2. /\ pending' \in BOOLEAN /\ pendingAfterRun' \in BOOLEAN /\ pollingAfterRun' \in BOOLEAN
      BY <1>9 DEF Emitted
    <3> QED
      BY <1>9, <2>1, <3>1, <3>2 DEF Emitted, Returns, IInv, TypeOK, env
  <2>3. (WaitingIsPending /\ PollArmed /\ MaxArmed)'
    BY <1>9 DEF Emitted, Returns, WaitingIsPending, PollArmed, MaxArmed
  <2> QED
    BY <2>2, <2>3 DEF IInv
<1>10. CASE Done
  BY <1>10 DEF Done, IInv, TypeOK, WaitingIsPending, PollArmed, MaxArmed,
      batch, timers, env
<1>11. CASE Tick
  BY <1>11 DEF Tick, Counted, IInv, TypeOK, WaitingIsPending, PollArmed, MaxArmed,
      loop, env, Timer, Off
<1>12. ASSUME NEW req \in BuildRequested, Request(req) PROVE IInv'
  <2>1. reqCh' \in Seq(BuildRequested) /\ Len(reqCh') <= ReqBuffer
    BY <1>12, AppendType DEF Request, IInv, TypeOK
  <2> QED
    BY <1>12, <2>1 DEF Request, IInv, TypeOK, WaitingIsPending, PollArmed, MaxArmed,
        loop, batch, timers
<1>13. CASE BuildStarts
  <2>1. nowCh' \in Seq(BuildNow) /\ Len(nowCh') <= NowBuffer
    BY <1>13, TailType DEF BuildStarts, IInv, TypeOK
  <2> QED
    BY <1>13, <2>1 DEF BuildStarts, IInv, TypeOK, WaitingIsPending, PollArmed, MaxArmed,
        loop, batch, timers
<1>14. CASE ConsumerSubscribes \/ BuildEnds \/ Cancel
  <2>1. UNCHANGED <<loop, batch, timers, reqCh, nowCh>>
    BY <1>14 DEF ConsumerSubscribes, BuildEnds, Cancel
  <2>2. nowSub' \in BOOLEAN /\ running' \in BOOLEAN /\ ctxDone' \in BOOLEAN
    BY <1>14 DEF ConsumerSubscribes, BuildEnds, Cancel, IInv, TypeOK
  <2> QED
    BY <2>1, <2>2 DEF IInv, TypeOK, WaitingIsPending, PollArmed, MaxArmed, loop, batch, timers
<1>15. CASE UNCHANGED vars
  BY <1>15 DEF vars, loop, batch, timers, env, IInv, TypeOK, WaitingIsPending, PollArmed, MaxArmed
<1> QED
  BY <1>1, <1>2, <1>3, <1>4, <1>5, <1>6, <1>7, <1>8, <1>9, <1>10, <1>11, <1>12, <1>13,
     <1>14, <1>15
  DEF Next, RunStep

-----------------------------------------------------------------------------
(* The inductive invariant holds in every reachable state of the debouncer. *)
THEOREM IInvHolds == Spec => []IInv
  BY InitIInv, StepIInv, PTL DEF Spec

(* Run and its environment keep every variable in its type.                *)
THEOREM TypeCorrect == Spec => []TypeOK
<1>1. IInv => TypeOK
  BY DEF IInv
<1> QED BY <1>1, IInvHolds, PTL

(* A follow-up behind a running build is never forgotten by the select loop. *)
THEOREM FollowUpNeverForgotten == Spec => []FollowUpIsPolled
<1>1. IInv => FollowUpIsPolled
  BY DEF IInv, PollArmed, FollowUpIsPolled
<1> QED BY <1>1, IInvHolds, PTL

(* The armed max-delay timer and the age of the batch add up to MaxDelay.  *)
THEOREM MaxDelayExact == Spec => []MaxDelayMeasuresBatch
<1>1. IInv => MaxDelayMeasuresBatch
  BY DEF IInv, MaxArmed, MaxDelayMeasuresBatch
<1> QED BY <1>1, IInvHolds, PTL

-----------------------------------------------------------------------------
(* The debouncer implements BuildCoalescing.                               *)

(* The waiting batch as BuildCoalescing sees it.                            *)
Waiting == IF pending /\ at # "emitted" THEN {[job |-> lastJobID, snapshot |-> snapshot]} ELSE {}
Left == IF at = "emitted" THEN lastJobID ELSE lastEmittedJobID

(* A step that touches neither channel nor the batch is invisible.         *)
LEMMA Invisible ==
  ASSUME Waiting' = Waiting, Left' = Left, UNCHANGED <<reqCh, nowCh, nowSub>>
  PROVE  UNCHANGED C!vars
  BY DEF Waiting, Left, C!vars

(* onRequest joins the request to the batch as BuildCoalescing does: the    *)
(* merged snapshot has, for every repository, the commit pinned last.       *)
LEMMA ReceiveTakes ==
  ASSUME IInv, Receive PROVE C!Take
<1> DEFINE req == Head(reqCh)
<1>1. /\ reqCh # <<>> /\ reqCh' = Tail(reqCh) /\ OnRequest(req) /\ at = "select"
      /\ at' # "emitted" /\ UNCHANGED <<nowCh, nowSub>>
  BY DEF Receive, loop
<1>2. req \in BuildRequested
  BY <1>1, TailType DEF IInv, TypeOK
<1>3. Left' = Left
  BY <1>1 DEF OnRequest, batch, Left
<1>4. CASE Deduped(req)
  <2>1. C!Again
    BY <1>1, <1>4 DEF Deduped, C!Again
  <2>2. Waiting' = Waiting
    BY <1>1, <1>4 DEF OnRequest, batch, Waiting
  <2> QED BY <1>1, <1>3, <2>1, <2>2 DEF C!Take, Waiting, Left
<1>5. CASE ~Deduped(req)
  <2> DEFINE old == IF pending THEN snapshot ELSE NoSnapshot
             b == [job |-> req.job, snapshot |-> Merge(old, req.snapshot)]
  <2>1. ~C!Again
    BY <1>1, <1>5 DEF Deduped, C!Again, IInv, TypeOK
  <2>2. Waiting' = {b}
    BY <1>1, <1>5 DEF OnRequest, Waiting
  <2>3. old \in Snapshots /\ req.snapshot \in Snapshots
    BY <1>2 DEF IInv, TypeOK, NoSnapshot, Snapshots, BuildRequested
  <2>4. b \in [job : {req.job}, snapshot : C!Pins]
    BY <2>3 DEF Merge, Snapshots, C!Pins
  <2>5. \A r \in Repos : C!Joined(r) = {b.snapshot[r]} \ {NoCommit}
    <3> SUFFICES ASSUME NEW r \in Repos PROVE C!Joined(r) = {b.snapshot[r]} \ {NoCommit}
      OBVIOUS
    <3>1. b.snapshot[r] = IF req.snapshot[r] = NoCommit THEN old[r] ELSE req.snapshot[r]
      BY DEF Merge
    <3>2. old[r] \in Commits \cup {NoCommit} /\ req.snapshot[r] \in Commits \cup {NoCommit}
      BY <2>3 DEF Snapshots
    <3>3. CASE req.snapshot[r] # NoCommit
      BY <3>1, <3>2, <3>3, DebouncerAssumption DEF C!Joined
    <3>4. CASE req.snapshot[r] = NoCommit /\ pending
      <4>1. C!Joined(r) = {c \in Commits : snapshot[r] = c}
        <5>1. Waiting = {[job |-> lastJobID, snapshot |-> snapshot]}
          BY <1>1, <3>4 DEF Waiting
        <5>2. C!Joined(r) = {c \in Commits : \/ req.snapshot[r] = c
                                             \/ /\ req.snapshot[r] = NoCommit
                                                /\ \E w \in Waiting : w.snapshot[r] = c}
          BY DEF C!Joined, Waiting
        <5>3. \A c : (\E w \in Waiting : w.snapshot[r] = c) <=> snapshot[r] = c
          BY <5>1
        <5> HIDE DEF req
        <5> QED BY <3>4, <5>2, <5>3, DebouncerAssumption
      <4>2. b.snapshot[r] = snapshot[r] /\ snapshot[r] \in Commits \cup {NoCommit}
        BY <3>1, <3>2, <3>4
      <4> HIDE DEF b
      <4> QED BY <4>1, <4>2, DebouncerAssumption
    <3>5. CASE req.snapshot[r] = NoCommit /\ ~pending
      BY <1>1, <3>1, <3>2, <3>5, DebouncerAssumption DEF C!Joined, NoSnapshot
    <3> QED BY <3>3, <3>4, <3>5
  <2> HIDE DEF b
  <2> QED BY <1>1, <1>3, <2>1, <2>2, <2>4, <2>5 DEF C!Take, Waiting, Left
<1> QED BY <1>4, <1>5

LEMMA CoalescingStep == IInv /\ [Next]_vars => [C!Next]_(C!vars)
<1> SUFFICES ASSUME IInv, [Next]_vars PROVE C!Next \/ UNCHANGED C!vars
  OBVIOUS
<1>1. CASE Receive
  BY <1>1, ReceiveTakes DEF C!Next
<1>2. CASE PublishOk
  <2>1. pending /\ at = "publish" /\ at' = "emitted" /\ UNCHANGED batch
    BY <1>2 DEF PublishOk, IInv, WaitingIsPending
  <2>2. C!Leave
    BY <1>2, <2>1 DEF PublishOk, C!Leave, batch
  <2> QED BY <2>2 DEF C!Next
<1>3. ASSUME NEW req \in BuildRequested, Request(req) PROVE C!Next
  <2>1. C!Ask(req)
    BY <1>3 DEF Request, C!Ask, loop, batch
  <2>2. req \in C!Requests
    BY DEF BuildRequested, Snapshots, C!Requests, C!Pins
  <2> QED BY <2>1, <2>2 DEF C!Next
<1>4. CASE ConsumerSubscribes
  <2>1. C!Listen
    BY <1>4 DEF ConsumerSubscribes, C!Listen, loop, batch
  <2> QED BY <2>1 DEF C!Next
<1>5. CASE BuildStarts
  <2>1. C!Build
    BY <1>5 DEF BuildStarts, C!Build, loop, batch
  <2> QED BY <2>1 DEF C!Next
<1>6. CASE Subscribe \/ QuietFires \/ MaxFires \/ Done
  BY <1>6, Invisible DEF Subscribe, QuietFires, MaxFires, Done, Waiting, Left, batch, env
<1>7. CASE PollFires
  BY <1>7, Invisible DEF PollFires, Waiting, Left, loop, env
<1>8. CASE TryEmit
  BY <1>8, Invisible DEF TryEmit, Returns, Waiting, Left, batch, env
<1>9. CASE PublishFails
  BY <1>9, Invisible DEF PublishFails, Returns, Waiting, Left, env
<1>10. CASE Emitted
  BY <1>10, Invisible DEF Emitted, Returns, Waiting, Left, env
<1>11. CASE Tick
  BY <1>11, Invisible DEF Tick, Waiting, Left, loop, env
<1>12. CASE BuildEnds \/ Cancel \/ UNCHANGED vars
  BY <1>12, Invisible DEF BuildEnds, Cancel, vars, loop, batch, env, Waiting, Left
<1> QED
  BY <1>1, <1>2, <1>3, <1>4, <1>5, <1>6, <1>7, <1>8, <1>9, <1>10, <1>11, <1>12 DEF Next, RunStep

(* The debouncer, with its timers, its polling behind running builds and    *)
(* publications that fail, implements the store of one batch.               *)
THEOREM DebouncerCoalesces == Spec => Coalesces
<1>1. Init => C!Init
  BY DEF Init, C!Init
<1> QED BY <1>1, CoalescingStep, IInvHolds, PTL DEF Spec, Coalesces, C!Spec
=============================================================================
