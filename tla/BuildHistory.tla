---------------------------- MODULE BuildHistory ----------------------------
(***************************************************************************)
(* The event store and the build history (internal/eventstore,              *)
(* daemon/event_emitter.go).  A worker reports the steps of its build: each  *)
(* event is appended to the SQLite log and, if that succeeds, applied to the *)
(* projection in memory, two critical sections under two mutexes.  After a   *)
(* restart the projection is rebuilt from the log.                           *)
(***************************************************************************)
EXTENDS Integers, Sequences, FiniteSets, SequencesExt

CONSTANTS
  Builds,      \* job IDs
  Workers,     \* the queue's workers
  MaxHistory,  \* maxSize of the projection (100)
  MaxTime,     \* bound on the clock, in seconds
  MaxRestarts, \* bound on crashes
  MaxLost      \* bound on builds with a failed append

VARIABLES
  clock, log,
  builds,    \* the projection's summaries
  history,   \* finished builds, newest first
  next,      \* next[b]: the event the worker of b will emit, "idle" or "done"
  unapplied, \* unapplied[b]: an event of b that is in the log only
  missing,   \* builds one of whose events was not appended
  restarts, rebuilt

vars == <<clock, log, builds, history, next, unapplied, missing, restarts, rebuilt>>

EventTypes == {"BuildStarted", "BuildReportGenerated", "BuildCompleted", "BuildFailed"}
Event(b, type, time) == [build |-> b, type |-> type, time |-> time]

\* BuildSummary.
NoSummary == [status |-> "none", startedAt |-> 0, report |-> FALSE]
Empty == [builds |-> [b \in Builds |-> NoSummary], history |-> <<>>]

Init ==
  /\ clock = 0 /\ log = <<>> /\ builds = Empty.builds /\ history = <<>>
  /\ next = [b \in Builds |-> "idle"] /\ unapplied = [b \in Builds |-> <<>>]
  /\ missing = {} /\ restarts = 0 /\ rebuilt = TRUE

\* addToHistoryLocked: prepended once, and the tail cut off.
AddToHistory(h, b) ==
  IF b \in Range(h) THEN h ELSE SubSeq(<<b>> \o h, 1, IF Len(h) < MaxHistory THEN Len(h) + 1 ELSE MaxHistory)

\* applyEventLocked: the summary, created by the first event of its build, ...
Summarise(summary, e) ==
  LET s == IF summary = NoSummary THEN [status |-> "running", startedAt |-> e.time, report |-> FALSE]
           ELSE summary
  IN  CASE e.type = "BuildStarted" -> [s EXCEPT !.startedAt = e.time, !.status = "running"]
        [] e.type = "BuildCompleted" -> [s EXCEPT !.status = "completed"]
        [] e.type = "BuildFailed" -> [s EXCEPT !.status = "failed"]
        [] e.type = "BuildReportGenerated" -> [s EXCEPT !.report = TRUE]

\* ... and the history of finished builds.
ApplyEvent(p, e) ==
  [builds |-> [p.builds EXCEPT ![e.build] = Summarise(@, e)],
   history |-> IF e.type \in {"BuildCompleted", "BuildFailed"}
               THEN AddToHistory(p.history, e.build) ELSE p.history]

\* sortHistoryLocked: by start, newest first; builds of the same second keep
\* their order.  The set has one element, the sorted history.
SortHistory(p) ==
  LET places == DOMAIN p.history
      start(i) == p.builds[p.history[i]].startedAt
      sorts(order) == \A i, j \in places :
        i < j => \/ start(order[i]) > start(order[j])
                 \/ start(order[i]) = start(order[j]) /\ order[i] < order[j]
  IN  {[i \in places |-> p.history[order[i]]] : order \in {o \in Bijection(places, places) : sorts(o)}}

\* The events in the order of their IDs, applied one by one, without those in left.
Replay(events, left) ==
  LET after[n \in 0..Len(events)] ==
        IF n = 0 THEN Empty
        ELSE IF events[n] \in left THEN after[n - 1] ELSE ApplyEvent(after[n - 1], events[n])
  IN  after[Len(events)]

-----------------------------------------------------------------------------
(* Workers.                                                                *)

Running == {b \in Builds : next[b] \notin {"idle", "done"}}

\* emitBuildStarted, emitReport and emitCompletion/emitFailure of the queue: a
\* failed emission is logged and the worker goes on.
Following(type) ==
  CASE type = "BuildStarted" -> {"BuildReportGenerated", "BuildFailed"}
    [] type = "BuildReportGenerated" -> {"BuildCompleted", "BuildFailed"}
    [] type \in {"BuildCompleted", "BuildFailed"} -> {"done"}

BuildBegins(b) ==
  /\ rebuilt /\ next[b] = "idle" /\ Cardinality(Running) < Workers
  /\ next' = [next EXCEPT ![b] = "BuildStarted"]
  /\ UNCHANGED <<clock, log, builds, history, unapplied, missing, restarts, rebuilt>>

\* EmitEvent: Append, with the second of the insertion as its time stamp.
Append1(b) ==
  /\ next[b] \in EventTypes /\ unapplied[b] = <<>>
  /\ LET e == Event(b, next[b], clock)
     IN  log' = Append(log, e) /\ unapplied' = [unapplied EXCEPT ![b] = <<e>>]
  /\ UNCHANGED <<clock, builds, history, next, missing, restarts, rebuilt>>

\* Mutated form of AppendFails: the event is applied although it is not in the log.
AppendFails_Applies(b, then) ==
  /\ next[b] \in EventTypes /\ unapplied[b] = <<>> /\ then \in Following(next[b])
  /\ LET p == ApplyEvent([builds |-> builds, history |-> history], Event(b, next[b], clock))
     IN  builds' = p.builds /\ history' = p.history
  /\ next' = [next EXCEPT ![b] = then]
  /\ Cardinality(missing) < MaxLost /\ missing' = missing \cup {b}
  /\ UNCHANGED <<clock, log, unapplied, restarts, rebuilt>>

\* ... or an error, and the event is lost.
AppendFails(b, then) ==
  /\ next[b] \in EventTypes /\ unapplied[b] = <<>> /\ then \in Following(next[b])
  /\ next' = [next EXCEPT ![b] = then]
  /\ Cardinality(missing) < MaxLost /\ missing' = missing \cup {b}
  /\ UNCHANGED <<clock, log, builds, history, unapplied, restarts, rebuilt>>

\* The second half of EmitEvent.
Apply(b, then) ==
  /\ unapplied[b] # <<>> /\ then \in Following(next[b])
  /\ LET p == ApplyEvent([builds |-> builds, history |-> history], unapplied[b][1])
     IN  builds' = p.builds /\ history' = p.history
  /\ unapplied' = [unapplied EXCEPT ![b] = <<>>]
  /\ next' = [next EXCEPT ![b] = then]
  /\ UNCHANGED <<clock, log, missing, restarts, rebuilt>>

Tick == clock < MaxTime /\ clock' = clock + 1
        /\ UNCHANGED <<log, builds, history, next, unapplied, missing, restarts, rebuilt>>

\* The process dies: running builds and the projection are gone.
Crash ==
  /\ restarts < MaxRestarts /\ restarts' = restarts + 1 /\ rebuilt' = FALSE
  /\ builds' = Empty.builds /\ history' = <<>>
  /\ missing' = missing \cup Running
  /\ next' = [b \in Builds |-> IF b \in Running THEN "done" ELSE next[b]]
  /\ unapplied' = [b \in Builds |-> <<>>]
  /\ UNCHANGED <<clock, log>>

\* Rebuild, before the daemon starts its workers.
Rebuild ==
  LET p == Replay(log, {})
  IN  /\ ~rebuilt /\ rebuilt' = TRUE /\ builds' = p.builds /\ history' \in SortHistory(p)
      /\ UNCHANGED <<clock, log, next, unapplied, missing, restarts>>

Next ==
  \/ \E b \in Builds : BuildBegins(b) \/ Append1(b)
  \/ \E b \in Builds, then \in EventTypes \cup {"done"} : AppendFails(b, then) \/ Apply(b, then)
  \/ Tick \/ Crash \/ Rebuild

Spec == Init /\ [][Next]_vars

-----------------------------------------------------------------------------
(* Properties.                                                             *)

\* The events between Append and Apply.
Unapplied == {e \in Range(log) : unapplied[e.build] = <<e>>}

Finished == {b \in Builds : builds[b].status \in {"completed", "failed"}}

\* The projection is what a replay of the log gives, whatever order the
\* workers' Append and Apply calls interleave in and after every crash: the
\* summaries agree, and so do the finished builds while none has been cut off.
ProjectionIsReplay ==
  rebuilt => LET p == Replay(log, Unapplied)
             IN  /\ builds = p.builds
                 /\ Len(history) = Len(p.history)
                 /\ Cardinality(Finished) <= MaxHistory => Range(history) = Range(p.history)

\* A build shown as running is being run, or its end was lost in a crash or
\* with a failed append.
RunningIsRun ==
  rebuilt => \A b \in Builds : builds[b].status = "running" => b \in Running \cup missing

=============================================================================
