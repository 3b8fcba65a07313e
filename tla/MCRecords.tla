------------------------------ MODULE MCRecords ------------------------------
(***************************************************************************)
(* The records that outlive a build: the daemon state, the event log with    *)
(* its projection, and what skip evaluation reads.  A behaviour is one of a  *)
(* single part, chosen at the start; the variables of the others stay Off.   *)
(***************************************************************************)
EXTENDS Integers, Sequences, FiniteSets, TLC

CONSTANTS Repos, StateBuilds, Schedules, Callers, None, KeepBuilds, MaxWrites,
          Builds, Workers, MaxHistory, MaxTime, MaxRestarts, MaxLost,
          Configs, Versions, Trees, Nothing, MaxRuns, MaxReopens, Off

ASSUME RecordsAssumption ==
  /\ MaxHistory \in Nat \ {0} /\ {KeepBuilds, MaxWrites, Workers, MaxTime, MaxRestarts, MaxLost, MaxRuns, MaxReopens} \subseteq Nat
  /\ None \notin Repos \cup StateBuilds \cup Schedules /\ Nothing \notin Configs \cup Versions \cup Trees
  /\ Nothing \notin [config : Configs, version : Versions, docs : Trees]

VARIABLES part,
  up, started, mem, disk, held, now, acked, torn, removed,
  clock, log, builds, history, next, unapplied, missing, restarts, rebuilt,
  injected, config, version, tree, out, report, state, at, job, posting, runs, reopens, skipped

S == INSTANCE StateStore WITH Builds <- StateBuilds
H == INSTANCE BuildHistory
K == INSTANCE SkipRecords WITH restarts <- reopens, MaxRestarts <- MaxReopens

stateVars == <<up, started, mem, disk, held, now, acked, torn, removed>>
historyVars == <<clock, log, builds, history, next, unapplied, missing, restarts, rebuilt>>
skipVars == <<injected, config, version, tree, out, report, state, at, job, posting, runs, reopens, skipped>>
vars == <<part, stateVars, historyVars, skipVars>>

StateOff == /\ up = Off /\ started = Off /\ mem = Off /\ disk = Off /\ held = Off /\ now = Off
            /\ acked = Off /\ torn = Off /\ removed = Off
HistoryOff == /\ clock = Off /\ log = Off /\ builds = Off /\ history = Off /\ next = Off
              /\ unapplied = Off /\ missing = Off /\ restarts = Off /\ rebuilt = Off
SkipOff == /\ injected = Off /\ config = Off /\ version = Off /\ tree = Off /\ out = Off /\ report = Off
           /\ state = Off /\ at = Off /\ job = Off /\ posting = Off /\ runs = Off /\ reopens = Off
           /\ skipped = Off

Init ==
  \/ part = "state" /\ S!Init /\ HistoryOff /\ SkipOff
  \/ part = "history" /\ H!Init /\ StateOff /\ SkipOff
  \/ part = "skip" /\ K!Init /\ StateOff /\ HistoryOff

Next ==
  \/ part = "state" /\ S!Next /\ UNCHANGED <<part, historyVars, skipVars>>
  \/ part = "history" /\ H!Next /\ UNCHANGED <<part, stateVars, skipVars>>
  \/ part = "skip" /\ K!Next /\ UNCHANGED <<part, stateVars, historyVars>>

Spec == Init /\ [][Next]_vars

\* Job IDs are interchangeable.
Symmetry == Permutations(Builds)

\* What the state store reports is what the disk has, through failed saves and
\* crashes: a write it has confirmed is there, and a creation it has refused is
\* taken back and not saved along with the next entry (StateStore).
SavedAsReported == part = "state" => S!AckedIsDurable /\ S!CreatedIsSaved

\* A removed repository does not come back through an older copy that
\* SetRepoLastCommit or RecordDiscovery writes back (StateStore).
RemovedStaysRemoved == part = "state" => S!RemovedStaysRemoved

\* The build history is what a replay of the event log gives, however the workers'
\* Append and Apply calls interleave, and what it shows as running is being run or
\* has lost its end in a crash or with a failed append (BuildHistory).
HistoryIsReplay == part = "history" => H!ProjectionIsReplay /\ H!RunningIsRun

\* The skip rules decide from records that belong together, across crashes between
\* publication, report and state: the report describes the site beside it, a skipped
\* request is answered with a site of this version, and without a state manager, as
\* the daemon is wired, none is skipped (SkipRecords).
SkipIsJustified ==
  part = "skip" => K!ReportDescribesSite /\ K!SkippedIsThisVersion /\ K!NoSkipWithoutState

=============================================================================
