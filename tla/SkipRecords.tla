----------------------------- MODULE SkipRecords -----------------------------
(***************************************************************************)
(* Which records decide whether a requested build runs (build/validation,   *)
(* build/default_service.go, daemon/daemon_postbuild.go): a build publishes  *)
(* its site, then its report, then, outside the lock that serializes builds, *)
(* the persisted state; the next request is skipped if the rules find that   *)
(* these agree with the configuration and the binaries of this process.      *)
(***************************************************************************)
EXTENDS Integers, Sequences, FiniteSets

CONSTANTS
  Configs,        \* configurations, as their hashes
  Versions,       \* versions of docbuilder (and Hugo)
  Trees,          \* states of the repository's documentation tree; its hash
  Nothing,        \* an absent file, record or value
  Workers,        \* jobs that may be in progress at once
  MaxRuns,        \* bound on the build requests
  MaxRestarts     \* bound on process restarts

VARIABLES
  injected,         \* the generator was given the state manager
  config, version,  \* of the running process
  tree,             \* what a fetch finds
  out,              \* the site in the output directory
  report,           \* its build-report.json
  state,            \* the values in the persistent daemon state
  at,               \* where the build holding the adapter's lock is
  job,              \* its report so far
  posting,          \* reports whose state updates are under way, with what is left
  runs, restarts,
  skipped           \* the output the last skipped request was answered with

vars == <<injected, config, version, tree, out, report, state, at, job, posting, runs, restarts, skipped>>

Reports == [config : Configs \cup {Nothing}, version : Versions \cup {Nothing},
            docs : Trees, outcome : {"success", "warning"}]
Sites == [config : Configs, version : Versions, docs : Trees]
Fields == {"config", "docs", "commit", "repo", "checksum"}

Init ==
  /\ injected \in BOOLEAN
  /\ config \in Configs /\ version \in Versions /\ tree \in Trees
  /\ out = Nothing /\ report = Nothing
  /\ state = [f \in Fields |-> Nothing]
  /\ at = "idle" /\ job = Nothing /\ posting = {} /\ runs = 0 /\ restarts = 0 /\ skipped = Nothing

-----------------------------------------------------------------------------
(* The rules.                                                              *)

\* ConfigHashRule and PublicDirectoryRule.
ConfigHashRule == state["config"] = config
PublicDirectoryRule == out # Nothing

\* loadPreviousReport: a stored checksum must match; none is stored before the
\* first skip.
PreviousReport == report # Nothing /\ state["checksum"] \in {Nothing, report}

\* Mutated form of VersionMismatchRule: a report without a version is accepted.
VersionMismatchRule_Lenient == report.version \in {version, Nothing}

\* VersionMismatchRule.
VersionMismatchRule == report.version = version

\* ContentIntegrityRule: the previous build had files and content/ has some.
ContentIntegrityRule == out # Nothing

GlobalDocHashRule == state["docs"] \in {Nothing, report.docs}

\* PerRepoDocHashRule, for one repository: its own hash must be known.
PerRepoDocHashRule == state["repo"] = report.docs

CommitMetadataRule == state["commit"] # Nothing

\* Evaluate: the rules in their order, the first failure ends it.
Evaluate ==
  /\ ConfigHashRule /\ PublicDirectoryRule /\ PreviousReport
  /\ VersionMismatchRule /\ ContentIntegrityRule /\ GlobalDocHashRule
  /\ PerRepoDocHashRule /\ CommitMetadataRule

-----------------------------------------------------------------------------
(* A build under the adapter's lock.                                       *)

Free == at = "idle" /\ Cardinality(posting) < Workers /\ runs < MaxRuns

\* constructSkipReport: a report without configuration hash and versions
\* replaces the old one; its checksum and hash go into the state.
SkipBuild ==
  /\ Free /\ Evaluate /\ runs' = runs + 1
  /\ LET new == [report EXCEPT !.config = Nothing, !.version = Nothing, !.outcome = "success"]
     IN  /\ report' = new
         /\ state' = [state EXCEPT !["checksum"] = new, !["docs"] = new.docs]
         /\ posting' = posting \cup {[report |-> new, left |-> <<"docs", "commit">>]}
  /\ skipped' = out
  /\ UNCHANGED <<injected, config, version, tree, out, at, job, restarts>>

\* Run goes on to the generator; the discovery stage stores the hash of the
\* repository's files if it has a state manager to store it in.
StartBuild(outcome) ==
  /\ Free /\ ~Evaluate /\ runs' = runs + 1
  /\ at' = "built"
  /\ job' = [config |-> config, version |-> version, docs |-> tree, outcome |-> outcome]
  /\ state' = IF injected THEN [state EXCEPT !["repo"] = tree] ELSE state
  /\ UNCHANGED <<injected, config, version, tree, out, report, posting, restarts, skipped>>

BuildFails ==
  /\ at = "built" /\ at' = "idle" /\ job' = Nothing
  /\ UNCHANGED <<injected, config, version, tree, out, report, state, posting, runs, restarts, skipped>>

\* finalizeStaging: the new directory has no report yet.
Promote ==
  /\ at = "built" /\ at' = "promoted"
  /\ out' = [config |-> job.config, version |-> job.version, docs |-> job.docs] /\ report' = Nothing
  /\ UNCHANGED <<injected, config, version, tree, state, job, posting, runs, restarts, skipped>>

\* Persist writes the report; a failure is only logged.  The lock is released
\* and the queue emits the report: a successful one starts the state updates.
PersistReport(ok) ==
  /\ at = "promoted" /\ at' = "idle" /\ job' = Nothing
  /\ report' = IF ok THEN job ELSE report
  /\ posting' = IF job.outcome = "success"
                THEN posting \cup {[report |-> job, left |-> <<"config", "docs", "commit">>]} ELSE posting
  /\ UNCHANGED <<injected, config, version, tree, out, state, runs, restarts, skipped>>

\* updateStateAfterBuild: each value is saved by itself; the commit is the one
\* the workspace has by then.
UpdateStateAfterBuild(p) ==
  /\ p \in posting /\ p.left # <<>>
  /\ LET f == Head(p.left)
         v == CASE f = "config" -> p.report.config [] f = "docs" -> p.report.docs [] OTHER -> tree
     IN  state' = [state EXCEPT ![f] = v]
  /\ posting' = IF Len(p.left) = 1 THEN posting \ {p}
                ELSE (posting \ {p}) \cup {[p EXCEPT !.left = Tail(@)]}
  /\ UNCHANGED <<injected, config, version, tree, out, report, at, job, runs, restarts, skipped>>

Push(t) ==
  /\ tree # t /\ tree' = t
  /\ UNCHANGED <<injected, config, version, out, report, state, at, job, posting, runs, restarts, skipped>>

\* The process ends anywhere and comes back with this configuration and version.
Restart(c, v) ==
  /\ restarts < MaxRestarts /\ restarts' = restarts + 1
  /\ config' = c /\ version' = v
  /\ at' = "idle" /\ job' = Nothing /\ posting' = {} /\ skipped' = Nothing
  /\ UNCHANGED <<injected, tree, out, report, state, runs>>

Next ==
  \/ SkipBuild \/ BuildFails \/ Promote
  \/ \E outcome \in {"success", "warning"} : StartBuild(outcome)
  \/ \E ok \in BOOLEAN : PersistReport(ok)
  \/ \E p \in posting : UpdateStateAfterBuild(p)
  \/ \E t \in Trees : Push(t)
  \/ \E c \in Configs, v \in Versions : Restart(c, v)

Spec == Init /\ [][Next]_vars

-----------------------------------------------------------------------------
(* Properties.                                                             *)

\* A skipped request is answered with a site that this version of docbuilder
\* rendered, across crashes between publication, report and state.
SkippedIsThisVersion == skipped # Nothing => skipped.version = version

\* A report that is there describes the site beside it: the version it names,
\* if any, rendered the site.
ReportDescribesSite ==
  report # Nothing => /\ out # Nothing /\ report.docs = out.docs
                      /\ report.version \in {Nothing, out.version}

\* As the daemon wires it, the generator has no state manager, the hash of a
\* repository's files is never stored, and no request is ever skipped.
NoSkipWithoutState == ~injected => skipped = Nothing

=============================================================================
