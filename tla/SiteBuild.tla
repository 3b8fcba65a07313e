------------------------------ MODULE SiteBuild ------------------------------
(***************************************************************************)
(* One site build of the daemon after another (hugo/generator.go,           *)
(* hugo/structure.go, hugo/stages): the clone stage's worker pool updates    *)
(* the persistent workspace, an early skip may end the build, the other      *)
(* stages fill a staging directory, and finalizeStaging swaps it in. Builds  *)
(* are cancelled or crash at any point; the directories survive.             *)
(***************************************************************************)
EXTENDS Naturals, FiniteSets

CONSTANTS
  Repos,
  CloneWorkers,  \* clone_concurrency
  Strategy,      \* clone_strategy: "update" (also for "fresh", see Run) or "auto"
  HugoRuns,      \* render_mode asks for Hugo and its binary is found
  NoCommit,
  MaxCommit,     \* bound: commits of a repository are 1 .. MaxCommit
  MaxBuilds      \* bound: builds ever requested

Commits == 1 .. MaxCommit

ASSUME SiteAssumption ==
  /\ MaxCommit \in Nat \ {0} /\ NoCommit \notin Commits /\ MaxBuilds \in Nat
  /\ Strategy \in {"update", "auto"} /\ HugoRuns \in BOOLEAN

VARIABLES
  head,       \* head[r]: the remote HEAD
  work,       \* work[r]: the commit checked out in the workspace
  out, stage, prev,   \* the output, staging and backup directories
  cleaning,   \* goroutines about to remove the backup directory
  at,         \* where the build is
  builds,     \* builds requested so far
  pin,        \* pin[r]: the commit the job pins for r
  todo,       \* repositories not yet handed to a clone worker
  worker,     \* worker[w]: where clone worker w is, and with which repository
  preHead, postHead,  \* bs.Git.PreHeads and PostHeads
  cloned,     \* repositories fetched (bs.Git.RepoPaths)
  canceled,   \* the job's context has ended
  published,  \* a build has been published
  interrupted \* the process was killed or a rename failed

dirs == <<out, stage, prev>>
clones == <<todo, worker, preHead, postHead, cloned>>
job == <<builds, pin, canceled>>
ghosts == <<published, interrupted>>
vars == <<head, work, dirs, cleaning, at, clones, job, ghosts>>

\* A directory: the commits whose files it holds for each repository, whether
\* public/ is rendered, and what its build-report.json lets the next build do.
Dirs == [there : BOOLEAN, content : [Repos -> SUBSET Commits], public : BOOLEAN,
         report : {"none", "skippable", "unskippable"}]
Absent == [there |-> FALSE, content |-> [r \in Repos |-> {}], public |-> FALSE, report |-> "none"]

None == [r \in Repos |-> NoCommit]
Idle == [state |-> "idle", repo |-> {}]

Init ==
  /\ head = [r \in Repos |-> 1] /\ work = None
  /\ out = Absent /\ stage = Absent /\ prev = Absent /\ cleaning = 0
  /\ at = "idle" /\ builds = 0 /\ pin = None /\ todo = {}
  /\ worker = [w \in CloneWorkers |-> Idle]
  /\ preHead = None /\ postHead = None /\ cloned = {}
  /\ canceled = FALSE /\ published = FALSE /\ interrupted = FALSE

-----------------------------------------------------------------------------
(* A build begins: beginStaging keeps whatever the staging directory holds.  *)

Pins == {p \in [Repos -> Commits \cup {NoCommit}] :
           \A r \in Repos : p[r] = NoCommit \/ p[r] <= head[r]}

\* Mutated form of BeginStaging: the output directory is cleaned first.
BeginStaging_CleansOutput ==
  /\ at = "idle" /\ builds < MaxBuilds /\ builds' = builds + 1
  /\ pin' \in Pins
  /\ stage' = [stage EXCEPT !.there = TRUE]
  /\ at' = "feed" /\ todo' = Repos
  /\ worker' = [w \in CloneWorkers |-> Idle]
  /\ preHead' = None /\ postHead' = None /\ cloned' = {} /\ canceled' = FALSE
  /\ out' = Absent /\ UNCHANGED <<head, work, prev, cleaning, ghosts>>

BeginStaging ==
  /\ at = "idle" /\ builds < MaxBuilds /\ builds' = builds + 1
  /\ pin' \in Pins
  /\ stage' = [stage EXCEPT !.there = TRUE]
  /\ at' = "feed" /\ todo' = Repos
  /\ worker' = [w \in CloneWorkers |-> Idle]
  /\ preHead' = None /\ postHead' = None /\ cloned' = {} /\ canceled' = FALSE
  /\ UNCHANGED <<head, work, out, prev, cleaning, ghosts>>

-----------------------------------------------------------------------------
(* StageCloneRepos.                                                        *)

\* Before each send the stage looks at its context; after the last, or when
\* cancelled, it closes the channel.
Feed ==
  /\ at = "feed"
  /\ at' = IF todo = {} \/ canceled THEN "join" ELSE "send"
  /\ UNCHANGED <<head, work, dirs, cleaning, clones, job, ghosts>>

\* tasks <- task: the channel has no buffer, so a worker must be receiving.
Send(w, r) ==
  /\ at = "send" /\ r \in todo /\ worker[w] = Idle
  /\ worker' = [worker EXCEPT ![w] = [state |-> "got", repo |-> {r}]]
  /\ todo' = todo \ {r} /\ at' = "feed"
  /\ UNCHANGED <<head, work, dirs, cleaning, preHead, postHead, cloned, job, ghosts>>

\* The worker leaves for good when the context has ended.
WorkerChecks(w) ==
  /\ worker[w].state = "got"
  /\ worker' = [worker EXCEPT ![w].state = IF canceled THEN "gone" ELSE "fetch"]
  /\ UNCHANGED <<head, work, dirs, cleaning, at, todo, preHead, postHead, cloned, job, ghosts>>

\* Fetch: the pinned commit, or the remote HEAD; the head before it is known
\* for a pinned repository and with the "auto" strategy only.
Fetched(r) == IF pin[r] = NoCommit THEN head[r] ELSE pin[r]

KnownPreHead(r) == IF pin[r] # NoCommit \/ Strategy = "auto" THEN work[r] ELSE NoCommit

FetchOk(w, r) ==
  /\ worker[w] = [state |-> "fetch", repo |-> {r}]
  /\ work' = [work EXCEPT ![r] = Fetched(r)]
  /\ preHead' = [preHead EXCEPT ![r] = KnownPreHead(r)]
  /\ postHead' = [postHead EXCEPT ![r] = Fetched(r)]
  /\ cloned' = cloned \cup {r}
  /\ worker' = [worker EXCEPT ![w] = Idle]
  /\ UNCHANGED <<head, dirs, cleaning, at, todo, job, ghosts>>

\* Mutated form of FetchFails: a worker leaves after a failed fetch.
FetchFails_Quits(w, r) ==
  /\ worker[w] = [state |-> "fetch", repo |-> {r}]
  /\ pin[r] = NoCommit \/ pin[r] # work[r]
  /\ \E c \in {work[r]} \cup (IF pin[r] = NoCommit THEN {} ELSE {head[r]}) :
       work' = [work EXCEPT ![r] = c]
  /\ worker' = [worker EXCEPT ![w].state = "gone"]
  /\ UNCHANGED <<head, dirs, cleaning, at, todo, preHead, postHead, cloned, job, ghosts>>

\* A failed fetch leaves the workspace as it was, or at the HEAD when only the
\* checkout of the pinned commit failed. A commit already there cannot fail.
FetchFails(w, r) ==
  /\ worker[w] = [state |-> "fetch", repo |-> {r}]
  /\ pin[r] = NoCommit \/ pin[r] # work[r]
  /\ \E c \in {work[r]} \cup (IF pin[r] = NoCommit THEN {} ELSE {head[r]}) :
       work' = [work EXCEPT ![r] = c]
  /\ worker' = [worker EXCEPT ![w] = Idle]
  /\ UNCHANGED <<head, dirs, cleaning, at, todo, preHead, postHead, cloned, job, ghosts>>

\* AllReposUnchangedComputed looks at the repositories whose head is known.
AllReposUnchanged ==
  /\ \E r \in Repos : preHead[r] # NoCommit
  /\ \A r \in Repos : preHead[r] # NoCommit => postHead[r] = preHead[r]

ExistingSiteValidForSkip ==
  /\ out.there /\ out.public /\ out.report = "skippable"
  /\ \E r \in Repos : out.content[r] # {}

\* Mutated form of CloneStageEnds: a skipped build goes on to the promotion.
CloneStageEnds_PromotesSkipped ==
  /\ at = "join" /\ \A w \in CloneWorkers : worker[w].state \in {"idle", "gone"}
  /\ at' = CASE canceled -> "abort"
             [] ~canceled /\ AllReposUnchanged /\ ExistingSiteValidForSkip -> "finalize"
             [] OTHER -> "copy"
  /\ UNCHANGED <<head, work, dirs, cleaning, clones, job, ghosts>>

\* wg.Wait, then the runner's early exit. Failed fetches are warnings only.
CloneStageEnds ==
  /\ at = "join" /\ \A w \in CloneWorkers : worker[w].state \in {"idle", "gone"}
  /\ at' = CASE canceled -> "abort"
             [] ~canceled /\ AllReposUnchanged /\ ExistingSiteValidForSkip -> "skip"
             [] OTHER -> "copy"
  /\ UNCHANGED <<head, work, dirs, cleaning, clones, job, ghosts>>

-----------------------------------------------------------------------------
(* The remaining stages, and how a build ends without being published.      *)

\* Discovery and content: files of an earlier build with the same path are
\* overwritten, others stay.
CopyContent ==
  /\ at = "copy" /\ ~canceled /\ at' = "render"
  /\ stage' = [stage EXCEPT !.content =
                 [r \in Repos |-> IF r \in cloned THEN @[r] \cup {work[r]} ELSE @[r]]]
  /\ UNCHANGED <<head, work, out, prev, cleaning, clones, job, ghosts>>

\* The stage succeeds without doing anything when Hugo is not to run.
RunHugo ==
  /\ at = "render" /\ ~canceled /\ at' = "finalize"
  /\ stage' = IF HugoRuns THEN [stage EXCEPT !.public = TRUE] ELSE stage
  /\ UNCHANGED <<head, work, out, prev, cleaning, clones, job, ghosts>>

\* A stage fails fatally; a cancelled context ends the build before the next
\* stage, or during Hugo.
StageFails ==
  /\ at \in {"copy", "render"} /\ at' = "abort"
  /\ UNCHANGED <<head, work, dirs, cleaning, clones, job, ghosts>>

\* Mutated form of AbortStaging: the staging directory is left behind.
AbortStaging_Keeps ==
  /\ at = "abort" /\ at' = "idle"
  /\ UNCHANGED <<head, work, dirs, cleaning, clones, job, ghosts>>

AbortStaging ==
  /\ at = "abort" /\ at' = "idle" /\ stage' = Absent
  /\ UNCHANGED <<head, work, out, prev, cleaning, clones, job, ghosts>>

\* The skipped build's own report, which counts no files, replaces the old one.
SkipBuild ==
  /\ at = "skip" /\ at' = "idle" /\ stage' = Absent
  /\ out' = [out EXCEPT !.report = "unskippable"]
  /\ UNCHANGED <<head, work, prev, cleaning, clones, job, ghosts>>

-----------------------------------------------------------------------------
(* finalizeStaging and the report.                                         *)

RemoveOldBackup ==
  /\ at = "finalize" /\ at' = "backup" /\ prev' = Absent
  /\ UNCHANGED <<head, work, out, stage, cleaning, clones, job, ghosts>>

Backup ==
  /\ at = "backup" /\ at' = "promote"
  /\ prev' = IF out.there THEN out ELSE prev
  /\ out' = Absent
  /\ UNCHANGED <<head, work, stage, cleaning, clones, job, ghosts>>

Promote ==
  /\ at = "promote" /\ at' = "persist"
  /\ out' = stage /\ stage' = Absent /\ published' = TRUE
  /\ cleaning' = cleaning + 1
  /\ UNCHANGED <<head, work, prev, clones, job, interrupted>>

\* A rename fails: the build returns, and nothing is undone.
RenameFails ==
  /\ at \in {"backup", "promote"} /\ at' = "idle" /\ interrupted' = TRUE
  /\ UNCHANGED <<head, work, dirs, cleaning, clones, job, published>>

\* The next build may skip on a report that counts files and records no error;
\* a failed fetch is recorded as an error unless its cause is not classified.
PersistReport ==
  /\ at = "persist" /\ at' = "idle"
  /\ \E kind \in IF cloned = {} THEN {"unskippable"}
                 ELSE IF cloned = Repos THEN {"skippable"} ELSE {"skippable", "unskippable"} :
       out' = [out EXCEPT !.there = TRUE, !.report = kind]
  /\ UNCHANGED <<head, work, stage, prev, cleaning, clones, job, ghosts>>

\* The asynchronous removal of the backup, whichever backup that is by now.
Cleanup ==
  /\ cleaning > 0 /\ cleaning' = cleaning - 1 /\ prev' = Absent
  /\ UNCHANGED <<head, work, out, stage, at, clones, job, ghosts>>

-----------------------------------------------------------------------------
Push(r) ==
  /\ head[r] < MaxCommit /\ head' = [head EXCEPT ![r] = @ + 1]
  /\ UNCHANGED <<work, dirs, cleaning, at, clones, job, ghosts>>

\* The queue cancels the job.
Cancel ==
  /\ at # "idle" /\ ~canceled /\ canceled' = TRUE
  /\ UNCHANGED <<head, work, dirs, cleaning, at, clones, builds, pin, ghosts>>

\* The process is killed and started again: the directories are what is left.
Crash ==
  /\ at # "idle" \/ cleaning > 0
  /\ at' = "idle" /\ cleaning' = 0 /\ interrupted' = TRUE
  /\ worker' = [w \in CloneWorkers |-> Idle] /\ todo' = {}
  /\ UNCHANGED <<head, work, dirs, preHead, postHead, cloned, job, published>>

BuildStep ==
  \/ Feed \/ CloneStageEnds \/ CopyContent \/ RunHugo \/ StageFails \/ AbortStaging \/ SkipBuild
  \/ RemoveOldBackup \/ Backup \/ Promote \/ RenameFails \/ PersistReport
  \/ \E w \in CloneWorkers, r \in Repos : Send(w, r)

WorkerStep(w) == WorkerChecks(w) \/ \E r \in Repos : FetchOk(w, r) \/ FetchFails(w, r)

Next ==
  \/ BeginStaging \/ BuildStep \/ Cleanup \/ Cancel \/ Crash
  \/ \E w \in CloneWorkers : WorkerStep(w)
  \/ \E r \in Repos : Push(r)

Spec == Init /\ [][Next]_vars

\* The build's goroutine and its clone workers run on: a stage, a git
\* operation and Hugo end.
FairSpec == Spec /\ WF_vars(BuildStep) /\ \A w \in CloneWorkers : WF_vars(WorkerStep(w))

-----------------------------------------------------------------------------
(* Properties.                                                             *)

\* Directories, heads and the build's position keep their types; there is one
\* cleanup at most for each build.
TypeOK ==
  /\ head \in [Repos -> Commits] /\ work \in [Repos -> Commits \cup {NoCommit}]
  /\ out \in Dirs /\ stage \in Dirs /\ prev \in Dirs
  /\ at \in {"idle", "feed", "send", "join", "copy", "render", "abort", "skip",
             "finalize", "backup", "promote", "persist"}
  /\ builds \in 0 .. MaxBuilds /\ cleaning \in 0 .. MaxBuilds
  /\ pin \in [Repos -> Commits \cup {NoCommit}] /\ todo \subseteq Repos
  /\ worker \in [CloneWorkers -> [state : {"idle", "got", "fetch", "gone"}, repo : SUBSET Repos]]
  /\ preHead \in [Repos -> Commits \cup {NoCommit}] /\ postHead \in [Repos -> Commits \cup {NoCommit}]
  /\ cloned \subseteq Repos
  /\ canceled \in BOOLEAN /\ published \in BOOLEAN /\ interrupted \in BOOLEAN

\* "we must not promote the staging directory, otherwise we could replace a
\* valid site with an empty scaffold": whatever ends the build, if Hugo runs at
\* all, the output and its backup are rendered sites, never the scaffold of a
\* skipped, failed or cancelled build.
OutputIsWhole == HugoRuns => (out.there => out.public) /\ (prev.there => prev.public)

\* Once a site is published the output directory is there at every moment but
\* between the two renames of a promotion, unless a rename failed or the
\* process was killed: no failed, cancelled or skipped build takes it away.
OutputStays == published /\ ~interrupted /\ at # "promote" => out.there

\* When a build is published, the output holds exactly the files of the commits
\* this build fetched: none of an earlier build is left in the staging
\* directory, unless that build was killed or failed in its promotion.
PublishedIsFetched ==
  at = "persist" /\ ~interrupted =>
    out.content = [r \in Repos |-> IF r \in cloned THEN {work[r]} ELSE {}]

\* A build ends, with any repositories failing, and a cancelled one as well ("Context
\* Cancellation ... Stop execution").  Known exception: the clone stage has passed
\* its check and sends the next repository when the last worker has left.
Stranded == canceled /\ at = "send" /\ \A w \in CloneWorkers : worker[w].state = "gone"
BuildEnds == at # "idle" ~> (at = "idle" \/ Stranded)

\* "No repository changes: All repository commits match the previous build": a
\* build that is skipped as unchanged leaves a site that shows the commits of
\* the workspace.
SkipMeansUnchanged ==
  at = "skip" => \A r \in cloned : out.content[r] = {work[r]}
=============================================================================
