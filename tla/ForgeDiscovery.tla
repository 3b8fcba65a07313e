---------------------------- MODULE ForgeDiscovery ----------------------------
(***************************************************************************)
(* Repository discovery (internal/forge, forge/discoveryrunner) and what     *)
(* the daemon does with a repository that discovery no longer finds          *)
(* (daemon/orchestrated_repo_removals.go).                                   *)
(*                                                                         *)
(* A run asks every forge, in parallel and page by page, for the             *)
(* repositories of its organizations, checks each one for documentation,     *)
(* replaces the cached result and reports the repositories of the cached     *)
(* result it started from that it did not find.  The periodic run, the one   *)
(* of the admin API and the one a webhook starts may overlap, forges may     *)
(* fail, and repositories change while they are listed.                      *)
(***************************************************************************)
EXTENDS Integers, Sequences, FiniteSets, SequencesExt

CONSTANTS
  Runs,         \* who may be running discovery: the loop, the API, a webhook
  Loop,         \* the periodic one of them
  Forges,       \* the forges there are
  Type,         \* Type[f] is "github", "gitlab" or "forgejo"
  Configured,   \* the forges with organizations or groups in the configuration
  Repos,        \* the repositories that may exist, as their clone URLs
  ForgeOf,      \* ForgeOf[r] is the forge that hosts r
  PageSize,     \* repositories in a page of a listing
  Required,     \* filtering.required_paths is not empty
  Unknown,      \* no discovery result
  Setups,       \* [forges, runs, faults, restarts]: the configured forges, who asks
                \* them, and bounds on the failures and the restarts
  MaxChanges    \* bound on the changes of the forges

VARIABLES
  setup,        \* one of Setups
  listing,      \* listing[f]: its repositories, the last active one first
  docs,         \* docs[r]: "docs", "none", "ignored" or "archived"
  run,          \* run[i]: where run i is and what it has
  cache,        \* the cached discovery result
  tracked,      \* repositories with an entry in the daemon state
  removals,     \* RepoRemoved events on their way to their consumer
  changes, faults, restarts,
  removed,      \* repositories reported as removed so far
  excused,      \* repositories a run had a reason to miss
  raced,        \* a run began before the one before it was over and handled
  leftover      \* tracked from before a restart and not found since

vars == <<setup, listing, docs, run, cache, tracked, removals, changes, faults, restarts,
          removed, excused, raced, leftover>>

Status == {"docs", "none", "ignored", "archived"}
At(f) == {r \in Repos : ForgeOf[r] = f}
NotAsked == [at |-> "orgs", page |-> 1, got |-> {}, valid |-> {}]
Idle == [at |-> "idle", prev |-> {}, scan |-> [f \in Forges |-> NotAsked], result |-> {}]
Listed == UNION {ToSet(listing[f]) : f \in Forges}

Init ==
  /\ setup \in Setups
  /\ listing = [f \in Forges |-> IF f \in setup.forges THEN SetToSeq(At(f)) ELSE <<>>]
  /\ docs = [r \in Repos |-> "docs"]
  /\ run = [i \in Runs |-> Idle]
  /\ cache = Unknown /\ tracked = {} /\ removals = <<>>
  /\ changes = 0 /\ faults = 0 /\ restarts = 0
  /\ removed = {} /\ excused = {} /\ raced = FALSE /\ leftover = {}

-----------------------------------------------------------------------------
(* One run asking one forge.                                               *)

\* Run i is asking forge f and is at this request.
Asking(i, f, at) == f \in setup.forges /\ run[i].at = "scan" /\ run[i].scan[f].at = at

Scanned(i, f, s) == run' = [run EXCEPT ![i].scan[f] = s]

\* ListOrganizations: asked first when no organization is configured, else
\* only for the result's own information.
ListOrganizations(i, f) ==
  /\ Asking(i, f, "orgs")
  /\ Scanned(i, f, [NotAsked EXCEPT !.at = "page"])
  /\ UNCHANGED <<setup, listing, docs, cache, tracked, removals, changes, faults, restarts, removed, excused, raced, leftover>>

Fault(f) == faults < setup.faults /\ faults' = faults + 1 /\ excused' = excused \cup At(f)

\* A failed auto-discovery of the organizations is an error of the forge.
ListOrganizationsFails(i, f) ==
  /\ Asking(i, f, "orgs") /\ f \notin Configured /\ Fault(f)
  /\ Scanned(i, f, [NotAsked EXCEPT !.at = "error"])
  /\ UNCHANGED <<setup, listing, docs, cache, tracked, removals, changes, restarts, removed, raced, leftover>>

Page(f, n) == LET last == IF n * PageSize < Len(listing[f]) THEN n * PageSize ELSE Len(listing[f])
              IN  {listing[f][k] : k \in ((n - 1) * PageSize + 1) .. last}

\* Mutated form of ProjectsEnd: a page that is just full is taken for the last.
ProjectsEnd_Full(page) == Cardinality(page) <= PageSize

\* getGroupProjects: an empty page or a short one ends it.
ProjectsEnd(page) == page = {} \/ Cardinality(page) < PageSize

\* fetchAndConvertReposGeneric: a short page is the last one.
HasMore(page) == Cardinality(page) >= PageSize

LastPage(f, page) == IF Type[f] = "gitlab" THEN ProjectsEnd(page) ELSE ~HasMore(page)

\* A page of the organization's repositories; archived ones are told by the
\* listing itself.
ListPage(i, f) ==
  /\ Asking(i, f, "page")
  /\ LET s == run[i].scan[f]
         page == Page(f, s.page)
     IN  Scanned(i, f, [s EXCEPT !.at = IF LastPage(f, page) THEN "check" ELSE "page", !.page = @ + 1,
                                 !.got = @ \cup {r \in page : docs[r] # "archived"}])
  /\ UNCHANGED <<setup, listing, docs, cache, tracked, removals, changes, faults, restarts, removed, excused, raced, leftover>>

\* ListRepositories of each client when an organization's listing fails: GitHub
\* and GitLab give up the forge, Forgejo goes on without the organization.
GitHubListFails == "error"
GitLabListFails == "error"
ForgejoListFails == "check"
ListFails(f) == CASE Type[f] = "github" -> GitHubListFails
                  [] Type[f] = "gitlab" -> GitLabListFails
                  [] OTHER -> ForgejoListFails

ListPageFails(i, f) ==
  /\ Asking(i, f, "page") /\ Fault(f)
  /\ Scanned(i, f, [NotAsked EXCEPT !.at = ListFails(f)])
  /\ UNCHANGED <<setup, listing, docs, cache, tracked, removals, changes, restarts, removed, raced, leftover>>

\* CheckDocumentation of each client: docs/ and .docignore on the default branch;
\* GitLab looks for .docignore only if there is docs/.
InDocs(r) == docs[r] \in {"docs", "ignored"}
GitHubCheck(r) == [docs |-> InDocs(r), ignore |-> docs[r] = "ignored"]
GitLabCheck(r) == [docs |-> InDocs(r), ignore |-> InDocs(r) /\ docs[r] = "ignored"]
ForgejoCheck(r) == [docs |-> InDocs(r), ignore |-> docs[r] = "ignored"]
Check(r) == CASE Type[ForgeOf[r]] = "github" -> GitHubCheck(r)
              [] Type[ForgeOf[r]] = "gitlab" -> GitLabCheck(r)
              [] OTHER -> ForgejoCheck(r)

\* filterDecision, without the name patterns.
Include(check) == ~check.ignore /\ (check.docs \/ ~Required)

\* The check of one listed repository, then the filter.
CheckRepository(i, f, r) ==
  /\ Asking(i, f, "check") /\ r \in run[i].scan[f].got
  /\ Scanned(i, f, [run[i].scan[f] EXCEPT !.got = @ \ {r},
                       !.valid = IF Include(Check(r)) THEN @ \cup {r} ELSE @])
  /\ UNCHANGED <<setup, listing, docs, cache, tracked, removals, changes, faults, restarts, removed, excused, raced, leftover>>

\* A check that fails counts as no documentation and no .docignore.
CheckRepositoryFails(i, f, r) ==
  /\ Asking(i, f, "check") /\ r \in run[i].scan[f].got
  /\ faults < setup.faults /\ faults' = faults + 1 /\ excused' = excused \cup {r}
  /\ Scanned(i, f, [run[i].scan[f] EXCEPT !.got = @ \ {r},
                       !.valid = IF Include([docs |-> FALSE, ignore |-> FALSE]) THEN @ \cup {r} ELSE @])
  /\ UNCHANGED <<setup, listing, docs, cache, tracked, removals, changes, restarts, removed, raced, leftover>>

-----------------------------------------------------------------------------
(* A run.                                                                  *)

Busy == (\E i \in Runs : run[i].at # "idle") \/ removals # <<>>

\* Run, from SafeRun or TriggerManual: the cached result is remembered first.
StartRun(i) ==
  /\ i \in setup.runs /\ run[i].at = "idle"
  /\ run' = [run EXCEPT ![i] = [Idle EXCEPT !.at = "scan", !.prev = IF cache = Unknown THEN {} ELSE cache]]
  /\ raced' = (raced \/ Busy)
  /\ UNCHANGED <<setup, listing, docs, cache, tracked, removals, changes, faults, restarts, removed, excused, leftover>>

\* DiscoverAll merges what the forges gave; a forge in error gave nothing.
Finished(s) == s.at = "error" \/ (s.at = "check" /\ s.got = {})
Found(i) == UNION {run[i].scan[f].valid : f \in setup.forges}

\* Mutated form of Complete: a forge in error never reports to the merge.
Complete_Waits(i) == \A f \in setup.forges : run[i].scan[f].at = "check" /\ run[i].scan[f].got = {}

\* DiscoverAll returns when every forge is through.
Complete(i) == \A f \in setup.forges : Finished(run[i].scan[f])

\* The cached result is replaced by this run's.
UpdateCache(i) ==
  /\ run[i].at = "scan" /\ Complete(i)
  /\ cache' = Found(i)
  /\ run' = [run EXCEPT ![i] = [Idle EXCEPT !.at = "notify", !.prev = run[i].prev \ Found(i), !.result = Found(i)]]
  /\ UNCHANGED <<setup, listing, docs, tracked, removals, changes, faults, restarts, removed, excused, raced, leftover>>

\* onDiscoveryRepoRemoved for each remembered repository that was not found.
NotifyRemoved(i, r) ==
  /\ run[i].at = "notify" /\ r \in run[i].prev
  /\ run' = [run EXCEPT ![i].prev = @ \ {r}]
  /\ removals' = Append(removals, r) /\ removed' = removed \cup {r}
  /\ UNCHANGED <<setup, listing, docs, cache, tracked, changes, faults, restarts, excused, raced, leftover>>

\* EnsureRepositoryState and RecordDiscovery for every repository found; the
\* build request that follows is Orchestration's.
EnsureState(i) ==
  /\ run[i].at = "notify" /\ run[i].prev = {}
  /\ tracked' = tracked \cup run[i].result
  /\ leftover' = leftover \ run[i].result
  /\ run' = [run EXCEPT ![i] = Idle]
  /\ UNCHANGED <<setup, listing, docs, cache, removals, changes, faults, restarts, removed, excused, raced>>

\* handleRepoRemoved: the state entry, the remote head and the directory go.
HandleRepoRemoved ==
  /\ removals # <<>> /\ removals' = Tail(removals)
  /\ tracked' = tracked \ {Head(removals)}
  /\ leftover' = leftover \ {Head(removals)}
  /\ UNCHANGED <<setup, listing, docs, run, cache, changes, faults, restarts, removed, excused, raced>>

-----------------------------------------------------------------------------
(* The forges and the process.                                             *)

\* Some run has read a page of f and not the last.
Midway(f) == \E i \in Runs : Asking(i, f, "page") /\ run[i].scan[f].page > 1

Change(r) == ForgeOf[r] \in setup.forges /\ changes < MaxChanges /\ changes' = changes + 1
Unlist(r) == LET l == listing[ForgeOf[r]] IN RemoveAt(l, CHOOSE k \in DOMAIN l : l[k] = r)

\* A push moves the repository to the front where the listing is by activity
\* (GitHub, GitLab): a run past the first page does not meet it again.
Activity(r) ==
  /\ Change(r) /\ r \in Listed /\ Type[ForgeOf[r]] # "forgejo"
  /\ listing' = [listing EXCEPT ![ForgeOf[r]] = <<r>> \o Unlist(r)]
  /\ excused' = IF Midway(ForgeOf[r]) THEN excused \cup {r} ELSE excused
  /\ UNCHANGED <<setup, docs, run, cache, tracked, removals, faults, restarts, removed, raced, leftover>>

\* A deletion moves the ones behind it a place forward, over a page boundary.
Delete(r) ==
  /\ Change(r) /\ r \in Listed
  /\ listing' = [listing EXCEPT ![ForgeOf[r]] = Unlist(r)]
  /\ excused' = excused \cup (IF Midway(ForgeOf[r]) THEN At(ForgeOf[r]) ELSE {r})
  /\ UNCHANGED <<setup, docs, run, cache, tracked, removals, faults, restarts, removed, raced, leftover>>

Create(r) ==
  /\ Change(r) /\ r \notin Listed
  /\ listing' = [listing EXCEPT ![ForgeOf[r]] = <<r>> \o @]
  /\ UNCHANGED <<setup, docs, run, cache, tracked, removals, faults, restarts, removed, excused, raced, leftover>>

\* docs/ is removed, .docignore added, the repository archived, or back again.
ChangeDocs(r, s) ==
  /\ Change(r) /\ docs[r] # s
  /\ docs' = [docs EXCEPT ![r] = s] /\ excused' = excused \cup {r}
  /\ UNCHANGED <<setup, listing, run, cache, tracked, removals, faults, restarts, removed, raced, leftover>>

\* The daemon restarts: the state is read back, the cached result is not kept.
Restart ==
  /\ restarts < setup.restarts /\ restarts' = restarts + 1
  /\ run' = [i \in Runs |-> Idle] /\ cache' = Unknown /\ removals' = <<>>
  /\ leftover' = tracked /\ raced' = FALSE
  /\ UNCHANGED <<setup, listing, docs, tracked, changes, faults, removed, excused>>

RunStep(i) ==
  \/ StartRun(i) \/ UpdateCache(i) \/ EnsureState(i)
  \/ \E r \in Repos : NotifyRemoved(i, r)
  \/ \E f \in Forges : ListOrganizations(i, f) \/ ListPage(i, f)
  \/ \E f \in Forges, r \in Repos : CheckRepository(i, f, r)

Next ==
  \/ \E i \in Runs : RunStep(i)
  \/ \E i \in Runs, f \in Forges : ListOrganizationsFails(i, f) \/ ListPageFails(i, f)
  \/ \E i \in Runs, f \in Forges, r \in Repos : CheckRepositoryFails(i, f, r)
  \/ HandleRepoRemoved
  \/ \E r \in Repos : Activity(r) \/ Delete(r) \/ Create(r)
  \/ \E r \in Repos, s \in Status : ChangeDocs(r, s)
  \/ Restart

\* The loop's ticker starts run after run, and a run's requests are answered;
\* the consumer of the removals is a goroutine of its own.
Spec == Init /\ [][Next]_vars /\ WF_vars(RunStep(Loop)) /\ WF_vars(HandleRepoRemoved)

-----------------------------------------------------------------------------
(* Properties.                                                             *)

\* A repository that kept its documentation, on a forge that answered every
\* request and whose listing did not shift while it was read, is never
\* reported as removed, however runs overlap.
PresentIsNotRemoved == removed \subseteq excused

\* Runs that follow one another, each after the removals of the one before it
\* were handled, leave the state tracking what the last one found, and besides
\* only what was tracked before a restart and never found again.
TrackedIsFound ==
  (~raced /\ ~Busy /\ cache # Unknown) => cache \subseteq tracked /\ tracked \subseteq cache \cup leftover

\* What discovery should find.
Wanted == {r \in Listed : docs[r] = "docs"}

\* After the last change, fault and restart, every repository with
\* documentation is tracked for good, whatever overlapping runs and late
\* removals did before.
WantedIsTracked == <>[](Wanted \subseteq tracked)

=============================================================================
