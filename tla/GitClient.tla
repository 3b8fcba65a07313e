------------------------------ MODULE GitClient ------------------------------
(***************************************************************************)
(* How a working copy is brought to a commit (internal/git and              *)
(* hugo/stages/repo_fetcher.go): cloned, or fetched and fast-forwarded, with *)
(* retries, a shallow history, pinned commits, a branch that may be          *)
(* rewritten on the remote, and a process that may be killed in between.     *)
(***************************************************************************)
EXTENDS Integers, Sequences, FiniteSets

CONSTANTS
  Commits,      \* the commits of the repository
  Parent,       \* Parent[c] is c's parent, None for a root
  Pins,         \* the commits a build may be pinned to
  First,        \* the branch's first head
  None,
  Depth,        \* build.shallow_depth, 0 for the whole history
  MaxRetries,   \* build.max_retries
  MaxPushes, MaxFaults, MaxKills

VARIABLES
  hardReset,    \* build.hard_reset_on_diverge
  remote,       \* the branch on the remote
  dir,          \* "absent", "partial" after a killed clone, or "repo"
  objects,      \* the commits in the local repository
  branch,       \* the local branch
  tracking,     \* origin/<branch>
  head,         \* the commit HEAD is detached at, or None: HEAD is the branch
  pc,           \* where the fetch is
  plan,         \* [strategy, pin] of the fetch
  attempt,      \* of the retry loop
  result,       \* of the last fetch: a commit, "failed" or None
  seen,         \* the heads of the remote during this fetch
  pushes, faults, kills

local == <<dir, objects, branch, tracking, head>>
vars == <<hardReset, remote, local, pc, plan, attempt, result, seen, pushes, faults, kills>>

Strategies == {"fresh", "update", "auto"}

Init ==
  /\ hardReset \in BOOLEAN /\ remote = First
  /\ dir = "absent" /\ objects = {} /\ branch = None /\ tracking = None /\ head = None
  /\ pc = "idle" /\ plan = [strategy |-> "auto", pin |-> None] /\ attempt = 0
  /\ result = None /\ seen = {} /\ pushes = 0 /\ faults = 0 /\ kills = 0

\* The working tree: ReadRepoHead.
Tree == IF dir # "repo" THEN None ELSE IF head = None THEN branch ELSE head

-----------------------------------------------------------------------------
(* History.                                                                *)

\* Chain[c]: c and its ancestors, the newest first.
Chain[c \in Commits] == IF Parent[c] = None THEN <<c>> ELSE <<c>> \o Chain[Parent[c]]
Ancestors(c) == {Chain[c][k] : k \in 1 .. Len(Chain[c])}

\* What a clone or fetch of c brings.
Received(c) == {Chain[c][k] : k \in {j \in 1 .. Len(Chain[c]) : Depth = 0 \/ j <= Depth}}

\* isAncestor: a walk over the commits that are there.  A parent that is not
\* ends it with an error, which is taken as "no".
IsAncestor(a, b) ==
  \E k \in 1 .. Len(Chain[b]) : Chain[b][k] = a /\ \A j \in 1 .. k - 1 : Chain[b][j] \in objects

-----------------------------------------------------------------------------
(* The fetch of one repository.                                            *)

Go(p) == pc' = p
End(r) == pc' = "idle" /\ result' = r /\ attempt' = 0

\* Fetch, fetchPinnedCommit: auto updates what has a .git; a pinned commit is
\* looked for in what is there even when the strategy is fresh.
UsesUpdate(s) == s = "update" \/ ((s = "auto" \/ plan.pin # None) /\ dir # "absent")

Begin(s, pin) ==
  /\ pc = "idle" /\ plan' = [strategy |-> s, pin |-> pin] /\ seen' = {remote} /\ result' = None
  /\ Go(IF pin # None /\ dir = "repo" THEN "pin" ELSE "choose")
  /\ UNCHANGED <<hardReset, remote, local, attempt, pushes, faults, kills>>

\* A pinned commit that is there is checked out without asking the remote.
PinLocal ==
  /\ pc = "pin"
  /\ IF plan.pin \in objects THEN head' = plan.pin /\ End(plan.pin)
                             ELSE UNCHANGED <<head, result, attempt>> /\ Go("choose")
  /\ UNCHANGED <<hardReset, remote, dir, objects, branch, tracking, plan, seen, pushes, faults, kills>>

\* Strategy, then updateOnce: without .git an update is a clone.
Choose ==
  /\ pc = "choose"
  /\ Go(IF UsesUpdate(plan.strategy) /\ dir # "absent" THEN "fetch" ELSE "clear")
  /\ UNCHANGED <<hardReset, remote, local, plan, attempt, result, seen, pushes, faults, kills>>

\* cloneOnce: whatever is at the path is removed first.
Clear ==
  /\ pc = "clear"
  /\ dir' = "absent" /\ objects' = {} /\ branch' = None /\ tracking' = None /\ head' = None /\ Go("clone")
  /\ UNCHANGED <<hardReset, remote, plan, attempt, result, seen, pushes, faults, kills>>

Clone ==
  /\ pc = "clone"
  /\ dir' = "repo" /\ objects' = Received(remote) /\ branch' = remote /\ tracking' = remote /\ head' = None
  /\ Go("synced")
  /\ UNCHANGED <<hardReset, remote, plan, attempt, result, seen, pushes, faults, kills>>

\* performFetch, fetchOrigin.
FetchOrigin ==
  /\ pc = "fetch"
  /\ tracking' = remote /\ objects' = objects \cup Received(remote) /\ Go("checkout")
  /\ UNCHANGED <<hardReset, remote, dir, branch, head, plan, attempt, result, seen, pushes, faults, kills>>

\* withRetry: a permanent error ends it at once, a transient one or a rate
\* limit after the last attempt.
Attempted(class) == class # "permanent" /\ attempt < MaxRetries

\* Mutated form of Retry: attempts are not counted.
Retry_NotCounted(class) == Go("choose") /\ UNCHANGED <<attempt, result>>

Retry(class) ==
  IF Attempted(class) THEN attempt' = attempt + 1 /\ Go("choose") /\ UNCHANGED result ELSE End("failed")

\* The remote does not answer, or refuses; a failed clone removes its directory.
RemoteFails(class) ==
  /\ pc \in {"clone", "fetch"} /\ faults < MaxFaults /\ faults' = faults + 1
  /\ Retry(class)
  /\ UNCHANGED <<hardReset, remote, local, plan, seen, pushes, kills>>

\* checkoutAndGetRefs: the local branch is checked out by force; a repository
\* without a commit has none to create it from.
Checkout ==
  /\ pc = "checkout"
  /\ IF dir = "partial" THEN Retry("permanent") /\ UNCHANGED head
                        ELSE head' = None /\ Go("sync") /\ UNCHANGED <<result, attempt>>
  /\ UNCHANGED <<hardReset, remote, dir, objects, branch, tracking, plan, seen, pushes, faults, kills>>

\* syncWithRemote: fast-forward, reset if allowed, or a permanent error.
SyncWithRemote ==
  /\ pc = "sync"
  /\ IF IsAncestor(branch, tracking) \/ hardReset
     THEN branch' = tracking /\ Go("synced") /\ UNCHANGED <<result, attempt>>
     ELSE UNCHANGED branch /\ Retry("permanent")
  /\ UNCHANGED <<hardReset, remote, dir, objects, tracking, head, plan, seen, pushes, faults, kills>>

\* The fetch ends with the branch's commit, or checks out the pinned one.
Finish ==
  /\ pc = "synced"
  /\ IF plan.pin = None THEN End(Tree) /\ UNCHANGED head
     ELSE IF plan.pin \in objects THEN head' = plan.pin /\ End(plan.pin)
     ELSE UNCHANGED head /\ End("failed")
  /\ UNCHANGED <<hardReset, remote, dir, objects, branch, tracking, plan, seen, pushes, faults, kills>>

-----------------------------------------------------------------------------
(* The remote and the process.                                             *)

\* The branch moves forward or is rewritten.
Push(c) ==
  /\ pushes < MaxPushes /\ c # remote /\ pushes' = pushes + 1
  /\ remote' = c /\ seen' = seen \cup {c}
  /\ UNCHANGED <<hardReset, local, pc, plan, attempt, result, faults, kills>>

\* The process is killed.  A clone or a removal under way may leave a .git
\* without a commit; a checkout or reset is finished by the next one.
Kill ==
  /\ pc # "idle" /\ kills < MaxKills /\ kills' = kills + 1
  /\ dir' \in IF pc = "clone" THEN {"absent", "partial"}
             ELSE IF pc = "clear" /\ dir = "repo" THEN {"repo", "partial"} ELSE {dir}
  /\ End(None)
  /\ UNCHANGED <<hardReset, remote, objects, branch, tracking, head, plan, seen, pushes, faults>>

FetchStep ==
  \/ PinLocal \/ Choose \/ Clear \/ Clone \/ FetchOrigin \/ Checkout \/ SyncWithRemote \/ Finish

Next ==
  \/ \E s \in Strategies, p \in Pins \cup {None} : Begin(s, p)
  \/ FetchStep
  \/ \E class \in {"transient", "permanent"} : RemoteFails(class)
  \/ \E c \in Commits : Push(c)
  \/ Kill

\* A fetch runs in a goroutine that is always ready; every request to the
\* remote is answered or fails.
Spec == Init /\ [][Next]_vars /\ WF_vars(FetchStep)

-----------------------------------------------------------------------------
(* Properties.                                                             *)

\* A fetch that succeeds leaves the working tree at the pinned commit, or at a
\* head the remote had while the fetch ran: never at an older one, nor at what
\* an interrupted clone or an earlier pin left there.
FetchedIsCurrent ==
  result \in Commits => /\ Tree = result
                        /\ IF plan.pin # None THEN result = plan.pin ELSE result \in seen

\* Without hard_reset_on_diverge an update never leaves the local history: the
\* branch moves only to a descendant, or a new clone replaces it.
BranchMovesForward ==
  (~hardReset /\ branch \in Commits /\ branch' \in Commits \ {branch}) => branch \in Ancestors(branch')

\* With hard_reset_on_diverge only an interrupted clone, a fault or a pinned
\* commit that is not in the history fails a fetch.
ResetAlwaysUpdates ==
  (result = "failed" /\ hardReset) => faults > 0 \/ kills > 0 \/ plan.pin # None

=============================================================================
