----------------------------- MODULE StateStore -----------------------------
(***************************************************************************)
(* The daemon's persistent state (internal/state).  The sub-stores of a     *)
(* JSONStore share one mutex; a write changes memory and saves the whole    *)
(* state to daemon-state.json (temporary file and rename) in one critical   *)
(* section.  The save may fail: a creation is then taken back, every other  *)
(* write stays in memory and reaches the disk with the next save that       *)
(* succeeds.  The adapter's compound operations take the mutex several      *)
(* times and hold a copy of an entry in between.                            *)
(***************************************************************************)
EXTENDS Integers, FiniteSets, Functions

CONSTANTS
  Repos, Builds, Schedules,
  Callers,     \* goroutines that use the service adapter
  None,        \* no copy held
  KeepBuilds,  \* the number of builds Compact keeps (1000)
  MaxWrites    \* bound on the writes of a behaviour

VARIABLES
  up,       \* the process is running with an open store
  started,  \* Service.Start has succeeded
  mem,      \* the JSONStore's maps
  disk,     \* daemon-state.json
  held,     \* held[c]: the copy of an entry that caller c is about to write back
  now,      \* number of writes so far: the value or time stamp of a write
  acked,    \* what the store has reported as written
  torn,     \* repositories written while another caller held a copy
  removed   \* repositories whose removal was reported, not created since

vars == <<up, started, mem, disk, held, now, acked, torn, removed>>

\* What the properties tell apart of a Repository: the last commit, the build
\* counter and the recorded documents (count, hash and paths).
Repository == [commit : 0 .. MaxWrites, builds : 0 .. MaxWrites, docs : 0 .. MaxWrites]
NewRepository == [commit |-> 0, builds |-> 0, docs |-> 0]

Partial(S, T) == UNION {[D -> T] : D \in SUBSET S}
With(f, k, v) == [x \in DOMAIN f \cup {k} |-> IF x = k THEN v ELSE f[x]]
Without(f, k) == Restrict(f, DOMAIN f \ {k})

\* stateSnapshot; a build and a schedule are the time of their creation or
\* last update.
Snapshot ==
  [repos : Partial(Repos, Repository), builds : Partial(Builds, 0 .. MaxWrites),
   schedules : Partial(Schedules, 0 .. MaxWrites), total : 0 .. MaxWrites,
   config : 0 .. MaxWrites, status : {"starting", "running", "stopping"}]

\* NewJSONStore without a state file.
Fresh == [repos |-> <<>>, builds |-> <<>>, schedules |-> <<>>, total |-> 0,
          config |-> 0, status |-> "starting"]

Free(c) == up /\ held[c].repo = None
NoCopy == [repo |-> None, copy |-> NewRepository]
Holders(r) == {c \in Callers : held[c].repo = r}

TypeOK ==
  /\ up \in BOOLEAN /\ started \in BOOLEAN /\ now \in 0 .. MaxWrites
  /\ mem \in Snapshot /\ disk \in Snapshot
  /\ held \in [Callers -> [repo : Repos \cup {None}, copy : Repository]]
  /\ acked \in [total : 0 .. MaxWrites, config : 0 .. MaxWrites, builds : [Repos -> 0 .. MaxWrites]]
  /\ torn \subseteq Repos /\ removed \subseteq Repos

Init ==
  /\ up = TRUE /\ started = FALSE /\ mem = Fresh /\ disk = Fresh
  /\ held = [c \in Callers |-> NoCopy] /\ now = 0
  /\ acked = [total |-> 0, config |-> 0, builds |-> [r \in Repos |-> 0]]
  /\ torn = {} /\ removed = {}

Tick == up /\ now < MaxWrites /\ now' = now + 1

\* saveToDiskUnsafe: the file is replaced by a rename or not at all.
Save(new, ok) == mem' = new /\ disk' = IF ok THEN new ELSE disk

\* createEntity and the repositories' Create: when the save fails, the new
\* entry is deleted, which leaves undone.
SaveCreated(new, undone, ok) ==
  IF ok THEN mem' = new /\ disk' = new ELSE mem' = undone /\ UNCHANGED disk

\* A write to the entry of r outdates the copies that other callers hold.
Tears(r, c) == torn' = IF Holders(r) \ {c} = {} THEN torn ELSE torn \cup {r}

-----------------------------------------------------------------------------
(* Repositories.                                                           *)

\* Create refuses a URL that is there.
CreateRepository(r, ok) ==
  /\ r \notin DOMAIN mem.repos
  /\ SaveCreated([mem EXCEPT !.repos = With(@, r, NewRepository)], mem, ok)

\* EnsureRepositoryState: GetByURL, then Create in a critical section of its
\* own, whose error is ignored.
EnsureRepositoryState(c, r, ok) ==
  /\ Free(c) /\ Tick /\ CreateRepository(r, ok)
  /\ removed' = IF ok THEN removed \ {r} ELSE removed
  /\ Tears(r, c)
  /\ UNCHANGED <<up, started, held, acked>>

\* RemoveRepositoryState.
RemoveRepositoryState(c, r, ok) ==
  /\ Free(c) /\ r \in DOMAIN mem.repos /\ Tick
  /\ Save([mem EXCEPT !.repos = Without(@, r)], ok)
  /\ removed' = IF ok THEN removed \cup {r} ELSE removed
  /\ acked' = [acked EXCEPT !.builds[r] = 0]
  /\ Tears(r, c)
  /\ UNCHANGED <<up, started, held>>

\* Mutated form of IncrementBuildCount: success is reported without a save.
IncrementBuildCount_Unsaved(c, r, ok) ==
  /\ Free(c) /\ r \in DOMAIN mem.repos /\ Tick
  /\ mem' = [mem EXCEPT !.repos[r].builds = @ + 1]
  /\ acked' = IF ok THEN [acked EXCEPT !.builds[r] = mem.repos[r].builds + 1] ELSE acked
  /\ Tears(r, c)
  /\ UNCHANGED <<up, started, disk, held, removed>>

\* IncrementRepoBuild.
IncrementBuildCount(c, r, ok) ==
  /\ Free(c) /\ r \in DOMAIN mem.repos /\ Tick
  /\ Save([mem EXCEPT !.repos[r].builds = @ + 1], ok)
  /\ acked' = IF ok THEN [acked EXCEPT !.builds[r] = mem.repos[r].builds + 1] ELSE acked
  /\ Tears(r, c)
  /\ UNCHANGED <<up, started, held, removed>>

\* SetDocumentCount, SetDocFilesHash and SetDocFilePaths: one entry, in place.
SetDocs(c, r, ok) ==
  /\ Free(c) /\ r \in DOMAIN mem.repos /\ Tick
  /\ Save([mem EXCEPT !.repos[r].docs = now'], ok)
  /\ Tears(r, c)
  /\ UNCHANGED <<up, started, held, acked, removed>>

\* SetRepoLastCommit and RecordDiscovery take a copy of the entry...
GetByURL(c, r) ==
  /\ Free(c) /\ r \in DOMAIN mem.repos
  /\ held' = [held EXCEPT ![c] = [repo |-> r, copy |-> mem.repos[r]]]
  /\ UNCHANGED <<up, started, mem, disk, now, acked, torn, removed>>

\* Mutated form of Update: the entry is written whether it still exists or not.
Update_Upsert(c, entry, ok) ==
  LET r == held[c].repo
  IN  /\ up /\ r # None /\ Tick
      /\ Save([mem EXCEPT !.repos = With(@, r, entry)], ok)
      /\ Tears(r, c)
      /\ held' = [held EXCEPT ![c] = NoCopy]
      /\ UNCHANGED <<up, started, acked, removed>>

\* ... and write the whole copy back, if the entry still exists.
Update(c, entry, ok) ==
  LET r == held[c].repo
  IN  /\ up /\ r # None /\ Tick
      /\ IF r \in DOMAIN mem.repos
         THEN Save([mem EXCEPT !.repos[r] = entry], ok) /\ Tears(r, c)
         ELSE UNCHANGED <<mem, disk, torn>>
      /\ held' = [held EXCEPT ![c] = NoCopy]
      /\ UNCHANGED <<up, started, acked, removed>>

SetRepoLastCommit(c, ok) == Update(c, [held[c].copy EXCEPT !.commit = now'], ok)
RecordDiscovery(c, ok) == Update(c, [held[c].copy EXCEPT !.docs = now'], ok)

-----------------------------------------------------------------------------
(* Builds, schedules, statistics, configuration.                           *)

\* Create does not look for an entry with this ID: when the save fails, the
\* entry it has replaced is deleted with the new one.
CreateBuild(b, ok) ==
  /\ Tick
  /\ SaveCreated([mem EXCEPT !.builds = With(@, b, now')], [mem EXCEPT !.builds = Without(@, b)], ok)
  /\ UNCHANGED <<up, started, held, acked, torn, removed>>

UpdateBuild(b, ok) ==
  /\ b \in DOMAIN mem.builds /\ Tick
  /\ Save([mem EXCEPT !.builds[b] = now'], ok)
  /\ UNCHANGED <<up, started, held, acked, torn, removed>>

DeleteBuild(b, ok) ==
  /\ b \in DOMAIN mem.builds /\ Tick
  /\ Save([mem EXCEPT !.builds = Without(@, b)], ok)
  /\ UNCHANGED <<up, started, held, acked, torn, removed>>

\* Cleanup sorts by creation time, newest first, and keeps the first n.
Newest(builds, n) ==
  {b \in DOMAIN builds : Cardinality({x \in DOMAIN builds : builds[x] > builds[b]}) < n}

Compact(ok) ==
  /\ Cardinality(DOMAIN mem.builds) > KeepBuilds /\ Tick
  /\ Save([mem EXCEPT !.builds = Restrict(@, Newest(@, KeepBuilds))], ok)
  /\ UNCHANGED <<up, started, held, acked, torn, removed>>

CreateSchedule(s, ok) ==
  /\ Tick
  /\ SaveCreated([mem EXCEPT !.schedules = With(@, s, now')], [mem EXCEPT !.schedules = Without(@, s)], ok)
  /\ UNCHANGED <<up, started, held, acked, torn, removed>>

UpdateSchedule(s, ok) ==
  /\ s \in DOMAIN mem.schedules /\ Tick
  /\ Save([mem EXCEPT !.schedules[s] = now'], ok)
  /\ UNCHANGED <<up, started, held, acked, torn, removed>>

DeleteSchedule(s, ok) ==
  /\ s \in DOMAIN mem.schedules /\ Tick
  /\ Save([mem EXCEPT !.schedules = Without(@, s)], ok)
  /\ UNCHANGED <<up, started, held, acked, torn, removed>>

\* RecordBuild; the first half of RecordDiscovery counts the same way.
RecordBuild(ok) ==
  /\ Tick
  /\ Save([mem EXCEPT !.total = @ + 1], ok)
  /\ acked' = IF ok THEN [acked EXCEPT !.total = mem.total + 1] ELSE acked
  /\ UNCHANGED <<up, started, held, torn, removed>>

ResetStatistics(ok) ==
  /\ Tick
  /\ Save([mem EXCEPT !.total = 0], ok)
  /\ acked' = [acked EXCEPT !.total = 0]
  /\ UNCHANGED <<up, started, held, torn, removed>>

SetConfiguration(ok) ==
  /\ Tick
  /\ Save([mem EXCEPT !.config = now'], ok)
  /\ acked' = IF ok THEN [acked EXCEPT !.config = now'] ELSE acked
  /\ UNCHANGED <<up, started, held, torn, removed>>

DeleteConfiguration(ok) ==
  /\ mem.config # 0 /\ Tick
  /\ Save([mem EXCEPT !.config = 0], ok)
  /\ acked' = [acked EXCEPT !.config = 0]
  /\ UNCHANGED <<up, started, held, torn, removed>>

-----------------------------------------------------------------------------
(* The service: start, stop, crash, reopening.                             *)

\* Start fails, and the daemon with it, when the status cannot be saved.
Start(ok) ==
  /\ ~started /\ Tick
  /\ Save([mem EXCEPT !.status = "running"], ok)
  /\ started' = ok
  /\ UNCHANGED <<up, held, acked, torn, removed>>

\* Stop: the status is saved with a warning at most, Close saves once more.
Stop(statusOK, closeOK) ==
  /\ started /\ Tick
  /\ Save([mem EXCEPT !.status = "stopping"], statusOK \/ closeOK)
  /\ up' = FALSE /\ started' = FALSE
  /\ held' = [c \in Callers |-> NoCopy]
  /\ acked' = IF closeOK THEN [acked EXCEPT !.total = mem.total, !.config = mem.config] ELSE acked
  /\ UNCHANGED <<torn, removed>>

Crash ==
  /\ up /\ up' = FALSE /\ started' = FALSE
  /\ held' = [c \in Callers |-> NoCopy]
  /\ UNCHANGED <<mem, disk, now, acked, torn, removed>>

\* applySnapshot: every map and field the file has replaces the fresh one.
Loaded(file) == [f \in DOMAIN Fresh |-> IF f \in DOMAIN file THEN file[f] ELSE Fresh[f]]

\* NewJSONStore with a state file.
Open ==
  /\ ~up /\ up' = TRUE /\ mem' = Loaded(disk)
  /\ UNCHANGED <<started, disk, held, now, acked, torn, removed>>

Next ==
  \/ \E c \in Callers, r \in Repos, ok \in BOOLEAN :
       \/ EnsureRepositoryState(c, r, ok) \/ RemoveRepositoryState(c, r, ok)
       \/ IncrementBuildCount(c, r, ok) \/ SetDocs(c, r, ok)
  \/ \E c \in Callers, r \in Repos : GetByURL(c, r)
  \/ \E c \in Callers, ok \in BOOLEAN : SetRepoLastCommit(c, ok) \/ RecordDiscovery(c, ok)
  \/ \E b \in Builds, ok \in BOOLEAN : CreateBuild(b, ok) \/ UpdateBuild(b, ok) \/ DeleteBuild(b, ok)
  \/ \E s \in Schedules, ok \in BOOLEAN :
       CreateSchedule(s, ok) \/ UpdateSchedule(s, ok) \/ DeleteSchedule(s, ok)
  \/ \E ok \in BOOLEAN :
       \/ Compact(ok) \/ RecordBuild(ok) \/ ResetStatistics(ok) \/ SetConfiguration(ok)
       \/ DeleteConfiguration(ok) \/ Start(ok)
  \/ \E statusOK, closeOK \in BOOLEAN : Stop(statusOK, closeOK)
  \/ Crash \/ Open

Spec == Init /\ [][Next]_vars

-----------------------------------------------------------------------------
(* Properties.                                                             *)

\* Whatever the store has reported as written is on the disk, through failed
\* saves, crashes and restarts: configuration values, counted builds and, for
\* a repository none of whose writes fell between a caller's read and its
\* write-back, the repository's build count.
AckedIsDurable ==
  /\ disk.total >= acked.total /\ disk.config >= acked.config
  /\ \A r \in Repos \ torn :
       acked.builds[r] > 0 => r \in DOMAIN disk.repos /\ disk.repos[r].builds >= acked.builds[r]

\* A repository whose removal was reported does not come back through a copy
\* that SetRepoLastCommit or RecordDiscovery took before the removal.
RemovedStaysRemoved == removed \cap (DOMAIN mem.repos \cup DOMAIN disk.repos) = {}

\* A creation that could not be saved is not found in memory either, where the
\* next save of another entry would carry it to the disk.
CreatedIsSaved == up => DOMAIN mem.repos \subseteq DOMAIN disk.repos

=============================================================================
