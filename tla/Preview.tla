------------------------------- MODULE Preview -------------------------------
(***************************************************************************)
(* The local preview (internal/preview/local_preview.go): one build, then    *)
(* the servers, then a watcher on the docs directory whose events restart a  *)
(* debounce timer; the timer asks for a rebuild through a channel of one,    *)
(* and one worker rebuilds.  Ctrl-C stops the servers, closes the channel    *)
(* and removes the temporary output.  Time is abstract: the timer fires at   *)
(* any time after it was set.                                                *)
(***************************************************************************)
EXTENDS Integers, FiniteSets

CONSTANTS
  MaxEdits, MaxFailures,   \* bounds
  Temp                     \* the output directory is a temporary one

VARIABLES
  main,        \* where StartLocalPreview is
  docs,        \* directory -> its last edit; "sub" is created while the preview runs
  exists,      \* the directories that exist
  watched,     \* the directories the watcher watches
  events,      \* the directories with an event that has not been handled
  armed,       \* the debounce timer is set
  request,     \* what the rebuild channel holds
  chanClosed,
  worker,      \* the rebuild worker: idle, or what its build has read
  ctxDone, panicked,
  shown,       \* directory -> the edit that the served site shows
  out,         \* the temporary output exists
  lastError, hasGoodBuild,   \* buildStatus
  failures,
  unseen       \* directories edited before the watcher was set up, and not built since

vars == <<main, docs, exists, watched, events, armed, request, chanClosed, worker, ctxDone, panicked,
          shown, out, lastError, hasGoodBuild, failures, unseen>>

Dirs == {"root", "sub"}
status == <<shown, out, lastError, hasGoodBuild, failures>>
user == <<docs, exists, events, unseen>>

Init ==
  /\ main = "build" /\ docs = [d \in Dirs |-> 0] /\ exists = {"root"} /\ watched = {} /\ events = {}
  /\ armed = FALSE /\ request = 0 /\ chanClosed = FALSE /\ worker = [pc |-> "idle", read |-> [d \in Dirs |-> 0]]
  /\ ctxDone = FALSE /\ panicked = FALSE /\ shown = [d \in Dirs |-> 0] /\ out = TRUE
  /\ lastError = FALSE /\ hasGoodBuild = FALSE /\ failures = 0 /\ unseen = {}

(* The user *)

\* A file is saved.  An editor's own files are ignored by the handler and are
\* no edit here.
Edit(d) ==
  /\ d \in exists /\ docs[d] < MaxEdits /\ ~ctxDone
  /\ docs' = [docs EXCEPT ![d] = @ + 1]
  /\ events' = IF d \in watched THEN events \cup {d} ELSE events
  /\ unseen' = IF watched = {} THEN unseen \cup {d} ELSE unseen
  /\ UNCHANGED <<main, exists, watched, armed, request, chanClosed, worker, ctxDone, panicked, status>>

\* A directory is made: an event of its parent.
Mkdir ==
  /\ "sub" \notin exists /\ "root" \in watched /\ ~ctxDone
  /\ exists' = exists \cup {"sub"} /\ events' = events \cup {"new"}
  /\ UNCHANGED <<main, docs, watched, armed, request, chanClosed, worker, ctxDone, panicked, status, unseen>>

Interrupt ==
  /\ ~ctxDone /\ ctxDone' = TRUE
  /\ UNCHANGED <<main, user, watched, armed, request, chanClosed, worker, panicked, status>>

(* Builds *)

SetError == lastError' = TRUE /\ UNCHANGED hasGoodBuild
SetSuccess == lastError' = FALSE /\ hasGoodBuild' = TRUE

\* How buildFromLocal ends, having read the given edits: the site is replaced, or
\* the error is remembered and the site stays.
Finish(read) ==
  \/ shown' = read /\ out' = TRUE /\ SetSuccess /\ UNCHANGED failures
  \/ (failures < MaxFailures \/ ctxDone) /\ failures' = (IF ctxDone THEN failures ELSE failures + 1)
     /\ SetError /\ UNCHANGED <<shown, out>>

\* The first build, and the daemon that only carries the hub.
InitializePreviewDaemon ==
  /\ main = "build" /\ main' = "serve" /\ Finish(docs)
  /\ UNCHANGED <<user, watched, armed, request, chanClosed, worker, ctxDone, panicked>>

\* A watch on the directory and on all below it.
AddDirsRecursive == watched \cup exists

\* Servers, watcher, debouncer and worker; the loop starts.
SetupFileWatcher ==
  /\ main = "serve" /\ main' = "loop" /\ watched' = AddDirsRecursive
  /\ UNCHANGED <<user, armed, request, chanClosed, worker, ctxDone, panicked, status>>

\* An event adds watches for a new directory and then restarts the timer.
HandleFileEvent(e) ==
  /\ main = "loop" /\ e \in events /\ events' = events \ {e}
  /\ watched' = IF e = "new" THEN AddDirsRecursive ELSE watched
  /\ armed' = TRUE
  /\ UNCHANGED <<main, docs, exists, unseen, request, chanClosed, worker, ctxDone, panicked, status>>

\* Mutated form of Fire: the request is dropped while the worker is building.
Fire_Unbuffered ==
  /\ armed /\ armed' = FALSE /\ panicked' = chanClosed
  /\ request' = IF chanClosed \/ worker.pc # "idle" THEN request ELSE 1
  /\ UNCHANGED <<main, user, watched, chanClosed, worker, ctxDone, status>>

\* The timer asks for a rebuild, unless one is asked for already.  A send on the
\* closed channel panics.
Fire ==
  /\ armed /\ ~panicked /\ armed' = FALSE /\ panicked' = chanClosed
  /\ request' = IF chanClosed THEN request ELSE 1
  /\ UNCHANGED <<main, user, watched, chanClosed, worker, ctxDone, status>>

\* The worker takes a request.  The build reads the documents first.
ProcessRebuild ==
  /\ main = "loop" /\ worker.pc = "idle" /\ request = 1 /\ ~chanClosed
  /\ request' = 0 /\ worker' = [pc |-> "building", read |-> docs] /\ unseen' = {}
  /\ UNCHANGED <<main, docs, exists, events, watched, armed, chanClosed, ctxDone, panicked, status>>

\* It ends; running and pending are back where they were, as the one worker
\* never receives while it runs.
RebuildEnds ==
  /\ worker.pc = "building" /\ worker' = [worker EXCEPT !.pc = "idle"] /\ Finish(worker.read)
  /\ UNCHANGED <<main, user, watched, armed, request, chanClosed, ctxDone, panicked>>

\* The worker sees the cancelled context, or the closed channel.
WorkerStops ==
  /\ worker.pc = "idle" /\ (ctxDone \/ chanClosed) /\ main # "build"
  /\ worker' = [worker EXCEPT !.pc = "stopped"]
  /\ UNCHANGED <<main, user, watched, armed, request, chanClosed, ctxDone, panicked, status>>

\* The servers are stopped with the cancelled context, the channel is closed and
\* the temporary output removed.  Neither the timer nor the worker is waited for.
HandleShutdown ==
  /\ ctxDone /\ ~panicked
  /\ \/ main = "loop" /\ main' = "closed" /\ chanClosed' = TRUE /\ UNCHANGED out
     \/ main = "closed" /\ main' = "exit" /\ out' = (out /\ ~Temp) /\ UNCHANGED chanClosed
  /\ UNCHANGED <<user, watched, armed, request, worker, ctxDone, panicked, shown, lastError, hasGoodBuild, failures>>

Next ==
  \/ \E d \in Dirs : Edit(d)
  \/ Mkdir \/ Interrupt
  \/ InitializePreviewDaemon \/ SetupFileWatcher
  \/ \E e \in events : HandleFileEvent(e)
  \/ Fire \/ ProcessRebuild \/ RebuildEnds \/ WorkerStops \/ HandleShutdown

\* The goroutines of the preview: the main one, the timer's and the worker's.
MainStep ==
  \/ InitializePreviewDaemon \/ SetupFileWatcher \/ HandleShutdown
  \/ \E e \in events : HandleFileEvent(e)
WorkerStep == ProcessRebuild \/ RebuildEnds

\* An edit that the watcher was there to see is not shown yet.
Edited(d) == main = "loop" /\ d \notin unseen /\ docs[d] # shown[d]

\* The last edit is shown, or a build has failed or the preview is ending.
Shown(d) == shown[d] = docs[d] \/ lastError \/ ctxDone

=============================================================================
