--------------------------- MODULE SiteBuildProofs ---------------------------
(***************************************************************************)
(* What a published site is, for any repositories, clone workers, strategy  *)
(* and number of builds. The inductive invariant follows the staging          *)
(* directory through a build: empty until the content is copied, the fetched  *)
(* commits from then on, rendered before it is promoted.                     *)
(***************************************************************************)
EXTENDS SiteBuild, TLAPS

Fetching == {"feed", "send", "join"}
Empty == [r \in Repos |-> {}]
FetchedContent == [r \in Repos |-> IF r \in cloned THEN {work[r]} ELSE {}]

\* A build that has not promoted yet has no cleanup of its own.
CleaningBound ==
  /\ cleaning <= builds
  /\ at \notin {"idle", "persist"} => cleaning < builds

\* No clone worker is busy outside the clone stage; fetched repositories have
\* a working copy.
WorkersDone ==
  /\ at \notin Fetching => \A w \in CloneWorkers : worker[w].state \in {"idle", "gone"}
  /\ \A r \in cloned : work[r] \in Commits

\* A build keeps its staging directory until its end; what is about to be
\* promoted is rendered, and what was promoted is there.
Rendered ==
  /\ at \in Fetching \cup {"copy", "render"} => stage.there
  /\ at \in {"finalize", "backup", "promote"} => stage.there /\ (HugoRuns => stage.public)
  /\ at = "persist" => out.there /\ (HugoRuns => out.public)

\* The content of the staging directory through a build.
StageContent ==
  ~interrupted =>
    /\ at \in Fetching \cup {"idle", "copy", "skip", "persist"} => stage.content = Empty
    /\ at \in {"render", "finalize", "backup", "promote"} => stage.content = FetchedContent

IInv ==
  /\ TypeOK /\ CleaningBound /\ WorkersDone /\ Rendered /\ StageContent
  /\ OutputIsWhole /\ OutputStays /\ PublishedIsFetched

-----------------------------------------------------------------------------
\* The invariant holds before the first build.
LEMMA InitIInv == Init => IInv
<1> SUFFICES ASSUME Init PROVE IInv
  OBVIOUS
<1> USE SiteAssumption DEF Init, Commits
<1>1. Absent \in Dirs
  BY DEF Absent, Dirs
<1>2. canceled \in BOOLEAN /\ published \in BOOLEAN /\ interrupted \in BOOLEAN
  BY Zenon
<1>3. TypeOK
  BY <1>1, <1>2 DEF TypeOK, None, Idle
<1>4. CleaningBound /\ WorkersDone /\ Rendered
  BY DEF CleaningBound, WorkersDone, Rendered, Idle, Fetching
<1>5. StageContent
  BY DEF StageContent, Absent, Empty
<1>6. OutputIsWhole /\ OutputStays /\ PublishedIsFetched
  BY DEF OutputIsWhole, OutputStays, PublishedIsFetched, Absent
<1> QED
  BY <1>3, <1>4, <1>5, <1>6 DEF IInv

\* Every step keeps the types and the bound on cleanups.
LEMMA NextType == IInv /\ [Next]_vars => TypeOK' /\ CleaningBound'
<1> SUFFICES ASSUME IInv, [Next]_vars PROVE TypeOK' /\ CleaningBound'
  OBVIOUS
<1> USE SiteAssumption DEF IInv, TypeOK, CleaningBound, Commits
<1>1. CASE BeginStaging
  <2>1. canceled' \in BOOLEAN
    BY <1>1, Zenon DEF BeginStaging
  <2>2. stage' \in Dirs
    BY <1>1 DEF BeginStaging, Dirs
  <2>3. worker' \in [CloneWorkers -> [state : {"idle", "got", "fetch", "gone"}, repo : SUBSET Repos]]
    BY <1>1 DEF BeginStaging, Idle
  <2>4. pin' \in [Repos -> Commits \cup {NoCommit}]
    BY <1>1 DEF BeginStaging, Pins
  <2> QED
    BY <1>1, <2>1, <2>2, <2>3, <2>4 DEF BeginStaging, None, ghosts
<1>2. CASE Feed
  BY <1>2 DEF Feed, dirs, clones, job, ghosts
<1>3. ASSUME NEW w \in CloneWorkers, NEW r \in Repos, Send(w, r) PROVE TypeOK' /\ CleaningBound'
  BY <1>3 DEF Send, dirs, job, ghosts
<1>4. ASSUME NEW w \in CloneWorkers, WorkerChecks(w) PROVE TypeOK' /\ CleaningBound'
  BY <1>4 DEF WorkerChecks, dirs, job, ghosts
<1>5. ASSUME NEW w \in CloneWorkers, NEW r \in Repos, FetchOk(w, r) PROVE TypeOK' /\ CleaningBound'
  BY <1>5 DEF FetchOk, Fetched, KnownPreHead, Idle, dirs, job, ghosts
<1>6. ASSUME NEW w \in CloneWorkers, NEW r \in Repos, FetchFails(w, r) PROVE TypeOK' /\ CleaningBound'
  BY <1>6 DEF FetchFails, Idle, dirs, job, ghosts
<1>7. CASE CloneStageEnds
  BY <1>7 DEF CloneStageEnds, dirs, clones, job, ghosts
<1>8. CASE CopyContent
  <2>1. stage' \in Dirs
    BY <1>8, SMTT(30) DEF CopyContent, Dirs, WorkersDone
  <2> QED
    BY <1>8, <2>1 DEF CopyContent, clones, job, ghosts
<1>9. CASE RunHugo
  BY <1>9, ZenonT(60) DEF RunHugo, Dirs, clones, job, ghosts
<1>10. CASE StageFails
  BY <1>10 DEF StageFails, dirs, clones, job, ghosts
<1>11. CASE AbortStaging
  BY <1>11 DEF AbortStaging, Absent, Dirs, clones, job, ghosts
<1>12. CASE SkipBuild
  BY <1>12, SMTT(30) DEF SkipBuild, Absent, Dirs, clones, job, ghosts
<1>13. CASE RemoveOldBackup
  BY <1>13 DEF RemoveOldBackup, Absent, Dirs, clones, job, ghosts
<1>14. CASE Backup
  BY <1>14 DEF Backup, Absent, Dirs, clones, job, ghosts
<1>15. CASE Promote
  <2>1. published' \in BOOLEAN /\ interrupted' \in BOOLEAN
    BY <1>15, Zenon DEF Promote
  <2> QED
    BY <1>15, <2>1 DEF Promote, Absent, Dirs, clones, job
<1>16. CASE RenameFails
  <2>1. published' \in BOOLEAN /\ interrupted' \in BOOLEAN
    BY <1>16, Zenon DEF RenameFails
  <2> QED
    BY <1>16, <2>1 DEF RenameFails, dirs, clones, job
<1>17. CASE PersistReport
  <2>1. out' \in Dirs
    BY <1>17, ZenonT(60) DEF PersistReport, Dirs
  <2> QED
    BY <1>17, <2>1 DEF PersistReport, clones, job, ghosts
<1>18. CASE Cleanup
  BY <1>18 DEF Cleanup, Absent, Dirs, clones, job, ghosts
<1>19. CASE Cancel
  <2>1. canceled' \in BOOLEAN
    BY <1>19, Zenon DEF Cancel
  <2> QED
    BY <1>19, <2>1 DEF Cancel, dirs, clones, ghosts
<1>20. CASE Crash
  <2>1. published' \in BOOLEAN /\ interrupted' \in BOOLEAN
    BY <1>20, Zenon DEF Crash
  <2> QED
    BY <1>20, <2>1 DEF Crash, Idle, dirs, job
<1>21. ASSUME NEW r \in Repos, Push(r) PROVE TypeOK' /\ CleaningBound'
  BY <1>21 DEF Push, dirs, clones, job, ghosts
<1>22. CASE UNCHANGED vars
  BY <1>22 DEF vars, dirs, clones, job, ghosts
<1> QED
  BY <1>1, <1>2, <1>3, <1>4, <1>5, <1>6, <1>7, <1>8, <1>9, <1>10, <1>11, <1>12, <1>13, <1>14, <1>15,
     <1>16, <1>17, <1>18, <1>19, <1>20, <1>21, <1>22 DEF Next, BuildStep, WorkerStep

\* Every step keeps what holds of the clone workers.
LEMMA NextWorkers == IInv /\ [Next]_vars => WorkersDone'
<1> SUFFICES ASSUME IInv, [Next]_vars PROVE WorkersDone'
  OBVIOUS
<1> USE SiteAssumption DEF IInv, TypeOK, WorkersDone, Commits, Fetching
<1>1. CASE BeginStaging
  BY <1>1 DEF BeginStaging, Idle
<1>2. CASE Feed
  BY <1>2 DEF Feed, clones
<1>3. ASSUME NEW w \in CloneWorkers, NEW r \in Repos, Send(w, r) PROVE WorkersDone'
  BY <1>3 DEF Send
<1>4. ASSUME NEW w \in CloneWorkers, WorkerChecks(w) PROVE WorkersDone'
  BY <1>4 DEF WorkerChecks
<1>5. ASSUME NEW w \in CloneWorkers, NEW r \in Repos, FetchOk(w, r) PROVE WorkersDone'
  <2>1. at \in Fetching
    BY <1>5 DEF FetchOk
  <2>2. Fetched(r) \in Commits
    BY DEF Fetched
  <2> QED
    BY <1>5, <2>1, <2>2 DEF FetchOk
<1>6. ASSUME NEW w \in CloneWorkers, NEW r \in Repos, FetchFails(w, r) PROVE WorkersDone'
  <2>1. at \in Fetching
    BY <1>6 DEF FetchFails
  <2> QED
    BY <1>6, <2>1 DEF FetchFails
<1>7. CASE CloneStageEnds
  BY <1>7 DEF CloneStageEnds, clones
<1>8. CASE CopyContent \/ RunHugo \/ StageFails \/ AbortStaging \/ SkipBuild
  BY <1>8 DEF CopyContent, RunHugo, StageFails, AbortStaging, SkipBuild, clones
<1>9. CASE RemoveOldBackup \/ Backup \/ Promote \/ RenameFails \/ PersistReport \/ Cleanup
  BY <1>9 DEF RemoveOldBackup, Backup, Promote, RenameFails, PersistReport, Cleanup, clones
<1>10. CASE Cancel
  BY <1>10 DEF Cancel, clones
<1>11. CASE Crash
  BY <1>11 DEF Crash, Idle
<1>12. ASSUME NEW r \in Repos, Push(r) PROVE WorkersDone'
  BY <1>12 DEF Push, clones
<1>13. CASE UNCHANGED vars
  BY <1>13 DEF vars, clones
<1> QED
  BY <1>1, <1>2, <1>3, <1>4, <1>5, <1>6, <1>7, <1>8, <1>9, <1>10, <1>11, <1>12, <1>13
     DEF Next, BuildStep, WorkerStep

\* Every step keeps the output and its backup rendered sites, and the output
\* in its place.
LEMMA NextOutput == IInv /\ [Next]_vars => Rendered' /\ OutputIsWhole' /\ OutputStays'
<1> SUFFICES ASSUME IInv, [Next]_vars PROVE Rendered' /\ OutputIsWhole' /\ OutputStays'
  OBVIOUS
<1> USE DEF IInv, TypeOK, Rendered, OutputIsWhole, OutputStays, Fetching
<1>1. CASE BeginStaging
  BY <1>1 DEF BeginStaging, ghosts, Dirs
<1>2. CASE Feed \/ CloneStageEnds \/ StageFails
  BY <1>2 DEF Feed, CloneStageEnds, StageFails, dirs, ghosts
<1>3. ASSUME NEW w \in CloneWorkers, NEW r \in Repos, Send(w, r) \/ FetchOk(w, r) \/ FetchFails(w, r)
      PROVE Rendered' /\ OutputIsWhole' /\ OutputStays'
  BY <1>3 DEF Send, FetchOk, FetchFails, dirs, ghosts
<1>4. ASSUME NEW w \in CloneWorkers, WorkerChecks(w) PROVE Rendered' /\ OutputIsWhole' /\ OutputStays'
  BY <1>4 DEF WorkerChecks, dirs, ghosts
<1>5. CASE CopyContent
  BY <1>5 DEF CopyContent, ghosts, Dirs
<1>6. CASE RunHugo
  BY <1>6 DEF RunHugo, ghosts, Dirs
<1>7. CASE AbortStaging
  BY <1>7 DEF AbortStaging, ghosts
<1>8. CASE SkipBuild
  BY <1>8 DEF SkipBuild, ghosts, Dirs
<1>9. CASE RemoveOldBackup
  BY <1>9 DEF RemoveOldBackup, ghosts, Absent
<1>10. CASE Backup
  BY <1>10 DEF Backup, ghosts, Absent
<1>11. CASE Promote
  BY <1>11 DEF Promote
<1>12. CASE RenameFails
  BY <1>12 DEF RenameFails, dirs
<1>13. CASE PersistReport
  BY <1>13 DEF PersistReport, ghosts, Dirs
<1>14. CASE Cleanup
  BY <1>14 DEF Cleanup, ghosts, Absent
<1>15. CASE Cancel
  BY <1>15 DEF Cancel, dirs, ghosts
<1>16. CASE Crash
  BY <1>16 DEF Crash, dirs
<1>17. ASSUME NEW r \in Repos, Push(r) PROVE Rendered' /\ OutputIsWhole' /\ OutputStays'
  BY <1>17 DEF Push, dirs, ghosts
<1>18. CASE UNCHANGED vars
  BY <1>18 DEF vars, dirs, ghosts
<1> QED
  BY <1>1, <1>2, <1>3, <1>4, <1>5, <1>6, <1>7, <1>8, <1>9, <1>10, <1>11, <1>12, <1>13, <1>14, <1>15,
     <1>16, <1>17, <1>18 DEF Next, BuildStep, WorkerStep

\* A removed directory holds nothing.
LEMMA AbsentIsEmpty == Absent.content = [r \in Repos |-> {}]
  BY DEF Absent

\* Every step keeps the account of the staging directory's content.
LEMMA NextContent == IInv /\ [Next]_vars => StageContent' /\ PublishedIsFetched'
<1> SUFFICES ASSUME IInv, [Next]_vars PROVE StageContent' /\ PublishedIsFetched'
  OBVIOUS
<1> USE DEF IInv, TypeOK, StageContent, PublishedIsFetched, FetchedContent, Empty, Fetching
<1>1. CASE BeginStaging
  BY <1>1 DEF BeginStaging, ghosts, Dirs
<1>2. CASE Feed \/ CloneStageEnds \/ StageFails
  BY <1>2 DEF Feed, CloneStageEnds, StageFails, dirs, clones, ghosts
<1>3. ASSUME NEW w \in CloneWorkers, NEW r \in Repos, Send(w, r)
      PROVE StageContent' /\ PublishedIsFetched'
  BY <1>3 DEF Send, dirs, ghosts
<1>4. ASSUME NEW w \in CloneWorkers, NEW r \in Repos, FetchOk(w, r) \/ FetchFails(w, r)
      PROVE StageContent' /\ PublishedIsFetched'
  <2>1. at \in Fetching
    BY <1>4 DEF FetchOk, FetchFails, WorkersDone
  <2> QED
    BY <1>4, <2>1 DEF FetchOk, FetchFails, dirs, ghosts
<1>5. ASSUME NEW w \in CloneWorkers, WorkerChecks(w) PROVE StageContent' /\ PublishedIsFetched'
  BY <1>5 DEF WorkerChecks, dirs, ghosts
<1>6. CASE CopyContent
  <2>1. stage'.content = [r \in Repos |-> IF r \in cloned THEN stage.content[r] \cup {work[r]}
                                                         ELSE stage.content[r]]
    BY <1>6 DEF CopyContent, Dirs
  <2>2. ~interrupted => \A r \in Repos : stage.content[r] = {}
    BY <1>6 DEF CopyContent
  <2>3. ~interrupted => stage'.content = [r \in Repos |-> IF r \in cloned THEN {work[r]} ELSE {}]
    BY <2>1, <2>2, ZenonT(60)
  <2> QED
    BY <1>6, <2>3 DEF CopyContent, clones, ghosts
<1>7. CASE RunHugo
  BY <1>7 DEF RunHugo, clones, ghosts, Dirs
<1>8. CASE AbortStaging \/ SkipBuild
  <2>1. stage'.content = [r \in Repos |-> {}] /\ at' = "idle"
    BY <1>8, AbsentIsEmpty DEF AbortStaging, SkipBuild
  <2> QED
    BY <2>1
<1>9. CASE RemoveOldBackup
  BY <1>9 DEF RemoveOldBackup, clones, ghosts
<1>10. CASE Backup
  BY <1>10 DEF Backup, clones, ghosts
<1>11. CASE Promote
  <2>1. stage'.content = [r \in Repos |-> {}] /\ at' = "persist"
    BY <1>11, AbsentIsEmpty DEF Promote
  <2>2. PublishedIsFetched'
    BY <1>11 DEF Promote, clones
  <2> QED
    BY <2>1, <2>2
<1>12. CASE RenameFails
  BY <1>12 DEF RenameFails
<1>13. CASE PersistReport
  <2>1. stage.content = Empty \/ interrupted
    BY <1>13 DEF PersistReport
  <2> QED
    BY <1>13, <2>1 DEF PersistReport, clones, ghosts
<1>14. CASE Cleanup
  BY <1>14 DEF Cleanup, clones, ghosts
<1>15. CASE Cancel
  BY <1>15 DEF Cancel, dirs, clones, ghosts
<1>16. CASE Crash
  BY <1>16 DEF Crash
<1>17. ASSUME NEW r \in Repos, Push(r) PROVE StageContent' /\ PublishedIsFetched'
  BY <1>17 DEF Push, dirs, clones, ghosts
<1>18. CASE UNCHANGED vars
  BY <1>18 DEF vars, dirs, clones, ghosts
<1> QED
  BY <1>1, <1>2, <1>3, <1>4, <1>5, <1>6, <1>7, <1>8, <1>9, <1>10, <1>11, <1>12, <1>13, <1>14, <1>15,
     <1>16, <1>17, <1>18 DEF Next, BuildStep, WorkerStep

-----------------------------------------------------------------------------
\* The invariant is inductive.
THEOREM IInvHolds == Spec => []IInv
<1>1. IInv /\ [Next]_vars => IInv'
  BY NextType, NextWorkers, NextOutput, NextContent DEF IInv
<1> QED
  BY <1>1, InitIInv, PTL DEF Spec

\* Types and the bound on pending cleanups hold throughout.
THEOREM TypeCorrect == Spec => []TypeOK
<1>1. IInv => TypeOK
  BY DEF IInv
<1> QED
  BY <1>1, IInvHolds, PTL

\* The output and its backup are rendered sites, never a scaffold, whatever
\* fails, is cancelled or is killed (GenerateFullSite, finalizeStaging).
THEOREM OutputAlwaysWhole == Spec => []OutputIsWhole
<1>1. IInv => OutputIsWhole
  BY DEF IInv
<1> QED
  BY <1>1, IInvHolds, PTL

\* A published site is only away between the two renames of finalizeStaging.
THEOREM OutputNeverTaken == Spec => []OutputStays
<1>1. IInv => OutputStays
  BY DEF IInv
<1> QED
  BY <1>1, IInvHolds, PTL

\* A published site holds the fetched commits and nothing of an earlier build
\* (beginStaging, copyContentFilesPipeline, abortStaging).
THEOREM PublishedHoldsFetched == Spec => []PublishedIsFetched
<1>1. IInv => PublishedIsFetched
  BY DEF IInv
<1> QED
  BY <1>1, IInvHolds, PTL
=============================================================================
