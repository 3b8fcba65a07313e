----------------------------- MODULE SiteServing -----------------------------
(***************************************************************************)
(* The docs server (internal/server/httpserver/http_server_docs.go) reading  *)
(* the output directory while finalizeStaging (internal/hugo/structure.go)   *)
(* replaces it.  A promotion is two renames with the output absent between   *)
(* them and a removal of the backup in the background; a request finds the   *)
(* directory to serve from, looks for the rendered site once more and only   *)
(* then opens the file, each by name.                                        *)
(***************************************************************************)
EXTENDS Integers, Sequences, FiniteSets, SequencesExt

CONSTANTS
  Pages,       \* paths with an index page, sequences of segments; << >> is "/"
  MaxBuilds, MaxFaults, MaxKills   \* bounds

VARIABLES
  out, prev, stage,   \* the directories: a site or Absent
  at,                 \* where finalizeStaging is
  cleaning,           \* removals of the backup under way in the background
  built, failures, kills,
  req,                \* the request being served
  seen                \* the newest build that a request has been answered from

vars == <<out, prev, stage, at, cleaning, built, failures, kills, req, seen>>

Absent == [n |-> 0, has |-> {}]
NoReq == [pc |-> "idle", path |-> <<>>, root |-> "", calm |-> FALSE, cookie |-> FALSE]

Init ==
  /\ out = Absent /\ prev = Absent /\ stage = Absent /\ at = "idle" /\ cleaning = 0
  /\ built = 0 /\ failures = 0 /\ kills = 0 /\ req = NoReq /\ seen = 0

\* A step of a promotion while a request is under way.
Disturb == req' = [req EXCEPT !.calm = FALSE]

(* Promotion *)

\* A build has filled the staging directory, the rendered site included.
BeginStaging ==
  /\ at = "idle" /\ built < MaxBuilds /\ built' = built + 1 /\ at' = "remove"
  /\ \E h \in {Pages, {<<>>}} : stage' = [n |-> built + 1, has |-> h]
  /\ UNCHANGED <<out, prev, cleaning, failures, kills, req, seen>>

\* Three attempts and a last one after chmod; a failure is only logged.
RemoveOldBackup ==
  /\ at = "remove" /\ at' = "backup" /\ Disturb
  /\ \/ prev' = Absent /\ UNCHANGED failures
     \/ prev # Absent /\ failures < MaxFaults /\ failures' = failures + 1 /\ UNCHANGED prev
  /\ UNCHANGED <<out, stage, cleaning, built, kills, seen>>

\* Mutated form of Backup: a backup in the way is ignored and the output removed.
Backup_Ignores ==
  /\ at = "backup" /\ Disturb /\ at' = "promote" /\ out' = Absent
  /\ prev' = IF prev = Absent THEN out ELSE prev
  /\ UNCHANGED <<stage, cleaning, built, failures, kills, seen>>

\* The output becomes the backup; a directory in the way makes the rename fail.
Backup ==
  /\ at = "backup" /\ Disturb
  /\ IF out # Absent /\ prev # Absent
     THEN at' = "idle" /\ stage' = Absent /\ UNCHANGED <<out, prev>>
     ELSE /\ at' = "promote" /\ UNCHANGED stage
          /\ prev' = IF out # Absent THEN out ELSE prev
          /\ out' = Absent
  /\ UNCHANGED <<cleaning, built, failures, kills, seen>>

\* Staging becomes the output and the backup is removed in the background; a
\* failed rename leaves the backup only.
Promote ==
  /\ at = "promote" /\ Disturb /\ at' = "idle" /\ stage' = Absent
  /\ \/ out' = stage /\ cleaning' = cleaning + 1 /\ UNCHANGED failures
     \/ failures < MaxFaults /\ failures' = failures + 1 /\ UNCHANGED <<out, cleaning>>
  /\ UNCHANGED <<prev, built, kills, seen>>

\* A removal in the background, at any later time.
Clean ==
  /\ cleaning > 0 /\ cleaning' = cleaning - 1 /\ prev' = Absent /\ Disturb
  /\ UNCHANGED <<out, stage, at, built, failures, kills, seen>>

\* The process is killed; directories stay as they are.
Kill ==
  /\ kills < MaxKills /\ kills' = kills + 1
  /\ at' = "idle" /\ cleaning' = 0 /\ req' = NoReq
  /\ UNCHANGED <<out, prev, stage, built, failures, seen>>

(* Requests *)

\* Mutated form of ResolveDocsRoot: the backup is looked for first.
ResolveDocsRoot_BackupFirst == IF prev # Absent THEN "prev" ELSE IF out # Absent THEN "out" ELSE "project"

\* The rendered site, else that of the backup, else the project directory.
ResolveDocsRoot == IF out # Absent THEN "out" ELSE IF prev # Absent THEN "prev" ELSE "project"

\* What FileServer finds when it opens the page below a root.
At(root) == CASE root = "out" -> out [] root = "prev" -> prev [] OTHER -> Absent
Found(root, p) == p \in At(root).has

Request(p) ==
  /\ req.pc = "idle"
  /\ \E c \in BOOLEAN : req' = [pc |-> "resolved", path |-> p, root |-> ResolveDocsRoot, calm |-> at = "idle", cookie |-> c]
  /\ UNCHANGED <<out, prev, stage, at, cleaning, built, failures, kills, seen>>

\* Without a rendered site the start page is a status page; the output is
\* looked at again, so a site that has appeared since is not found by it.
ShouldShowStatusPage == req.root = "project" /\ out = Absent
HandleStatusPage ==
  /\ req.pc = "resolved" /\ ShouldShowStatusPage
  /\ req' = [req EXCEPT !.pc = IF req.path = <<>> THEN "pending" ELSE "missing"]
  /\ UNCHANGED <<out, prev, stage, at, cleaning, built, failures, kills, seen>>

\* The page is opened below the root found before.
ServeFile ==
  /\ req.pc = "resolved" /\ ~ShouldShowStatusPage
  /\ req' = [req EXCEPT !.pc = IF Found(req.root, req.path) THEN "ok" ELSE "missing"]
  /\ seen' = IF Found(req.root, req.path) THEN At(req.root).n ELSE seen
  /\ UNCHANGED <<out, prev, stage, at, cleaning, built, failures, kills>>

\* The nearest page above, else the start page.
FindNearestValidParent(root, p) ==
  LET above == {q \in Prefixes(p) : q # p /\ Found(root, q)} IN
  IF above = {} THEN <<>> ELSE CHOOSE q \in above : \A r \in above : Len(r) <= Len(q)

\* A page that is gone after a live reload leads to the nearest one above it, in
\* the root that is found now; any other answer ends the request.
Answer ==
  /\ req.pc \in {"ok", "pending", "missing"}
  /\ LET to == FindNearestValidParent(ResolveDocsRoot, req.path) IN
     req' = IF req.pc = "missing" /\ req.cookie /\ to # req.path
            THEN [req EXCEPT !.pc = "redirect", !.path = to, !.root = ResolveDocsRoot]
            ELSE NoReq
  /\ UNCHANGED <<out, prev, stage, at, cleaning, built, failures, kills, seen>>

\* The browser follows the redirect; the cookie has been cleared.
Follow ==
  /\ req.pc = "redirect"
  /\ req' = [req EXCEPT !.pc = "resolved", !.root = ResolveDocsRoot, !.cookie = FALSE]
  /\ UNCHANGED <<out, prev, stage, at, cleaning, built, failures, kills, seen>>

Next ==
  \/ BeginStaging \/ RemoveOldBackup \/ Backup \/ Promote \/ Clean \/ Kill
  \/ \E p \in Pages : Request(p)
  \/ HandleStatusPage \/ ServeFile \/ Answer \/ Follow

\* A request during which nothing is promoted gets the page of the output, when
\* there is a rendered one that has it: never that of the backup, a status page
\* or an error.
CalmIsCurrent ==
  (req.calm /\ at = "idle" /\ out # Absent /\ req.pc \in {"ok", "pending", "missing"}) =>
    (req.pc = "ok") = Found("out", req.path) /\ (req.pc = "ok" => seen = out.n)

\* A redirect made while nothing is promoted leads to a page that is there.
RedirectIsFound ==
  (req.calm /\ at = "idle" /\ out # Absent /\ req.pc = "redirect") => Found("out", req.path)

\* Requests served one after another never go back to an older build, whatever
\* is promoted, fails or is killed between and during them.
NeverGoesBack == seen' >= seen

\* The last copy of the site goes only where the code removes a backup: at the
\* start of a promotion that follows an interrupted one, or when a removal in the
\* background meets the backup of the next promotion.  Renames, their failures and
\* a kill between them keep the output or the backup.
OnlyRemovalLosesSite ==
  ({out, prev} # {Absent} /\ {out', prev'} = {Absent}) => out = Absent /\ (at = "remove" \/ cleaning' < cleaning)

=============================================================================
