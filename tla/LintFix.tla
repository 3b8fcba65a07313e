------------------------------- MODULE LintFix -------------------------------
(***************************************************************************)
(* docbuilder lint --fix (internal/lint).  One run lints a tree of           *)
(* documents, adds missing uids and aliases, renames files whose names break *)
(* the conventions and updates the links to them, heals links that git's     *)
(* renames have broken, and recomputes fingerprints.  Files with issues are  *)
(* renamed in the order of a Go map; the links of a renamed file are looked  *)
(* for after the rename.  A document is Markdown; a name is what the         *)
(* conventions tell apart, a link is a relative path with or without the     *)
(* extension, and a line is the sequence of places where a path is written,  *)
(* as a link or as text.                                                     *)
(***************************************************************************)
EXTENDS Integers, Sequences, FiniteSets, SequencesExt, FiniteSetsExt

CONSTANTS
  Paths,       \* the paths a document may be at: directory and name
  Trees,       \* the trees to start from: documents, links at HEAD, and what git knows of
               \* renames: committed ones, staged ones, deleted files and untracked paths
  Force,       \* overwrite the target of a rename; the command passes FALSE
  MaxFaults,   \* bound on failing writes
  None

VARIABLES
  tree,        \* the tree the run started from
  dryRun,
  files,       \* path -> document or None
  pc,
  issues,      \* path -> the rules that it breaks, as linted
  broken,      \* path -> its broken links, as linted
  todo,        \* files with issues still to be processed
  renamed,     \* successful renames
  fpTargets,   \* files whose fingerprint has to be computed again
  job, jobs,   \* the link update under way, and those to come
  errors, faults

vars == <<tree, dryRun, files, pc, issues, broken, todo, renamed, fpTargets, job, jobs, errors, faults>>
run == <<tree, dryRun, issues, broken>>

Docs(fs) == {p \in Paths : fs[p] # None}

(* Names and paths *)

Fold(n) == [n EXCEPT !.case = "lower"]
SamePath(p, q) == p.dir = q.dir /\ Fold(p.name) = Fold(q.name)

\* Lower case, hyphens for spaces, no special characters, no separator at the ends.
SuggestFilename(n) ==
  [n EXCEPT !.case = "lower", !.gap = IF @ = "space" THEN "hyphen" ELSE @, !.mark = FALSE, !.edge = FALSE]
HasFilenameIssue(n) == n.case # "lower" \/ n.gap = "space" \/ n.mark \/ n.edge

\* The directory is read when there is no file of that very name.
FileExists(fs, p) == \E q \in Docs(fs) : SamePath(p, q)

Join(dir, rel) == FoldLeft(LAMBDA d, s : IF s = ".." THEN Front(d) ELSE Append(d, s), dir, rel)
Target(src, text) == [dir |-> Join(src.dir, text.rel), name |-> text.name]

\* A target without extension is taken for a document if there is one.
ResolveRelativePath(fs, src, text) ==
  LET p == Target(src, text) IN [path |-> p, ext |-> text.ext \/ FileExists(fs, p)]

IsBrokenLink(fs, src, text) ==
  LET r == ResolveRelativePath(fs, src, text) IN ~(r.ext /\ FileExists(fs, r.path))

\* The way from one directory to a path.
Rel(dir, p) ==
  LET common == Len(LongestCommonPrefix({dir, p.dir}))
  IN [i \in 1..(Len(dir) - common) |-> ".."] \o SubSeq(p.dir, common + 1, Len(p.dir))

(* The links of a document *)

\* All of them, in the order of the document.
LinkRefs(body) ==
  LET inLine(i) == FoldLeftDomain(LAMBDA acc, k : IF body[i][k].link THEN Append(acc, [line |-> i, text |-> body[i][k].text]) ELSE acc,
                                  <<>>, body[i])
  IN FoldLeftDomain(LAMBDA acc, i : acc \o inLine(i), <<>>, body)

\* Those that resolve to a path, now.
FindLinksInFile(fs, src, old) ==
  SelectSeq(LinkRefs(fs[src].body),
            LAMBDA ref : LET r == ResolveRelativePath(fs, src, ref.text) IN r.ext = old.ext /\ SamePath(r.path, old.path))

FindLinksToFile(fs, old) == [src \in {s \in Docs(fs) : FindLinksInFile(fs, s, old) # <<>>} |-> FindLinksInFile(fs, src, old)]

DetectBrokenLinks(fs) ==
  [src \in Paths |-> IF fs[src] = None THEN <<>>
                     ELSE SelectSeq(LinkRefs(fs[src].body), LAMBDA ref : IsBrokenLink(fs, src, ref.text))]

\* Mutated form of UpdateLinkTarget: the new name in the directory of the source.
UpdateLinkTarget_SameDir(src, text, new) == [text EXCEPT !.name = new.name, !.rel = <<>>]

\* The new path as seen from the source; the extension stays away if it was.
UpdateLinkTarget(src, text, new) == [text EXCEPT !.name = new.name, !.rel = Rel(src.dir, new)]

\* A text is part of another when it is the end of it; without extension it is
\* also the beginning of one that has it.
PartOf(text, whole) == text.name = whole.name /\ IsSuffix(text.rel, whole.rel) /\ (text.ext => whole.ext)

\* The last occurrence of the text in the line is replaced.
ReplaceLast(line, old, new) ==
  LET at == {k \in DOMAIN line : PartOf(old, line[k].text)}
      k == Max(at)
      before == SubSeq(line[k].text.rel, 1, Len(line[k].text.rel) - Len(old.rel))
  IN IF at = {} THEN line
     ELSE [line EXCEPT ![k].text = [name |-> new.name, rel |-> before \o new.rel, ext |-> @.ext]]

\* The links of one source, from the last line to the first.
ApplyLinkUpdates(body, src, refs, new) ==
  FoldLeft(LAMBDA b, ref : [b EXCEPT ![ref.line] = ReplaceLast(@, ref.text, UpdateLinkTarget(src, ref.text, new))],
           body, SortSeq(refs, LAMBDA a, b : a.line > b.line))

(* The run *)

FilenameRule(p) == IF HasFilenameIssue(p.name) THEN {"filename"} ELSE {}

\* An invalid uid is reported and not fixed; a valid one needs its alias.
FrontmatterUIDRule(d) ==
  IF d.uid = None THEN {"uid"} ELSE IF d.uid # "invalid" /\ ~d.alias THEN {"alias"} ELSE {}

\* Of the body as it is now.
ComputeFingerprint(d) == d.body
FrontmatterFingerprintRule(d) == IF d.fp # ComputeFingerprint(d) THEN {"fingerprint"} ELSE {}

CheckFile(fs, p) == FilenameRule(p) \cup FrontmatterUIDRule(fs[p]) \cup FrontmatterFingerprintRule(fs[p])

Init ==
  /\ tree \in Trees /\ dryRun \in BOOLEAN /\ files = tree.files /\ pc = "lint"
  /\ issues = [p \in Paths |-> {}] /\ broken = [p \in Paths |-> <<>>]
  /\ todo = {} /\ renamed = {} /\ fpTargets = {} /\ job = None /\ jobs = {} /\ errors = {} /\ faults = 0

LintPath ==
  /\ pc = "lint" /\ pc' = "uid"
  /\ issues' = [p \in Paths |-> IF files[p] = None THEN {} ELSE CheckFile(files, p)]
  /\ broken' = DetectBrokenLinks(files)
  /\ todo' = {p \in Paths : issues'[p] # {} \/ broken'[p] # <<>>}
  /\ fpTargets' = {p \in Paths : "fingerprint" \in issues'[p]}
  /\ UNCHANGED <<tree, dryRun, files, renamed, job, jobs, errors, faults>>

EnsureUID(d) == [d EXCEPT !.uid = IF @ = None THEN "new" ELSE @]
EnsureUIDAlias(d) == [d EXCEPT !.alias = TRUE]

\* A new uid with its alias.
EnsureFrontmatterUID(p) == IF dryRun THEN files[p] ELSE EnsureUIDAlias(EnsureUID(files[p]))
EnsureFrontmatterUIDAlias(p) == IF dryRun THEN files[p] ELSE EnsureUIDAlias(files[p])

\* Every target is fixed or, when its write fails, left as it is.
FixAll(targets, kind, Fix(_)) ==
  \E bad \in SUBSET targets :
    /\ Cardinality(bad) <= MaxFaults - faults /\ faults' = faults + Cardinality(bad)
    /\ files' = [p \in Paths |-> IF p \in targets \ bad THEN Fix(p) ELSE files[p]]
    /\ errors' = IF bad = {} THEN errors ELSE errors \cup {kind}
    /\ fpTargets' = fpTargets \cup (targets \ bad)

ApplyUIDFixes ==
  /\ pc = "uid" /\ pc' = "alias" /\ FixAll({p \in Paths : "uid" \in issues[p]}, "uid", EnsureFrontmatterUID)
  /\ UNCHANGED <<run, todo, renamed, job, jobs>>

ApplyUIDAliasesFixes ==
  /\ pc = "alias" /\ pc' = "files" /\ FixAll({p \in Paths : "alias" \in issues[p]}, "alias", EnsureFrontmatterUIDAlias)
  /\ UNCHANGED <<run, todo, renamed, job, jobs>>

\* Mutated form of TargetExists: rename replaces whatever is there.
TargetExists_Never(p) == FALSE
TargetExists(p) == files[p] # None /\ ~Force

NewJob(old, new, refs) == [old |-> old, new |-> new, refs |-> refs, todo |-> DOMAIN refs, saved |-> [p \in {} |-> None],
                           before |-> files']

\* One file with issues, in any order: a name that is fine or a target that
\* exists end it; after the rename its fingerprint is looked for at the new path,
\* and the links to the old one are collected.
ProcessFile(p) ==
  LET to == [p EXCEPT !.name = SuggestFilename(@)] IN
  /\ pc = "files" /\ job = None /\ p \in todo /\ todo' = todo \ {p}
  /\ \/ /\ "filename" \notin issues[p]
        /\ UNCHANGED <<files, renamed, fpTargets, job, errors, faults>>
     \/ /\ "filename" \in issues[p] /\ TargetExists(to)
        /\ errors' = errors \cup {"rename"} /\ UNCHANGED <<files, renamed, fpTargets, job, faults>>
     \/ /\ "filename" \in issues[p] /\ ~TargetExists(to) /\ ~dryRun /\ faults < MaxFaults
        /\ faults' = faults + 1 /\ errors' = errors \cup {"rename"} /\ UNCHANGED <<files, renamed, fpTargets, job>>
     \/ /\ "filename" \in issues[p] /\ ~TargetExists(to)
        /\ renamed' = renamed \cup {[old |-> p, new |-> to]}
        /\ IF dryRun THEN UNCHANGED <<files, fpTargets, job>>
           ELSE /\ files' = [files EXCEPT ![to] = files[p], ![p] = None]
                /\ fpTargets' = IF p \in fpTargets THEN (fpTargets \ {p}) \cup {to} ELSE fpTargets
                /\ LET old == [path |-> p, ext |-> TRUE]
                       refs == FindLinksToFile(files', old)
                   IN job' = IF DOMAIN refs = {} THEN None ELSE NewJob(old, to, refs)
        /\ UNCHANGED <<errors, faults>>
  /\ UNCHANGED <<run, pc, jobs>>

\* The backups with that of one more source, as it is now.
BackedUp(s) == [p \in DOMAIN job.saved \cup {s} |-> IF p = s THEN files[s] ELSE job.saved[p]]

\* One source of a link update: its backup is written and then the source.
UpdateSource(s) ==
  /\ job # None /\ s \in job.todo
  /\ LET body == ApplyLinkUpdates(files[s].body, s, job.refs[s], job.new) IN
     /\ files' = [files EXCEPT ![s].body = body]
     /\ job' = [job EXCEPT !.todo = @ \ {s},
                           !.saved = IF body = files[s].body THEN @ ELSE BackedUp(s)]
  /\ UNCHANGED <<run, pc, todo, renamed, fpTargets, jobs, errors, faults>>

\* Every backup is written back over its source, the torn one included.
RollbackLinkUpdates(torn, saved) ==
  [p \in Paths |-> IF p \in DOMAIN saved THEN saved[p]
                   ELSE IF p = torn THEN [files[p] EXCEPT !.body = <<>>] ELSE files[p]]

\* The write of a source fails; the rename stays.
UpdateSourceFails(s) ==
  /\ job # None /\ s \in job.todo /\ faults < MaxFaults /\ faults' = faults + 1
  /\ ApplyLinkUpdates(files[s].body, s, job.refs[s], job.new) # files[s].body
  /\ files' = RollbackLinkUpdates(s, BackedUp(s)) /\ job' = None /\ errors' = errors \cup {"links"}
  /\ UNCHANGED <<run, pc, todo, renamed, fpTargets, jobs>>

\* The backups are removed; what was written needs a new fingerprint.
LinksUpdated ==
  /\ job # None /\ job.todo = {} /\ job' = None /\ fpTargets' = fpTargets \cup DOMAIN job.saved
  /\ UNCHANGED <<run, files, pc, todo, renamed, jobs, errors, faults>>

(* Healing *)

\* Where a renamed file has been renamed to by this run, ten steps at most.
ResolveRenameChain(p) ==
  LET next(q) == {r \in renamed : SamePath(r.old, q)} IN
  FoldLeft(LAMBDA q, i : IF next(q) = {} THEN q ELSE (CHOOSE r \in next(q) : TRUE).new, p, [i \in 1..10 |-> i])

\* Renames since the upstream branch, or in the last commits; commits do not change.
GitHistoryRenames == tree.history

\* The staged renames.  The run's own renames of tracked files are among them: git
\* mv stages them, and an earlier staged rename then leads to the new name.
GitDiffRenames ==
  LET now(p) == IF \E r \in renamed : r.old = p THEN (CHOOSE r \in renamed : r.old = p).new ELSE p
      own == {r \in renamed : r.old \notin tree.untracked \cup {m.new : m \in tree.staged}}
  IN {[old |-> m.old, new |-> now(m.new)] : m \in tree.staged} \cup own

\* A deleted file is an untracked one when exactly one has the content it had, byte
\* for byte: one that this run has given a uid does not.
DetectUnstagedRenames ==
  LET untracked == {q \in Docs(files) : \E p \in tree.untracked : files[q].doc = tree.files[p].doc}
      same(d) == {q \in untracked : files[q] = d.content}
  IN {[old |-> d.path, new |-> CHOOSE q \in same(d) : TRUE] : d \in {e \in tree.deleted : Cardinality(same(e)) = 1}}

\* Those from and to paths below the docs root.
NormalizeRenameMappings(ms) ==
  LET inside(p) == p.dir = <<>> \/ p.dir[1] # ".." IN {m \in ms : inside(m.old) /\ inside(m.new)}

DetectScopedGitRenames == NormalizeRenameMappings(GitDiffRenames \cup DetectUnstagedRenames \cup GitHistoryRenames)

\* The renames of git with the destinations this run has given them.  A rename of
\* git is not followed by another one of git.
ApplyFixerRenameDestinations == {[old |-> m.old, new |-> ResolveRenameChain(m.new)] : m \in DetectScopedGitRenames}

\* Those whose old path is the resolved one, else those that differ in case.
LookupRenameMappings(p) ==
  LET exact == {m \in ApplyFixerRenameDestinations : m.old = p} IN
  IF exact # {} THEN exact ELSE {m \in ApplyFixerRenameDestinations : SamePath(m.old, p)}

\* What the link at the same position was in the last commit, if it was another
\* one and is there.
InferRenameMappingFromGitHead(src, ref) ==
  LET cur == LinkRefs(files[src].body)
      at == {i \in DOMAIN cur : cur[i] = ref}
      i == CHOOSE k \in at : TRUE
      was == ResolveRelativePath(files, src, tree.head[src][i])
  IN IF Cardinality(at) # 1 \/ i > Len(tree.head[src]) THEN {}
     ELSE IF tree.head[src][i] = ref.text \/ ~FileExists(files, was.path) THEN {}
     ELSE {[old |-> ResolveRelativePath(files, src, ref.text), new |-> was.path]}

\* The mapping of a broken link: one destination, or none.
MappingOf(src, ref) ==
  LET r == ResolveRelativePath(files, src, ref.text)
      found == LookupRenameMappings(r.path)
      news == {m.new : m \in found}
  IN IF found = {} THEN InferRenameMappingFromGitHead(src, ref)
     ELSE IF Cardinality(news) > 1 THEN {}
     ELSE {[old |-> [path |-> (CHOOSE m \in found : TRUE).old, ext |-> TRUE], new |-> n] : n \in news}

\* The links of a source to the old path of a mapping, once for every broken link
\* that has the mapping.  The source is looked for where it was linted.
RefsByMapping(m) ==
  LET refs(src) == FoldLeft(LAMBDA acc, ref : IF m \in MappingOf(src, ref) THEN acc \o FindLinksInFile(files, src, m.old) ELSE acc,
                            <<>>, broken[src])
      sources == {s \in Docs(files) : refs(s) # <<>>}
  IN [s \in sources |-> refs(s)]

HealBrokenLinks ==
  /\ pc = "files" /\ todo = {} /\ job = None /\ pc' = "heal"
  /\ LET mappings == UNION {UNION {MappingOf(src, ref) : ref \in ToSet(broken[src])} : src \in Docs(files)}
         found == {[old |-> m.old, new |-> m.new, refs |-> RefsByMapping(m)] : m \in mappings}
     IN jobs' = IF dryRun THEN {} ELSE {j \in found : DOMAIN j.refs # {}}
  /\ UNCHANGED <<run, files, todo, renamed, fpTargets, job, errors, faults>>

\* One mapping, in any order, with the links as they were collected.
ApplyHealedLinkUpdates(j) ==
  /\ pc = "heal" /\ job = None /\ j \in jobs /\ jobs' = jobs \ {j}
  /\ UNCHANGED files /\ job' = NewJob(j.old, j.new, j.refs)
  /\ UNCHANGED <<run, pc, todo, renamed, fpTargets, errors, faults>>

UpsertFingerprint(d) == [d EXCEPT !.fp = ComputeFingerprint(d)]
UpdateFrontmatterFingerprint(p) == IF dryRun THEN files[p] ELSE UpsertFingerprint(files[p])

\* Last, for every file that was changed or had a wrong one; a file that is not
\* where it is looked for is an error.
ApplyFingerprintFixes ==
  /\ pc = "heal" /\ jobs = {} /\ job = None /\ pc' = "done"
  /\ \E bad \in SUBSET fpTargets :
       /\ {p \in fpTargets : files[p] = None} \subseteq bad
       /\ LET failed == {p \in bad : files[p] # None} IN
          Cardinality(failed) <= MaxFaults - faults /\ faults' = faults + Cardinality(failed)
       /\ files' = [p \in Paths |-> IF p \in fpTargets \ bad THEN UpdateFrontmatterFingerprint(p) ELSE files[p]]
       /\ errors' = IF bad = {} THEN errors ELSE errors \cup {"fingerprint"}
  /\ UNCHANGED <<run, todo, renamed, fpTargets, job, jobs>>

Next ==
  \/ LintPath \/ ApplyUIDFixes \/ ApplyUIDAliasesFixes \/ LinksUpdated \/ HealBrokenLinks \/ ApplyFingerprintFixes
  \/ \E p \in Paths : ProcessFile(p) \/ UpdateSource(p) \/ UpdateSourceFails(p)
  \/ \E j \in jobs : ApplyHealedLinkUpdates(j)

(* Properties *)

\* Where a link leads: to the document of that very path, else to one whose name
\* differs in case.
LeadsTo(fs, src, text) ==
  LET p == Target(src, text) IN
  IF p \in Paths /\ fs[p] # None THEN fs[p].doc
  ELSE IF FileExists(fs, p) THEN fs[CHOOSE q \in Docs(fs) : SamePath(p, q)].doc ELSE None

At(fs, d) == CHOOSE p \in Docs(fs) : fs[p].doc = d

\* The text at a place of a document, wherever the document is now.
TextAt(fs, d, at) == fs[At(fs, d)].body[at[1]][at[2]].text

\* The places where a document had links: line, and place in the line.
Links(p) == {at \in (1..2) \X (1..2) :
               /\ at[1] \in DOMAIN tree.files[p].body /\ at[2] \in DOMAIN tree.files[p].body[at[1]]
               /\ tree.files[p].body[at[1]][at[2]].link}

\* Nothing else in the line contains the text.
AloneInLine(line, k) == \A j \in DOMAIN line \ {k} : ~PartOf(line[k].text, line[j].text)

Finished == pc = "done" /\ ~dryRun /\ errors = {}

\* No document is lost or doubled, and none changes its uid: neither when two
\* files are to get one name, nor when a rename or a rewrite fails (fixer_file_ops.go:14).
NothingLost ==
  \A p \in Docs(tree.files) :
    LET now == {q \in Docs(files) : files[q].doc = tree.files[p].doc}
    IN Cardinality(now) = 1 /\ \A q \in now : tree.files[p].uid # None => files[q].uid = tree.files[p].uid

\* A link that led to a document leads to it after all the renames ("Update all
\* internal links to renamed files", docs/how-to/setup-linting.md:107).  Not so
\* two kinds of links: without extension, to a file renamed by more than case
\* (the links are searched after the rename and such a one no longer resolves);
\* and with the same text elsewhere in the line (the last one is replaced).
LinksFollow ==
  Finished => \A p \in Docs(tree.files) : \A at \in Links(p) :
    LET line == tree.files[p].body[at[1]]
        text == line[at[2]].text
        to == Target(p, text)
        doc == LeadsTo(tree.files, p, text)
    IN doc # None /\ AloneInLine(line, at[2])
         /\ (text.ext \/ Fold(SuggestFilename(to.name)) = Fold(to.name))
       => LeadsTo(files, p, TextAt(files, tree.files[p].doc, at)) = doc

\* What git knew of renames at the start, and what became of a path by one of them
\* or by one after the other.
GitRenames == tree.history \cup tree.staged \cup {[old |-> d.path, new |-> p] : d \in tree.deleted, p \in tree.untracked}
Became(p) == {m.new : m \in {n \in GitRenames : SamePath(n.old, p)}}
MovedTwice(p) == \E q \in Became(p) : Became(q) # {}

\* The broken links of the start that can be told from the rest of their lines.
WasBroken(p, at) ==
  LET line == tree.files[p].body[at[1]] IN LeadsTo(tree.files, p, line[at[2]].text) = None /\ AloneInLine(line, at[2])

\* A link that was broken is left alone, or leads to the document that git says
\* its target has become, also when this run has renamed that document again.  Known
\* exception: a file that git saw move twice, whose links are rewritten to the name in
\* between.
HealedIsRight ==
  Finished => \A p \in Docs(tree.files) : \A at \in Links(p) :
    LET text == tree.files[p].body[at[1]][at[2]].text
        now == TextAt(files, tree.files[p].doc, at)
        become == {tree.files[q].doc : q \in {r \in Became(Target(p, text)) \cap Paths : tree.files[r] # None}}
                    \cup {LeadsTo(tree.files, p, t) : t \in ToSet(tree.head[p])}
    IN WasBroken(p, at) /\ ~MovedTwice(Target(p, text))
       => now = text \/ LeadsTo(files, p, now) \in become

\* After a run without errors nothing that it fixes is left: also the documents it
\* has rewritten on the way have the right fingerprint.
FixedIsClean == Finished => \A p \in Docs(files) : CheckFile(files, p) = {}

\* When the links to a renamed file cannot all be updated, every document is as it
\* was before the first of them.
FailedUpdateRestores == "links" \in errors' \ errors => files' = job.before

=============================================================================
