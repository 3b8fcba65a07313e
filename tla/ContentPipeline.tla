--------------------------- MODULE ContentPipeline ---------------------------
(***************************************************************************)
(* From cloned repositories to Hugo's content directory: discovery           *)
(* (internal/docs), the processor with its generators and transforms         *)
(* (internal/hugo/pipeline) and the writing of pages and assets              *)
(* (internal/hugo/content_copy_pipeline.go).  Repositories are walked in the *)
(* order of a Go map, pages are written one after the other, and a later     *)
(* page of the same path replaces an earlier one.  A name is a word that is  *)
(* written in lower case or not; a path is a directory (names) and a name.   *)
(***************************************************************************)
EXTENDS Integers, Sequences, FiniteSets, SequencesExt, FiniteSetsExt

CONSTANTS
  Sites,       \* the configurations with the files of their repositories
  MaxFaults,   \* bound on failing reads and writes
  None

VARIABLES
  site,
  pc,          \* discover, copy, load, process, write, done, failed, cancelled
  repoPaths,   \* repositories that are still to be walked
  docFiles,    \* what discovery has found
  pending,     \* where in docFiles those are that are still to be copied or loaded
  queue, docs, \* documents before and after the transforms
  out,         \* path -> what is written there
  faults

vars == <<site, pc, repoPaths, docFiles, pending, queue, docs, out, faults>>

(* Names *)

Lower(n) == [n EXCEPT !.up = FALSE]
LowerAll(s) == [i \in DOMAIN s |-> Lower(s[i])]
IsLower(s) == \A i \in DOMAIN s : ~s[i].up
IndexName == [word |-> "_index", up |-> FALSE]
IndexPath(dir) == [dir |-> dir, name |-> IndexName, asset |-> FALSE]

IsIgnoredFile(n) == n.word \in {"contributing", "changelog", "license"}
IsHidden(n) == n.word = "hidden"
IsIndexFileName(n) == n.word \in {"index", "readme", "_index"}

(* Discovery *)

Repos == DOMAIN site.repos
IsSingleRepo == Cardinality({r \in Repos : site.repos[r].cloned}) = 1

\* Counted over all configured repositories, cloned or not.
NamespaceForges ==
  CASE site.namespacing = "always" -> TRUE
    [] site.namespacing = "never" -> FALSE
    [] OTHER -> Cardinality({site.repos[r].forge : r \in Repos} \ {None}) > 1

\* Positions from the first to the last.
InOrder(S) == CHOOSE at \in [1..Cardinality(S) -> S] : \A i, j \in DOMAIN at : i < j => at[i] < at[j]

\* A docs path of a repository in the order of the walk: documents and assets, but
\* no hidden file and, in its root, no contributing guide, changelog or license.
WalkDocsDirectory(r) ==
  LET repo == site.repos[r]
      keep(f) == f.kind # "other" /\ ~IsHidden(f.name) /\ ~(f.dir = <<>> /\ IsIgnoredFile(f.name))
      file(f) == [repo |-> r, forge |-> IF NamespaceForges THEN repo.forge ELSE None, base |-> f.base, dir |-> f.dir,
                  name |-> f.name, asset |-> f.kind = "asset", body |-> f.body]
      at == InOrder({i \in DOMAIN repo.files : keep(repo.files[i])})
  IN [k \in DOMAIN at |-> file(repo.files[at[k]])]

\* Everything in lower case; index becomes _index, and README stays.
GetHugoPath(f) ==
  [dir |-> (IF f.forge = None THEN <<>> ELSE <<Lower(f.forge)>>) \o (IF IsSingleRepo THEN <<>> ELSE <<Lower(f.repo)>>)
             \o LowerAll(f.dir),
   name |-> IF f.name.word = "index" THEN IndexName ELSE Lower(f.name), asset |-> f.asset]

\* Mutated form of DetectPathCollisions: nothing is looked at.
DetectPathCollisions_None == FALSE

\* Two files with one path; the same relative path under two docs paths of a
\* repository counts as one file.
DetectPathCollisions ==
  \E i, j \in DOMAIN docFiles :
    /\ GetHugoPath(docFiles[i]) = GetHugoPath(docFiles[j])
    /\ <<docFiles[i].repo, docFiles[i].dir, docFiles[i].name>> # <<docFiles[j].repo, docFiles[j].dir, docFiles[j].name>>

Init ==
  /\ site \in Sites /\ pc = "discover" /\ repoPaths = {r \in Repos : site.repos[r].cloned}
  /\ docFiles = <<>> /\ pending = {} /\ queue = <<>> /\ docs = <<>> /\ faults = 0
  /\ out = [p \in {} |-> None]

\* One repository, in any order; one with a .docignore is passed over.
DiscoverDocs(r) ==
  /\ pc = "discover" /\ r \in repoPaths /\ repoPaths' = repoPaths \ {r}
  /\ docFiles' = docFiles \o (IF site.repos[r].docignore THEN <<>> ELSE WalkDocsDirectory(r))
  /\ UNCHANGED <<site, pc, pending, queue, docs, out, faults>>

\* The list of files is complete: collisions end the build.
Discovered ==
  /\ pc = "discover" /\ repoPaths = {}
  /\ IF DetectPathCollisions THEN pc' = "failed" /\ UNCHANGED pending
     ELSE pc' = "copy" /\ pending' = {i \in DOMAIN docFiles : docFiles[i].asset}
  /\ UNCHANGED <<site, repoPaths, docFiles, queue, docs, out, faults>>

(* Documents *)

\* The fields of the front matter: the author's, the tool's or none.  A front
\* matter that is not valid YAML is read as none and stays in the body.
Fields == {"title", "type", "date", "editURL", "tags", "public", "uid"}

\* Mutated form of IsPublicMarkdown: what is not private is public.
IsPublicMarkdown_Default(f) == f.body.valid /\ f.body.public # "false"
IsPublicMarkdown(f) == f.body.valid /\ f.body.public = "true"

NewDocumentFromDocFile(f) ==
  [gen |-> FALSE, src |-> f, path |-> GetHugoPath(f), name |-> f.name, isIndex |-> IsIndexFileName(f.name), repo |-> f.repo,
   forge |-> f.forge, dir |-> f.dir, links |-> f.body.links, images |-> f.body.images,
   fm |-> [k \in Fields |-> "none"], h1 |-> f.body.h1, edit |-> None, badge |-> FALSE, raw |-> None]

Generated(repo, dir, path) ==
  [gen |-> TRUE, src |-> None, path |-> IndexPath(path), name |-> IndexName, isIndex |-> TRUE, repo |-> repo,
   forge |-> IF repo = None THEN None ELSE site.repos[repo].forge, dir |-> dir, links |-> <<>>, images |-> <<>>,
   fm |-> [k \in Fields |-> IF k \in {"title", "type"} \/ (k = "public" /\ site.publicOnly) THEN "tool" ELSE "none"],
   h1 |-> TRUE, edit |-> None, badge |-> FALSE, raw |-> None]

(* Generators: they see the documents before README becomes _index. *)

GenerateMainIndex(ds) ==
  IF (site.publicOnly /\ ds = <<>>) \/ \E i \in DOMAIN ds : ds[i].path = IndexPath(<<>>) THEN <<>>
  ELSE <<Generated(None, <<>>, <<>>)>>

\* For every repository without an index in its root; its name as it is written.
GenerateRepositoryIndex(ds) ==
  LET without == {r \in {ds[i].repo : i \in DOMAIN ds} : ~\E i \in DOMAIN ds : ds[i].repo = r /\ ds[i].isIndex /\ ds[i].dir = <<>>}
  IN IF IsSingleRepo THEN {} ELSE {Generated(r, <<>>, <<r>>) : r \in without}

\* For every section, and those above, without an index; no forge in the path.
GenerateSectionIndex(ds) ==
  LET all == UNION {{<<ds[i].repo, SubSeq(ds[i].dir, 1, n)>> : n \in 1..Len(ds[i].dir)} : i \in DOMAIN ds}
      existing == {<<ds[i].repo, ds[i].dir>> : i \in {j \in DOMAIN ds : ds[j].isIndex}}
  IN {Generated(s[1], s[2], (IF IsSingleRepo THEN <<>> ELSE <<s[1]>>) \o s[2]) : s \in all \ existing}

(* Links *)

\* Mutated form of ExtractDirectory: one segment is taken away, whatever it is.
ExtractDirectory_KeepsForge(d) ==
  IF IsSingleRepo THEN d.path.dir ELSE IF d.path.dir = <<>> THEN <<>> ELSE Tail(d.path.dir)

\* The directory of a page below its repository; of a single one below the site.
ExtractDirectory(d) ==
  LET skip == IF IsSingleRepo THEN 0 ELSE IF d.forge # None THEN 2 ELSE 1
  IN SubSeq(d.path.dir, skip + 1, Len(d.path.dir))

RepoRoot(d) == (IF d.forge = None THEN <<>> ELSE <<d.forge>>) \o <<d.repo>>
BuildFullPath(d, dir, path) == LowerAll(RepoRoot(d) \o dir \o path)

\* A link is the number of "..", the directories and the name; a readme or an index
\* in a directory is that directory, a bare one stays a name.
LinkPath(l) ==
  IF l.name.word \in {"readme", "index"} /\ (l.dir # <<>> \/ l.ups > 0 \/ l.abs) THEN l.dir ELSE l.dir \o <<l.name>>

\* All the ".." are dropped and what follows is taken below the repository, with
\* no change of case.
HandleParentDirNavigation(d, path) == IF IsSingleRepo THEN path ELSE RepoRoot(d) \o path

RewriteLinkPath(d, l) ==
  LET path == LinkPath(l)
      dir == ExtractDirectory(d)
  IN IF l.abs THEN (IF IsSingleRepo THEN LowerAll(path) ELSE BuildFullPath(d, <<>>, path))
     ELSE IF l.ups > 0 THEN HandleParentDirNavigation(d, path)
     ELSE IF d.isIndex /\ dir # <<>> THEN (IF IsSingleRepo THEN dir \o path ELSE RepoRoot(d) \o dir \o path)
     ELSE IF IsSingleRepo THEN dir \o path ELSE BuildFullPath(d, dir, path)

RewriteRelativeLinks(d) == [d EXCEPT !.links = [i \in DOMAIN @ |-> RewriteLinkPath(d, @[i])]]

\* Always below the repository and the section, ".." included; the browser takes
\* those away.
RewriteImagePath(d, l) ==
  LET n == Len(d.dir) - l.ups IN
  IF l.abs THEN LowerAll(l.dir \o <<l.name>>)
  ELSE BuildFullPath(d, SubSeq(d.dir, 1, IF n < 0 THEN 0 ELSE n), l.dir \o <<l.name>>)

RewriteImageLinks(d) == [d EXCEPT !.images = [i \in DOMAIN @ |-> RewriteImagePath(d, @[i])]]

(* Transforms *)

ParseFrontMatter(d) ==
  IF d.gen \/ ~d.src.body.valid THEN d
  ELSE [d EXCEPT !.fm = [k \in Fields |-> IF k \in d.src.body.own \/ (k = "public" /\ d.src.body.public # "none") THEN "own" ELSE "none"]]

NormalizeIndexFiles(d) ==
  IF ~d.gen /\ d.name.word = "readme" THEN [d EXCEPT !.name = IndexName, !.path.name = IndexName] ELSE d

SetIfMissing(d, k) == IF d.fm[k] = "none" THEN [d EXCEPT !.fm[k] = "tool"] ELSE d

\* A title from the name, but not for an index page; type and date.
BuildBaseFrontMatter(d) ==
  LET t == IF d.fm["title"] # "none" \/ (~d.name.up /\ d.name.word \in {"index", "_index"}) THEN d ELSE [d EXCEPT !.fm["title"] = "name"]
  IN SetIfMissing(SetIfMissing(t, "type"), "date")

\* A title is still to be found when there is none, or it is the bare file name,
\* which only a name that is written as a title gives.
NoRealTitle(d) == d.fm["title"] = "none" \/ (d.fm["title"] = "name" /\ d.name.up)
ExtractH1AsTitle(d) == IF NoRealTitle(d) /\ d.h1 THEN [d EXCEPT !.fm["title"] = "heading"] ELSE d

\* The root of a repository, or of a section named as the docs path, is titled by
\* the repository.
ExtractIndexTitle(d) ==
  IF ~d.isIndex \/ ~NoRealTitle(d) THEN d
  ELSE IF d.dir = <<>> \/ (~d.gen /\ d.dir = <<d.src.base>>) THEN [d EXCEPT !.fm["title"] = "repository"]
  ELSE ExtractH1AsTitle(d)

\* With any title the heading goes.
StripHeading(d) == [d EXCEPT !.h1 = @ /\ d.fm["title"] = "none"]

AddRepositoryMetadata(d) == IF d.gen THEN d ELSE SetIfMissing(d, "tags")

\* By the field of the document, which only a namespaced one has, else by the URL;
\* an unknown host is taken for Forgejo.
DetectForgeType(d, url) ==
  IF d.forge # None /\ d.forge.word \in {"github", "gitlab", "forgejo"} THEN d.forge.word
  ELSE IF url \in {"github", "gitlab"} THEN url ELSE "forgejo"

\* The file in its repository; one that seems to have the docs path already keeps
\* what it has.
EditPath(f) ==
  (IF f.base.word = "." \/ (f.dir # <<>> /\ f.dir[1] = f.base) THEN <<>> ELSE <<f.base>>) \o f.dir \o <<f.name>>

AddEditLink(d) ==
  LET url == IF site.editURLBase # None THEN site.editURLBase ELSE site.repos[d.repo].url IN
  IF site.publicOnly \/ d.fm["editURL"] # "none" \/ d.gen THEN d
  ELSE IF site.vscode /\ IsSingleRepo THEN [d EXCEPT !.fm["editURL"] = "tool", !.edit = [form |-> "vscode", path |-> d.src.dir \o <<d.src.name>>]]
  ELSE IF url = "local" THEN d
  ELSE [d EXCEPT !.fm["editURL"] = "tool", !.edit = [form |-> DetectForgeType(d, url), path |-> EditPath(d.src)]]

\* For a document with a uid and the alias of it.
InjectPermalink(d) ==
  IF ~d.gen /\ d.fm["uid"] = "own" /\ d.src.body.alias THEN [d EXCEPT !.badge = TRUE] ELSE d

Page(d) == [src |-> d.src, fm |-> d.fm, edit |-> d.edit, links |-> d.links, images |-> d.images, badge |-> d.badge,
            h1 |-> d.h1]
SerializeDocument(d) == IF d.raw = None THEN [d EXCEPT !.raw = [page |-> Page(d), fp |-> None]] ELSE d
FingerprintContent(d) == [d EXCEPT !.raw = [page |-> d.raw.page, fp |-> d.raw.page]]

\* The transforms in their order; the escaping of shortcodes is left out.
Transform(d) ==
  FingerprintContent(SerializeDocument(InjectPermalink(AddEditLink(AddRepositoryMetadata(
    RewriteImageLinks(RewriteRelativeLinks(StripHeading(ExtractH1AsTitle(ExtractIndexTitle(BuildBaseFrontMatter(
      NormalizeIndexFiles(ParseFrontMatter(d)))))))))))))

(* Copying *)

Put(p, x) == [q \in DOMAIN out \cup {p} |-> IF q = p THEN x ELSE out[q]]

IsNext(i) == \A j \in pending : i <= j

\* Assets first.
CopyAssetFile ==
  /\ pc = "copy"
  /\ \E i \in pending : IsNext(i) /\ pending' = pending \ {i} /\ out' = Put(GetHugoPath(docFiles[i]), docFiles[i])
  /\ UNCHANGED <<site, pc, repoPaths, docFiles, queue, docs, faults>>

AssetsCopied ==
  /\ pc = "copy" /\ pending = {} /\ pc' = "load" /\ pending' = {i \in DOMAIN docFiles : ~docFiles[i].asset}
  /\ UNCHANGED <<site, repoPaths, docFiles, queue, docs, out, faults>>

\* One document is read; in a public site only a public one is kept.
LoadContent ==
  /\ pc = "load"
  /\ \E i \in pending :
       /\ IsNext(i) /\ pending' = pending \ {i}
       /\ queue' = IF site.publicOnly /\ ~IsPublicMarkdown(docFiles[i]) THEN queue
                   ELSE Append(queue, NewDocumentFromDocFile(docFiles[i]))
  /\ UNCHANGED <<site, pc, repoPaths, docFiles, docs, out, faults>>

\* The generated documents follow the loaded ones, those of repositories and of
\* sections in the orders of Go maps.
ProcessContent ==
  /\ pc = "load" /\ pending = {} /\ pc' = "process"
  /\ \E repos \in SetToSeqs(GenerateRepositoryIndex(queue)), sections \in SetToSeqs(GenerateSectionIndex(queue)) :
       queue' = queue \o GenerateMainIndex(queue) \o repos \o sections
  /\ UNCHANGED <<site, repoPaths, docFiles, pending, docs, out, faults>>

ProcessTransforms ==
  /\ pc = "process"
  /\ IF queue = <<>> THEN pc' = "write" /\ UNCHANGED <<queue, docs>>
     ELSE docs' = Append(docs, Transform(Head(queue))) /\ queue' = Tail(queue) /\ UNCHANGED pc
  /\ UNCHANGED <<site, repoPaths, docFiles, pending, out, faults>>

WriteDocument ==
  /\ pc = "write" /\ docs # <<>> /\ docs' = Tail(docs)
  /\ out' = Put(Head(docs).path, Head(docs).raw)
  /\ UNCHANGED <<site, pc, repoPaths, docFiles, pending, queue, faults>>

Copied ==
  /\ pc = "write" /\ docs = <<>> /\ pc' = "done"
  /\ UNCHANGED <<site, repoPaths, docFiles, pending, queue, docs, out, faults>>

\* A read or a write fails, or the build is cancelled between two writes.
CopyFails ==
  /\ pc \in {"copy", "load", "write"} /\ faults < MaxFaults /\ faults' = faults + 1
  /\ pc' \in {"failed"} \cup (IF pc = "load" THEN {} ELSE {"cancelled"})
  /\ UNCHANGED <<site, repoPaths, docFiles, pending, queue, docs, out>>

Next ==
  \/ \E r \in Repos : DiscoverDocs(r)
  \/ Discovered \/ CopyAssetFile \/ AssetsCopied \/ LoadContent \/ ProcessContent \/ ProcessTransforms \/ WriteDocument \/ Copied \/ CopyFails

(* Properties *)

Url(p) == LowerAll(IF p.name = IndexName /\ ~p.asset THEN p.dir ELSE p.dir \o <<p.name>>)
PathOf(f) == NormalizeIndexFiles(NewDocumentFromDocFile(f)).path
Kept(f) == ~f.asset /\ (site.publicOnly => IsPublicMarkdown(f))
Files == {f \in ToSet(docFiles) : Kept(f)}
Pages == {p \in DOMAIN out : ~p.asset}

\* The file a link of another one names, when there is one.
Targets(f, l, asset) ==
  {g \in ToSet(docFiles) : /\ g.repo = f.repo /\ g.base = f.base /\ g.asset = asset /\ l.ups <= Len(f.dir) /\ g.name = l.name
                           /\ g.dir = IF l.abs THEN l.dir ELSE SubSeq(f.dir, 1, Len(f.dir) - l.ups) \o l.dir}

\* The generated index of another directory falls on that of a file: names that differ
\* in case only, and a repository or a section named as the forge.
Mistaken(f) ==
  \E g \in Files : \E n \in 0..Len(g.dir) :
    /\ <<g.repo, SubSeq(g.dir, 1, n)>> # <<f.repo, f.dir>>
    /\ (IF IsSingleRepo THEN <<>> ELSE <<g.repo>>) \o SubSeq(g.dir, 1, n) = GetHugoPath(f).dir

\* Every document is in the site under its own path: no other one, and no generated
\* index, has replaced it.  Known exceptions: a README beside an index, the same
\* file in two docs paths, an index page that is mistaken for another one, and the
\* README of a single repository, which the generated main index replaces (the
\* generators look for an index before README becomes one).
DocumentsKept ==
  pc = "done" => \A f \in Files :
    \/ out[PathOf(f)].page.src = f
    \/ \E g \in Files \ {f} : PathOf(g) = PathOf(f) /\ IsIndexFileName(f.name) /\ IsIndexFileName(g.name)
    \/ \E g \in Files : g.repo = f.repo /\ g.dir = f.dir /\ g.name = f.name /\ g.base # f.base
    \/ IsIndexFileName(f.name) /\ Mistaken(f)
    \/ IsSingleRepo /\ f.dir = <<>> /\ f.name.word = "readme"

\* A link to another document of the repository leads to the page of that document.
\* Known exceptions: a parent link that does not go up to the root, a bare README or
\* index, upper case where the rewriting keeps it, and a single repository under a
\* forge.
LinksLead ==
  pc = "done" => \A p \in {q \in Pages : out[q].page.src # None} :
    LET page == out[p].page
        f == page.src
        exempt(l) ==
          \/ l.ups > 0 /\ l.ups # Len(f.dir)
          \/ l.name.word = "_index" \/ (LinkPath(l) = <<l.name>> /\ IsIndexFileName(l.name))
          \/ /\ ~l.abs /\ (IsSingleRepo \/ l.ups > 0 \/ IsIndexFileName(f.name))
             /\ ~IsLower(l.dir \o <<l.name, f.repo>> \o (IF f.forge = None THEN <<>> ELSE <<f.forge>>))
          \/ IsSingleRepo /\ f.forge # None /\ (l.abs \/ l.ups > 0)
    IN \A i \in DOMAIN f.body.links : \A g \in Targets(f, f.body.links[i], FALSE) :
         exempt(f.body.links[i]) \/ page.links[i] = Url(PathOf(g))

\* An image leads to the asset that was copied for it.  Known exceptions: relative
\* images of a single repository, which are looked for below the repository's name,
\* absolute ones of several, and an image named index, which is copied as _index.
ImagesLead ==
  pc = "done" => \A p \in {q \in Pages : out[q].page.src # None} :
    LET page == out[p].page
        f == page.src
    IN \A i \in DOMAIN f.body.images : \A g \in Targets(f, f.body.images[i], TRUE) :
         IsSingleRepo = f.body.images[i].abs /\ (IsSingleRepo => f.forge = None) /\ g.name.word # "index"
         => page.images[i] = Url(GetHugoPath(g))

\* Every directory above a page has an index page.  Known exceptions: names in upper
\* case and pages under a forge, whose indexes are generated elsewhere.
SectionsHaveIndex ==
  pc = "done" => \A p \in {q \in Pages : out[q].page.src # None} :
    LET f == out[p].page.src IN
    f.forge = None /\ IsLower(<<f.repo>> \o f.dir) => \A n \in 0..Len(p.dir) : IndexPath(SubSeq(p.dir, 1, n)) \in Pages

\* A public site shows what its authors have made public, and no link to where the
\* others are.
PrivateStaysOut ==
  site.publicOnly => \A p \in Pages :
    out[p].page.edit = None /\ (out[p].page.src # None => out[p].page.src.body.valid /\ out[p].page.src.body.public = "true")

\* What an author has written in the front matter is published as it is.
OwnFieldsKept ==
  \A p \in {q \in Pages : out[q].page.src # None} :
    LET b == out[p].page.src.body IN b.valid => \A k \in b.own : out[p].page.fm[k] = "own"

\* An index page of a section without a title is titled by its heading, before the
\* heading is removed.
HeadingBecomesTitle ==
  \A p \in {q \in Pages : out[q].page.src # None} :
    LET f == out[p].page.src IN
    p.name = IndexName /\ f.dir \notin {<<>>, <<f.base>>} /\ f.body.h1 /\ ~(f.body.valid /\ "title" \in f.body.own)
    => out[p].page.fm["title"] = "heading"

\* An edit link opens the file in the form of its forge.  Known exceptions: a file
\* in a directory named as the docs path, a host that the URL does not name, and a
\* forge that is named as one of another kind.
EditLinksRight ==
  \A p \in {q \in Pages : out[q].page.edit # None} :
    LET f == out[p].page.src
        edit == out[p].page.edit
        url == site.repos[f.repo].url
        rest == f.dir \o <<f.name>>
    IN /\ edit.form = "vscode" => edit.path = rest
       /\ edit.form # "vscode" /\ ~(f.dir # <<>> /\ f.dir[1] = f.base) =>
            edit.path = IF f.base.word = "." THEN rest ELSE <<f.base>> \o rest
       /\ edit.form # "vscode" /\ site.editURLBase = None /\ url # "selfhosted" =>
            edit.form = url \/ (f.forge # None /\ edit.form = f.forge.word)

\* A page is written with its permalink, and its fingerprint is that of the page as
\* it is written.
PageIsComplete ==
  \A p \in Pages :
    LET page == out[p].page IN
    /\ out[p].fp = page
    /\ page.badge = (page.src # None /\ page.src.body.valid /\ "uid" \in page.src.body.own /\ page.src.body.alias)

=============================================================================
