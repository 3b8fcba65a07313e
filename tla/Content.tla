------------------------------- MODULE Content -------------------------------
(***************************************************************************)
(* What becomes of documents and of the files that say how to build them: the *)
(* content pipeline from the repositories to the pages Hugo is given, the     *)
(* fixer that renames documents and repairs the links to them, new documents  *)
(* from templates, the configuration, and the versions of a repository.  A    *)
(* behaviour is one of a single part, chosen at the start; the variables of   *)
(* the others stay Off.                                                       *)
(***************************************************************************)
EXTENDS Integers, Sequences, FiniteSets

CONSTANTS
  Off, None, Invalid, Rejected, MaxFaults,
  Paths, Trees,                                                                \* the fixer
  Sites,                                                                       \* the pipeline
  ConfigFiles, MaxInt,                                                         \* the configuration
  Setups, MaxBuilds,                                                           \* versions
  TemplateListings, Settings, DocSlugs, FirstDocs, Authors, DigitsEnd, MaxSequenceFiles, MaxDocs   \* templates

\* The documents that are there have numbers and paths of their own, and a sequence
\* that a template defines matches no fewer digits than the built-in one.
WideEnough(seq) == seq.start \in Int /\ (seq.limit = None \/ (seq.limit \in Nat /\ DigitsEnd <= seq.limit))
ASSUME TemplatesAssumption ==
  /\ DigitsEnd \in Nat
  /\ \A D \in FirstDocs :
       /\ IsFiniteSet(D)
       /\ \A d \in D :
            /\ d = [id |-> d.id, path |-> [num |-> d.path.num, slug |-> d.path.slug], body |-> d.path.num, saw |-> {}, crossed |-> FALSE]
            /\ d.id \in 1..Cardinality(D) /\ d.path.num \in Nat
       /\ \A d, e \in D : d.id = e.id \/ d.path = e.path => d = e
  /\ \A l \in TemplateListings :
       /\ Len(l) \in Nat /\ DOMAIN l = 1..Len(l)
       /\ \A i \in DOMAIN l : l[i].seq = None \/ WideEnough(l[i].seq)

VARIABLES part,
  tree, dryRun, files, fixing, issues, broken, todo, renamed, fpTargets, job, jobs, errors, fixFaults,
  site, building, repoPaths, docFiles, pending, queue, docs, out, faults,
  cfile, cloaded, csnap, cdaemon, cretry,
  setup, vtags, vnext, expanded, vbuilds,
  tdocs, trun, tcount

fixVars == <<tree, dryRun, files, fixing, issues, broken, todo, renamed, fpTargets, job, jobs, errors, fixFaults>>
siteVars == <<site, building, repoPaths, docFiles, pending, queue, docs, out, faults>>
configVars == <<cfile, cloaded, csnap, cdaemon, cretry>>
versionVars == <<setup, vtags, vnext, expanded, vbuilds>>
templateVars == <<tdocs, trun, tcount>>
vars == <<part, fixVars, siteVars, configVars, versionVars, templateVars>>

F == INSTANCE LintFix WITH Force <- FALSE, pc <- fixing, faults <- fixFaults
C == INSTANCE ContentPipeline WITH pc <- building
G == INSTANCE Configuration
V == INSTANCE Versioning
T == INSTANCE Templates WITH Listings <- TemplateListings, Flags <- Settings, Slugs <- DocSlugs

\* A document's name is what the conventions look at, and the one they suggest can
\* be given; a tree has every document once, and what is missing is no uid.
ASSUME FixAssumption ==
  /\ \A p \in Paths :
       /\ p = [dir |-> p.dir, name |-> [word |-> p.name.word, case |-> p.name.case, gap |-> p.name.gap,
                                        mark |-> p.name.mark, edge |-> p.name.edge]]
       /\ p.name.mark \in BOOLEAN /\ p.name.edge \in BOOLEAN
       /\ [p EXCEPT !.name = F!SuggestFilename(@)] \in Paths
  /\ \A t \in Trees :
       /\ DOMAIN t.files = Paths /\ t.files = [p \in Paths |-> t.files[p]]
       /\ \A p \in F!Docs(t.files) :
            /\ t.files[p] = [doc |-> t.files[p].doc, uid |-> t.files[p].uid, alias |-> t.files[p].alias,
                             body |-> t.files[p].body, fp |-> t.files[p].fp]
            /\ \A q \in F!Docs(t.files) : t.files[p].doc = t.files[q].doc => p = q
  /\ None # "new"

\* A link as it is written: how far up, and what from there on.
Names == [word : STRING, up : BOOLEAN]
IsLink(l) == l.ups \in Nat /\ l.dir \in Seq(Names) /\ l.name \in Names /\ l.abs \in BOOLEAN

\* The files of a repository come in some order, each once; a front matter has no
\* other fields than the pipeline looks at, and a URL names a known forge or none.
ASSUME SitesAssumption ==
  \A s \in Sites : \A r \in DOMAIN s.repos :
    LET found == s.repos[r].files
        forge == s.repos[r].forge
    IN /\ r \in Names /\ (forge = None \/ forge \in Names)
       /\ s.repos[r].url \in {"github", "gitlab", "forgejo", "selfhosted", "local"}
       /\ Len(found) \in Nat /\ DOMAIN found = 1..Len(found)
       /\ \A i \in DOMAIN found :
            LET body == found[i].body IN
            /\ found[i].base \in Names /\ found[i].dir \in Seq(Names) /\ found[i].name \in Names
            /\ body.own \subseteq C!Fields
            /\ \A k \in DOMAIN body.links : IsLink(body.links[k])
            /\ \A k \in DOMAIN body.images : IsLink(body.images[k])
            /\ \A j \in DOMAIN found :
                 /\ found[i].base = found[j].base /\ found[i].dir = found[j].dir /\ found[i].name = found[j].name
                 /\ (found[i].kind = "asset" <=> found[j].kind = "asset")
                 => i = j

\* A remote lists branches and tags, each once.
ASSUME VersionsAssumption ==
  \A s \in Setups :
    /\ s.repos \in Seq({s.repos[i] : i \in DOMAIN s.repos}) /\ s.max \in Int
    /\ \A r \in DOMAIN s.repos :
         LET refs == s.repos[r].refs IN
         /\ Len(refs) \in Nat /\ DOMAIN refs = 1..Len(refs)
         /\ \A i \in DOMAIN refs :
              /\ refs[i] = [name |-> [word |-> refs[i].name.word, sep |-> refs[i].name.sep], type |-> refs[i].type]
              /\ refs[i].type \in {"branch", "tag"} /\ refs[i] # None
              /\ \A j \in DOMAIN refs : refs[i] = refs[j] => i = j

FixOff ==
  /\ tree = Off /\ dryRun = Off /\ files = Off /\ fixing = Off /\ issues = Off /\ broken = Off /\ todo = Off
  /\ renamed = Off /\ fpTargets = Off /\ job = Off /\ jobs = Off /\ errors = Off /\ fixFaults = Off
SiteOff ==
  /\ site = Off /\ building = Off /\ repoPaths = Off /\ docFiles = Off /\ pending = Off /\ queue = Off /\ docs = Off
  /\ out = Off /\ faults = Off

ConfigOff == cfile = Off /\ cloaded = Off /\ csnap = Off /\ cdaemon = Off /\ cretry = Off
VersionOff == setup = Off /\ vtags = Off /\ vnext = Off /\ expanded = Off /\ vbuilds = Off
TemplateOff == tdocs = Off /\ trun = Off /\ tcount = Off

Init ==
  \/ part = "fix" /\ F!Init /\ SiteOff /\ ConfigOff /\ VersionOff /\ TemplateOff
  \/ part = "site" /\ C!Init /\ FixOff /\ ConfigOff /\ VersionOff /\ TemplateOff
  \/ part = "config" /\ G!InitWith(ConfigFiles) /\ FixOff /\ SiteOff /\ VersionOff /\ TemplateOff
  \/ part = "versions" /\ V!Init /\ FixOff /\ SiteOff /\ ConfigOff /\ TemplateOff
  \/ part = "template" /\ T!Init /\ FixOff /\ SiteOff /\ ConfigOff /\ VersionOff

Next ==
  \/ part = "fix" /\ F!Next /\ UNCHANGED <<part, siteVars, configVars, versionVars, templateVars>>
  \/ part = "site" /\ C!Next /\ UNCHANGED <<part, fixVars, configVars, versionVars, templateVars>>
  \/ part = "config" /\ G!Next /\ UNCHANGED <<part, fixVars, siteVars, versionVars, templateVars>>
  \/ part = "versions" /\ V!Next /\ UNCHANGED <<part, fixVars, siteVars, configVars, templateVars>>
  \/ part = "template" /\ T!Next /\ UNCHANGED <<part, fixVars, siteVars, configVars, versionVars>>

Spec == Init /\ [][Next]_vars

-----------------------------------------------------------------------------
\* No document is lost, doubled or given another uid by the fixer, and a tree it has
\* fixed without an error is clean; an update of links that fails leaves every file
\* as it was (LintFix).
FixKeepsDocuments ==
  [][part = "fix" => F!NothingLost' /\ F!FixedIsClean' /\ F!FailedUpdateRestores]_vars

\* A link to a renamed document leads to it afterwards, and a broken link is healed
\* to the document it once led to or left alone (LintFix).
LinksFollow == part = "fix" => F!LinksFollow /\ F!HealedIsRight

\* Every document that was found has its page, whatever else was found, below
\* sections that have an index (ContentPipeline).
DocumentsKept == part = "site" => C!DocumentsKept /\ C!SectionsHaveIndex

\* A link between two documents leads to the page of the second, an image to the
\* copied asset, an edit link to the file on its forge (ContentPipeline).
LinksLead == part = "site" => C!LinksLead /\ C!ImagesLead /\ C!EditLinksRight

\* A page has what its author wrote, the title from its heading, its permalink and
\* the fingerprint of the page as written; a public site has no private page
\* (ContentPipeline).
PageIsComplete ==
  part = "site" => C!OwnFieldsKept /\ C!HeadingBecomesTitle /\ C!PageIsComplete /\ C!PrivateStaysOut

\* What is loaded from a configuration file is what the author wrote, and loading it
\* once more or from another spelling gives the same; a daemon made from it has what
\* its parts assume, and pauses its retries for ever longer times (Configuration).
AcceptedIsUsable ==
  [][part = "config" => /\ G!AcceptedIsUsable' /\ G!ExampleWorks'
                        /\ G!LoadIsStable' /\ G!SpellingKeepsSnapshot' /\ G!ExplicitIsKept'
                        /\ G!PausesGrow]_vars

\* Every repository is built whatever is found of its versions, in those versions
\* that the patterns select, each in a clone of its own and with its own tags
\* (Versioning).
VersionsAreBuilt ==
  part = "versions" => V!EveryRepoIsBuilt /\ V!VersionsAreSelected /\ V!OwnClones /\ V!TagsNameVersion

\* A new document never takes the place of another one, has a number that no earlier
\* one has, and the same in its name and its text (Templates).
NumbersAreNew ==
  [][part = "template" => T!NumbersAreNew' /\ T!BodyMatchesPath' /\ T!NeverOverwrites]_vars

=============================================================================
