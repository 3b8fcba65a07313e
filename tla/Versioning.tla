----------------------------- MODULE Versioning -----------------------------
(***************************************************************************)
(* Multi-version builds: before the stages run, GenerateFullSite replaces     *)
(* every configured repository by one entry per branch and tag that its       *)
(* configuration selects (versioning.ExpandRepositoriesWithVersions).  The    *)
(* references come from the remote, so a listing may fail.                    *)
(*                                                                            *)
(* A reference is [name, type]; a name is [word, sep], sep being what stands  *)
(* between its words; names are written in small letters.  A pattern is the   *)
(* set of words it matches.  An entry's tags are a Go map, which the entry    *)
(* owns or shares with the configuration.                                     *)
(***************************************************************************)
EXTENDS Integers, Sequences, FiniteSets

CONSTANTS
  None,
  Setups,      \* the configurations: versioning settings and repositories
  MaxBuilds    \* builds of one process that are looked at

VARIABLES
  setup,       \* [enabled, defaultOnly, strategy, branches, tags, max, repos]
  vtags,       \* per repository, the version its own map of tags names, None if it has no map
  vnext,       \* the repository that is expanded next, 0 when the list is complete
  expanded,    \* the entries so far
  vbuilds      \* builds begun

vars == <<setup, vtags, vnext, expanded, vbuilds>>

-----------------------------------------------------------------------------
(* Names. *)

\* generateDisplayName: a tag as it is, a branch with a capital and with spaces.
DisplayName(ref) ==
  LET name(word, sep, capital) == [word |-> word, sep |-> sep, capital |-> capital]
  IN IF ref.type = "tag" THEN name(ref.name.word, ref.name.sep, FALSE)
     ELSE IF ref.name.word \in {"main", "master"} THEN name("latest", "", TRUE)
     ELSE IF ref.name.word \in {"develop", "development"} THEN name("development", "", TRUE)
     ELSE name(ref.name.word, IF ref.name.sep \in {"-", "_"} THEN " " ELSE ref.name.sep, TRUE)

\* matchesPatterns: no pattern at all matches everything.
MatchesPatterns(name, patterns) == patterns = {} \/ \E p \in patterns : name.word \in p

-----------------------------------------------------------------------------
(* Discovery. *)

Rank(word) == IF word = "main" THEN 1 ELSE IF word = "master" THEN 2 ELSE IF word = "trunk" THEN 3 ELSE 4

\* getDefaultBranch, by name rather than from the remote's HEAD, or else the branch
\* listed first; None when there is no branch.
GetDefaultBranch(refs) ==
  LET branches == SelectSeq(refs, LAMBDA r : r.type = "branch")
      best == {i \in DOMAIN branches : \A j \in DOMAIN branches : Rank(branches[i].name.word) <= Rank(branches[j].name.word)}
  IN IF branches = <<>> THEN None ELSE branches[CHOOSE i \in best : \A j \in best : i <= j]

\* convertReferenceToVersion.  The configuration's strategies "branches_only" and
\* "tags_only" are none of the strategies of this package.
Includes(ref, cfg) ==
  /\ cfg.strategy = "branches_and_tags"
  /\ MatchesPatterns(ref.name, IF ref.type = "branch" THEN cfg.branches ELSE cfg.tags)

\* Positions from the last to the first.
NewestFirst(S) == CHOOSE at \in [1..Cardinality(S) -> S] : \A i, j \in DOMAIN at : i < j => at[i] > at[j]

\* DiscoverVersionsWithAuth.  A reference's time is that of its listing, so that the
\* newest is the one listed last.
DiscoverVersions(refs, cfg) ==
  LET at == NewestFirst({i \in DOMAIN refs : Includes(refs[i], cfg)})
  IN [k \in 1..(IF cfg.max > 0 /\ Len(at) > cfg.max THEN cfg.max ELSE Len(at)) |-> refs[at[k]]]

-----------------------------------------------------------------------------
(* Expansion. *)

\* A repository as it is configured.
AsConfigured(i) ==
  [base |-> i, version |-> None, isTag |-> FALSE, shares |-> vtags[i] # None, own |-> None, ref |-> None]

\* A version's entry: a copy of the repository with the reference, the name and the
\* tags of the version.  The copy shares the map of tags, if there is one.
Versioned(i, ref) ==
  [base |-> i, version |-> DisplayName(ref), isTag |-> ref.type = "tag", shares |-> vtags[i] # None,
   own |-> IF vtags[i] # None THEN None ELSE DisplayName(ref), ref |-> ref]

\* Mutated form of Name: without the version.
Name_Plain(e) == <<e.base, None>>

\* The name of an entry, which names its clone's directory.
Name(e) == <<e.base, e.version>>
TagsOf(e) == IF e.shares THEN vtags[e.base] ELSE e.own

Init ==
  /\ setup \in Setups
  /\ vtags = [i \in DOMAIN setup.repos |-> IF setup.repos[i].tagged THEN "own" ELSE None]
  /\ vnext = 0 /\ expanded = <<>> /\ vbuilds = 0

\* GenerateFullSite: off, or the default branch only, the list is as configured.
GenerateFullSite ==
  /\ vnext = 0 /\ vbuilds < MaxBuilds
  /\ vbuilds' = vbuilds + 1
  /\ IF setup.enabled /\ ~setup.defaultOnly /\ setup.repos # <<>>
     THEN vnext' = 1 /\ expanded' = <<>>
     ELSE vnext' = 0 /\ expanded' = [i \in DOMAIN setup.repos |-> AsConfigured(i)]
  /\ UNCHANGED <<setup, vtags>>

Advance == vnext' = IF vnext = Len(setup.repos) THEN 0 ELSE vnext + 1

\* The repository as configured, when its versions are not known.
Fallback == Append(expanded, AsConfigured(vnext))

\* The references cannot be listed, or there is no branch among them.
DiscoveryFails ==
  /\ vnext > 0
  /\ expanded' = Fallback
  /\ Advance /\ UNCHANGED <<setup, vtags, vbuilds>>

\* One entry per version; the last one's name stays in a shared map of tags.
Expand ==
  /\ vnext > 0
  /\ GetDefaultBranch(setup.repos[vnext].refs) # None
  /\ LET versions == DiscoverVersions(setup.repos[vnext].refs, setup)
     IN /\ expanded' = IF versions = <<>> THEN Fallback ELSE expanded \o [k \in DOMAIN versions |-> Versioned(vnext, versions[k])]
        /\ vtags' = IF versions = <<>> \/ vtags[vnext] = None THEN vtags
                    ELSE [vtags EXCEPT ![vnext] = DisplayName(versions[Len(versions)])]
  /\ Advance /\ UNCHANGED <<setup, vbuilds>>

Next == GenerateFullSite \/ DiscoveryFails \/ Expand

-----------------------------------------------------------------------------
(* Properties *)

Complete == vnext = 0 /\ vbuilds > 0

\* Whatever versions are found, and also when the remote does not answer, every
\* configured repository is built.
EveryRepoIsBuilt == Complete => \A i \in DOMAIN setup.repos : \E k \in DOMAIN expanded : expanded[k].base = i

\* Two entries of a build have different names, and so clones of their own.  Known
\* exceptions: main, master and latest beside each other, develop beside development,
\* and branches that differ in what separates their words: their names on display
\* are the same, and one is built over the other.
SameOnDisplay(a, b) ==
  /\ a.ref # None /\ b.ref # None
  /\ a.ref.type = "branch" /\ b.ref.type = "branch" /\ a.ref # b.ref
  /\ \/ a.ref.name.word = b.ref.name.word
     \/ {a.ref.name.word, b.ref.name.word} \subseteq {"main", "master", "latest"}
     \/ {a.ref.name.word, b.ref.name.word} \subseteq {"develop", "development"}
OwnClones ==
  \A j, k \in DOMAIN expanded :
    j # k /\ ~SameOnDisplay(expanded[j], expanded[k]) => Name(expanded[j]) # Name(expanded[k])

\* An entry's tags name its version, in a second build of the same process too.
\* Known exception: a repository configured with tags of its own, whose versions
\* share the map and all carry the tags of the last one.
TagsNameVersion ==
  \A k \in DOMAIN expanded :
    ~setup.repos[expanded[k].base].tagged => TagsOf(expanded[k]) = expanded[k].version

\* The versions that are built are those the patterns select, the branches by the
\* patterns for branches and the tags by those for tags, as long as they are no more
\* than the limit; when they are more, the limit is reached.  Known exceptions: the
\* strategies for branches or tags only, which select nothing; and what is left out
\* beyond the limit is what the remote lists first, the default branch included.
Selected(refs) ==
  {r \in {refs[i] : i \in DOMAIN refs} : MatchesPatterns(r.name, IF r.type = "tag" THEN setup.tags ELSE setup.branches)}
Built(i) == {expanded[k].ref : k \in {j \in DOMAIN expanded : expanded[j].base = i}} \ {None}
VersionsAreSelected ==
  Complete =>
    \A i \in DOMAIN setup.repos :
      Built(i) # {} =>
        /\ Built(i) \subseteq Selected(setup.repos[i].refs)
        /\ setup.max = 0 \/ Cardinality(Selected(setup.repos[i].refs)) <= setup.max => Built(i) = Selected(setup.repos[i].refs)
        /\ setup.max > 0 /\ Cardinality(Selected(setup.repos[i].refs)) > setup.max => Cardinality(Built(i)) = setup.max
=============================================================================
