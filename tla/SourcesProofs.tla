---------------------------- MODULE SourcesProofs ----------------------------
(***************************************************************************)
(* Proofs about the sources of documentation, for every value of the        *)
(* constants: discovery over any forges, repositories and page size, with    *)
(* runs that overlap and faults, restarts and changes of the listings while  *)
(* they are read; a working copy under any pushes, faults and kills; and any *)
(* webhook deliveries.                                                       *)
(***************************************************************************)
EXTENDS Sources, FiniteSetTheorems, TLAPS

Scans == [at : {"orgs", "page", "check", "error"}, page : Nat \ {0}, got : SUBSET Repos, valid : SUBSET Repos]
RunStates == [at : {"idle", "scan", "notify"}, prev : SUBSET Repos, scan : [Forges -> Scans], result : SUBSET Repos]

DiscoveryTypes ==
  /\ setup \in Setups /\ listing \in [Forges -> Seq(Repos)] /\ docs \in [Repos -> D!Status]
  /\ run \in [Runs -> RunStates]
  /\ cache \in (SUBSET Repos) \cup {Unknown} /\ tracked \in SUBSET Repos /\ removals \in Seq(Repos)
  /\ removed \in SUBSET Repos /\ excused \in SUBSET Repos /\ raced \in BOOLEAN /\ leftover \in SUBSET Repos

(* A configured forge lists what it hosts, each repository once.            *)
ListingsAreSets ==
  \A f \in Forges : /\ \A j, k \in DOMAIN listing[f] : listing[f][j] = listing[f][k] => j = k
                    /\ \A k \in DOMAIN listing[f] : ForgeOf[listing[f][k]] = f
                    /\ f \notin setup.forges => listing[f] = <<>>

(* r is at a place of its forge's listing behind the first n.               *)
Behind(r, n) == \E k \in DOMAIN listing[ForgeOf[r]] : listing[ForgeOf[r]][k] = r /\ n < k

(* Where a run can still meet a repository that it must not miss.           *)
StillMet(s, r) ==
  /\ s.at = "page" => r \in s.got \/ Behind(r, (s.page - 1) * PageSize)
  /\ s.at = "check" => r \in s.got \cup s.valid
  /\ s.at # "error"

Cached == IF cache = Unknown THEN {} ELSE cache

(* A repository that nobody had a reason to miss has documentation, ...     *)
DocsAreKept == \A r \in Repos \ excused : docs[r] = "docs"

(* ... is listed as long as some run knows it, ...                          *)
KnownIsListed ==
  /\ \A r \in Cached \ excused : Behind(r, 0)
  /\ \A i \in Runs :
       /\ \A r \in run[i].prev \ excused : Behind(r, 0)
       /\ \A f \in Forges : \A r \in run[i].scan[f].got \cup run[i].scan[f].valid :
            ForgeOf[r] = f /\ (r \notin excused => Behind(r, 0))

(* ... and is found by every run that remembers it.                         *)
RememberedIsMet ==
  \A i \in Runs : /\ run[i].at = "scan" => \A r \in run[i].prev \ excused : StillMet(run[i].scan[ForgeOf[r]], r)
                  /\ run[i].at = "notify" => run[i].prev \subseteq excused

(* Runs that do not overlap: who is at work, and what the state lacks or    *)
(* has too much meanwhile.                                                  *)
Unnotified == UNION {run[i].prev : i \in {j \in Runs : run[j].at = "notify"}}
InSequence ==
  ~raced =>
    /\ \A i, j \in Runs : run[i].at # "idle" /\ run[j].at # "idle" => i = j
    /\ \A i \in Runs : /\ run[i].at = "scan" => removals = <<>> /\ run[i].prev = Cached
                       /\ run[i].at = "notify" => cache # Unknown /\ run[i].result = cache /\ run[i].prev \cap cache = {}
    /\ cache = Unknown => removals = <<>>
    /\ D!ToSet(removals) \cap Cached = {}
    /\ tracked \subseteq Cached \cup leftover \cup D!ToSet(removals) \cup Unnotified
    /\ (\A i \in Runs : run[i].at # "notify") => Cached \subseteq tracked

DiscoveryInv ==
  /\ DiscoveryTypes /\ ListingsAreSets /\ DocsAreKept /\ KnownIsListed /\ RememberedIsMet
  /\ removed \subseteq excused /\ InSequence

-----------------------------------------------------------------------------

(* The repositories of the first n pages, and of the first n - 1.           *)
LEMMA Multiples ==
  ASSUME NEW n \in Nat \ {0}
  PROVE  /\ (n - 1) * PageSize \in Nat /\ n * PageSize \in Nat /\ n * PageSize = (n - 1) * PageSize + PageSize
         /\ n = 1 => (n - 1) * PageSize = 0
BY SourcesAssumption

(* A step of one run's scan of one forge changes nothing else of the runs.  *)
LEMMA ScannedFacts ==
  ASSUME DiscoveryTypes, NEW i \in Runs, NEW f \in Forges, NEW s \in Scans, D!Scanned(i, f, s)
  PROVE  /\ run' \in [Runs -> RunStates] /\ \A j \in Runs \ {i} : run'[j] = run[j]
         /\ run'[i].at = run[i].at /\ run'[i].prev = run[i].prev /\ run'[i].result = run[i].result
         /\ run'[i].scan[f] = s /\ \A g \in Forges \ {f} : run'[i].scan[g] = run[i].scan[g]
<1>1. run[i] \in RunStates /\ run \in [Runs -> RunStates]
  BY DEF DiscoveryTypes
<1>2. run' = [run EXCEPT ![i] = [run[i] EXCEPT !.scan = [run[i].scan EXCEPT ![f] = s]]]
  BY <1>1 DEF D!Scanned, RunStates
<1> DEFINE new == [run[i] EXCEPT !.scan = [run[i].scan EXCEPT ![f] = s]]
<1>3. new \in RunStates /\ new.at = run[i].at /\ new.prev = run[i].prev /\ new.result = run[i].result
      /\ new.scan = [run[i].scan EXCEPT ![f] = s]
  BY <1>1 DEF RunStates
<1>4. run[i].scan \in [Forges -> Scans]
  BY <1>1 DEF RunStates
<1> HIDE DEF new
<1>5. run' \in [Runs -> RunStates] /\ run'[i] = new /\ \A j \in Runs \ {i} : run'[j] = run[j]
  BY <1>1, <1>2, <1>3 DEF new
<1> QED BY <1>3, <1>4, <1>5

(* What one run does at one forge keeps the invariant, when what it has is of*)
(* this forge and listed, and what it must not miss it can still meet.      *)
LEMMA ScanStep ==
  ASSUME DiscoveryInv, NEW i \in Runs, NEW f \in Forges, run[i].at = "scan", NEW s \in Scans, D!Scanned(i, f, s),
         UNCHANGED <<setup, listing, docs, cache, tracked, removals, removed, raced, leftover>>,
         excused \subseteq excused', excused' \subseteq Repos,
         \A r \in s.got \cup s.valid : ForgeOf[r] = f /\ (r \notin excused' => Behind(r, 0)),
         \A r \in run[i].prev \ excused' : ForgeOf[r] = f => StillMet(s, r)
  PROVE  DiscoveryInv'
<1> USE DEF DiscoveryInv
<1>1. /\ run' \in [Runs -> RunStates] /\ \A j \in Runs \ {i} : run'[j] = run[j]
      /\ run'[i].at = run[i].at /\ run'[i].prev = run[i].prev /\ run'[i].result = run[i].result
      /\ run'[i].scan[f] = s /\ \A g \in Forges \ {f} : run'[i].scan[g] = run[i].scan[g]
  BY ScannedFacts
<1>2. \A j \in Runs : run'[j].at = run[j].at /\ run'[j].prev = run[j].prev /\ run'[j].result = run[j].result
  BY <1>1
<1>3. DiscoveryTypes'
  BY <1>1 DEF DiscoveryTypes
<1>4. ListingsAreSets' /\ DocsAreKept' /\ removed' \subseteq excused'
  BY DEF ListingsAreSets, DocsAreKept
<1>5. \A r, n : Behind(r, n)' <=> Behind(r, n)
  BY DEF Behind
<1>6. Cached' = Cached
  BY DEF Cached
<1>7. KnownIsListed'
  <2>1. \A r \in Cached' \ excused' : Behind(r, 0)'
    BY <1>5, <1>6 DEF KnownIsListed
  <2>2. ASSUME NEW j \in Runs, NEW r \in run'[j].prev \ excused' PROVE Behind(r, 0)'
    BY <1>2, <1>5, <2>2 DEF KnownIsListed
  <2>3. ASSUME NEW j \in Runs, NEW g \in Forges, NEW r \in run'[j].scan[g].got \cup run'[j].scan[g].valid
        PROVE  ForgeOf[r] = g /\ (r \notin excused' => Behind(r, 0)')
    <3>1. CASE j = i /\ g = f
      BY <1>1, <1>5, <2>3, <3>1
    <3>2. CASE ~(j = i /\ g = f)
      <4>1. run'[j].scan[g] = run[j].scan[g]
        BY <1>1, <3>2
      <4> QED BY <1>5, <2>3, <4>1 DEF KnownIsListed
    <3> QED BY <3>1, <3>2
  <2> QED BY <2>1, <2>2, <2>3 DEF KnownIsListed
<1>8. RememberedIsMet'
  <2>1. ASSUME NEW j \in Runs, run'[j].at = "notify" PROVE run'[j].prev \subseteq excused'
    BY <1>2, <2>1 DEF RememberedIsMet
  <2>2. ASSUME NEW j \in Runs, run'[j].at = "scan", NEW r \in run'[j].prev \ excused'
        PROVE  StillMet(run[j].scan[ForgeOf[r]], r)'
    <3>1. r \in run[j].prev \ excused /\ run[j].at = "scan"
      BY <1>2, <2>2
    <3>2. CASE j = i /\ ForgeOf[r] = f
      <4>1. StillMet(s, r)
        BY <1>1, <2>2, <3>2
      <4>2. run'[j].scan[ForgeOf[r]] = s
        BY <1>1, <3>2
      <4> QED BY <1>5, <4>1, <4>2 DEF StillMet
    <3>3. CASE ~(j = i /\ ForgeOf[r] = f)
      <4>1. r \in Repos
        BY <2>2, <3>1 DEF DiscoveryTypes, RunStates
      <4>2. ForgeOf[r] \in Forges
        BY <4>1, SourcesAssumption
      <4>3. run'[j].scan[ForgeOf[r]] = run[j].scan[ForgeOf[r]]
        BY <1>1, <3>3, <4>2
      <4>4. StillMet(run[j].scan[ForgeOf[r]], r)
        BY <3>1 DEF RememberedIsMet
      <4> QED BY <1>5, <4>3, <4>4 DEF StillMet
    <3> QED BY <3>2, <3>3
  <2> QED BY <2>1, <2>2 DEF RememberedIsMet
<1>9. InSequence'
  <2>1. Unnotified' = Unnotified
    BY <1>2 DEF Unnotified
  <2> QED BY <1>2, <1>6, <2>1 DEF InSequence
<1> QED BY <1>3, <1>4, <1>7, <1>8, <1>9

(* The parts of a run.                                                      *)
LEMMA RunFacts ==
  ASSUME DiscoveryTypes, NEW i \in Runs
  PROVE  /\ run[i] \in RunStates /\ run[i].prev \subseteq Repos /\ run[i].result \subseteq Repos
         /\ run[i].at \in {"idle", "scan", "notify"}
         /\ \A f \in Forges : /\ run[i].scan[f] \in Scans /\ run[i].scan[f].page \in Nat \ {0}
                              /\ run[i].scan[f].got \subseteq Repos /\ run[i].scan[f].valid \subseteq Repos
                              /\ run[i].scan[f].at \in {"orgs", "page", "check", "error"}
<1>1. run[i] \in RunStates
  BY DEF DiscoveryTypes
<1>2. \A f \in Forges : run[i].scan[f] \in Scans
  BY <1>1 DEF RunStates
<1> QED BY <1>1, <1>2 DEF RunStates, Scans

(* Page n of a listing holds repositories of its forge; one behind the first*)
(* n - 1 pages is on page n, or behind it, and then the page is full: neither*)
(* way to detect the last page ends the listing before it.                  *)
LEMMA PageFacts ==
  ASSUME DiscoveryInv, NEW f \in Forges, NEW n \in Nat \ {0}
  PROVE  /\ \A r \in D!Page(f, n) : r \in Repos /\ ForgeOf[r] = f /\ Behind(r, 0)
         /\ \A r \in Repos : ForgeOf[r] = f /\ Behind(r, (n - 1) * PageSize) =>
              \/ r \in D!Page(f, n)
              \/ Behind(r, n * PageSize) /\ Cardinality(D!Page(f, n)) = PageSize
<1> USE DEF DiscoveryInv
<1> DEFINE l == listing[f]
           a == (n - 1) * PageSize
           last == IF n * PageSize < Len(l) THEN n * PageSize ELSE Len(l)
<1>1. l \in Seq(Repos) /\ Len(l) \in Nat /\ DOMAIN l = 1..Len(l)
  BY DEF DiscoveryTypes
<1>2. a \in Nat /\ n * PageSize \in Nat /\ n * PageSize = a + PageSize /\ PageSize \in Nat \ {0}
  BY Multiples, SourcesAssumption
<1>3. D!Page(f, n) = {l[k] : k \in (a + 1)..last}
  BY DEF D!Page
<1> HIDE DEF a
<1>4. (a + 1)..last \subseteq DOMAIN l
  BY <1>1, <1>2
<1>5. ASSUME NEW r \in D!Page(f, n) PROVE r \in Repos /\ ForgeOf[r] = f /\ Behind(r, 0)
  <2>1. PICK k \in DOMAIN l : r = l[k]
    BY <1>3, <1>4
  <2>2. l[k] \in Repos /\ 0 < k /\ ForgeOf[l[k]] = f
    BY <1>1, <2>1 DEF ListingsAreSets
  <2> QED BY <2>1, <2>2 DEF Behind
<1>6. ASSUME NEW r \in Repos, ForgeOf[r] = f, Behind(r, a), r \notin D!Page(f, n)
      PROVE  Behind(r, n * PageSize) /\ Cardinality(D!Page(f, n)) = PageSize
  <2>1. PICK k \in DOMAIN l : l[k] = r /\ a < k
    BY <1>6 DEF Behind
  <2>2. k \in 1..Len(l) /\ k \notin (a + 1)..last
    BY <1>1, <1>3, <1>6, <2>1
  <2>3. n * PageSize < k /\ last = a + PageSize
    BY <1>1, <1>2, <2>1, <2>2
  <2>4. Behind(r, n * PageSize)
    BY <1>6, <2>1, <2>3 DEF Behind
  <2> DEFINE S == (a + 1)..(a + PageSize)
             T == D!Page(f, n)
             g == [k1 \in S |-> l[k1]]
  <2>5. T = {l[k1] : k1 \in S}
    BY <1>3, <2>3
  <2>6. g \in Bijection(S, T)
    <3>1. g \in [S -> T] /\ \A t \in T : \E x \in S : g[x] = t
      BY <2>5
    <3>2. \A x, y \in S : g[x] = g[y] => x = y
      BY <1>4, <2>3 DEF ListingsAreSets
    <3> HIDE DEF S, T, g
    <3>3. DOMAIN g = S
      BY <3>1
    <3>4. IsInjective(g)
      BY <3>2, <3>3 DEF IsInjective
    <3> QED BY <3>1, <3>4 DEF Bijection, Injection, Surjection
  <2>7. IsFiniteSet(S) /\ Cardinality(S) = PageSize
    <3>1. a + 1 \in Int /\ a + PageSize \in Int /\ a + 1 <= a + PageSize
      BY <1>2
    <3>2. IsFiniteSet(S) /\ Cardinality(S) = (a + PageSize) - (a + 1) + 1
      BY <3>1, <1>2, FS_Interval
    <3> QED BY <1>2, <3>2
  <2>8. Cardinality(T) = Cardinality(S)
    <3> HIDE DEF S, T, g
    <3>1. ExistsBijection(S, T)
      BY <2>6 DEF ExistsBijection
    <3> QED BY <2>7, <3>1, FS_Bijection
  <2> QED BY <2>4, <2>7, <2>8
<1> QED BY <1>5, <1>6 DEF a

(* The instance's Cardinality is the one the library's facts are about.     *)
LEMMA SameCount == ASSUME NEW S PROVE D!Cardinality(S) = Cardinality(S)
BY Zenon DEF D!Cardinality, Cardinality

(* Listing the organizations and the pages, failing or not: a repository that*)
(* is remembered and not excused stays ahead, or is got.                    *)
LEMMA AskingSteps ==
  ASSUME DiscoveryInv, NEW i \in Runs, NEW f \in Forges,
         \/ D!ListOrganizations(i, f) \/ D!ListOrganizationsFails(i, f)
         \/ D!ListPage(i, f) \/ D!ListPageFails(i, f)
  PROVE  DiscoveryInv'
<1> USE DEF DiscoveryInv
<1>1. D!NotAsked = [at |-> "orgs", page |-> 1, got |-> {}, valid |-> {}]
  BY DEF D!NotAsked
<1>2. ASSUME D!ListOrganizations(i, f) PROVE DiscoveryInv'
  <2> DEFINE s == [D!NotAsked EXCEPT !.at = "page"]
  <2>1. /\ run[i].at = "scan" /\ D!Scanned(i, f, s) /\ excused' = excused
        /\ UNCHANGED <<setup, listing, docs, cache, tracked, removals, removed, raced, leftover>>
    BY <1>2 DEF D!ListOrganizations, D!Asking
  <2>2. s \in Scans /\ s.got = {} /\ s.valid = {} /\ s.at = "page" /\ s.page = 1
    BY <1>1 DEF Scans
  <2> HIDE DEF s
  <2>3. ASSUME NEW r \in run[i].prev \ excused' PROVE StillMet(s, r)
    <3>1. Behind(r, 0)
      BY <2>1, <2>3 DEF KnownIsListed
    <3>2. s.page - 1 = 0 /\ 0 * PageSize = 0
      BY <2>2, SourcesAssumption
    <3> QED BY <2>2, <3>1, <3>2 DEF StillMet
  <2>4. excused \subseteq excused' /\ excused' \subseteq Repos
    BY <2>1 DEF DiscoveryTypes
  <2> QED BY <2>1, <2>2, <2>3, <2>4, ScanStep
<1>3. ASSUME NEW at1 \in {"error", "check"}, D!Scanned(i, f, [D!NotAsked EXCEPT !.at = at1]), D!Fault(f), run[i].at = "scan",
             UNCHANGED <<setup, listing, docs, cache, tracked, removals, removed, raced, leftover>>
      PROVE  DiscoveryInv'
  <2> DEFINE s == [D!NotAsked EXCEPT !.at = at1]
  <2>1. excused' = excused \cup D!At(f) /\ D!At(f) = {r \in Repos : ForgeOf[r] = f}
    BY <1>3 DEF D!Fault, D!At
  <2>2. s \in Scans /\ s.got = {} /\ s.valid = {}
    BY <1>1, <1>3 DEF Scans
  <2>3. D!Scanned(i, f, s)
    BY <1>3
  <2> HIDE DEF s
  <2>4. excused \subseteq excused' /\ excused' \subseteq Repos
    BY <2>1 DEF DiscoveryTypes
  <2>5. \A r \in run[i].prev \ excused' : ForgeOf[r] # f
    BY <2>1, RunFacts
  <2> QED BY <1>3, <2>2, <2>3, <2>4, <2>5, ScanStep
<1>4. ASSUME D!ListOrganizationsFails(i, f) PROVE DiscoveryInv'
  <2>1. /\ run[i].at = "scan" /\ D!Fault(f) /\ D!Scanned(i, f, [D!NotAsked EXCEPT !.at = "error"])
        /\ UNCHANGED <<setup, listing, docs, cache, tracked, removals, removed, raced, leftover>>
    BY <1>4 DEF D!ListOrganizationsFails, D!Asking
  <2> QED BY <1>3, <2>1
<1>5. ASSUME D!ListPageFails(i, f) PROVE DiscoveryInv'
  <2>1. /\ run[i].at = "scan" /\ D!Fault(f) /\ D!Scanned(i, f, [D!NotAsked EXCEPT !.at = D!ListFails(f)])
        /\ UNCHANGED <<setup, listing, docs, cache, tracked, removals, removed, raced, leftover>>
    BY <1>5 DEF D!ListPageFails, D!Asking
  <2>2. D!ListFails(f) \in {"error", "check"}
    BY DEF D!ListFails, D!GitHubListFails, D!GitLabListFails, D!ForgejoListFails
  <2> QED BY <1>3, <2>1, <2>2
<1>6. ASSUME D!ListPage(i, f) PROVE DiscoveryInv'
  <2> DEFINE t == run[i].scan[f]
             page == D!Page(f, t.page)
             next == IF D!LastPage(f, page) THEN "check" ELSE "page"
             new == {r \in page : docs[r] # "archived"}
             s == [t EXCEPT !.at = next, !.page = @ + 1, !.got = @ \cup new]
  <2>1. /\ run[i].at = "scan" /\ t.at = "page" /\ D!Scanned(i, f, s) /\ excused' = excused
        /\ UNCHANGED <<setup, listing, docs, cache, tracked, removals, removed, raced, leftover>>
    BY <1>6 DEF D!ListPage, D!Asking
  <2>2. t \in Scans /\ t.page \in Nat \ {0} /\ t.got \subseteq Repos /\ t.valid \subseteq Repos
    BY RunFacts
  <2>3. /\ \A r \in page : r \in Repos /\ ForgeOf[r] = f /\ Behind(r, 0)
        /\ \A r \in Repos : ForgeOf[r] = f /\ Behind(r, (t.page - 1) * PageSize) =>
              \/ r \in page
              \/ Behind(r, t.page * PageSize) /\ Cardinality(page) = PageSize
    BY <2>2, PageFacts
  <2>4. Cardinality(page) = PageSize => ~D!LastPage(f, page)
    <3>1. ASSUME Cardinality(page) = PageSize PROVE page # {} /\ D!Cardinality(page) = PageSize
      <4>1. page # {}
        BY <3>1, FS_EmptySet, SourcesAssumption
      <4> QED BY <3>1, <4>1, SameCount
    <3> HIDE DEF page
    <3> QED BY <3>1, SourcesAssumption DEF D!LastPage, D!ProjectsEnd, D!HasMore
  <2> HIDE DEF t, page
  <2>5. next \in {"check", "page"} /\ new \subseteq Repos /\ t.page + 1 \in Nat \ {0}
    BY <2>2, <2>3
  <2> HIDE DEF next, new
  <2>6. s \in Scans /\ s.page = t.page + 1 /\ s.got = t.got \cup new /\ s.valid = t.valid /\ s.at = next
    BY <2>2, <2>5 DEF Scans
  <2> HIDE DEF s
  <2>7. ASSUME NEW r \in s.got \cup s.valid PROVE ForgeOf[r] = f /\ (r \notin excused' => Behind(r, 0))
    <3>1. CASE r \in page
      BY <2>3, <3>1
    <3>2. CASE r \notin page
      <4>1. r \in t.got \cup t.valid
        BY <2>7, <2>6, <3>2 DEF new
      <4> QED BY <2>1, <4>1 DEF KnownIsListed, t
    <3> QED BY <3>1, <3>2
  <2>8. ASSUME NEW r \in run[i].prev \ excused', ForgeOf[r] = f PROVE StillMet(s, r)
    <3>1. r \in Repos /\ r \notin excused
      BY <2>1, <2>8, RunFacts
    <3>2. docs[r] = "docs"
      BY <3>1 DEF DocsAreKept
    <3>3. r \in t.got \/ Behind(r, (t.page - 1) * PageSize)
      BY <2>1, <2>8, <3>1 DEF RememberedIsMet, StillMet, t
    <3>4. CASE r \in t.got \/ r \in page
      <4>1. r \in s.got
        BY <2>6, <3>2, <3>4 DEF new
      <4> QED BY <2>5, <2>6, <4>1 DEF StillMet
    <3>5. CASE ~(r \in t.got \/ r \in page)
      <4>1. Behind(r, t.page * PageSize) /\ Cardinality(page) = PageSize
        BY <2>3, <2>8, <3>1, <3>3, <3>5
      <4>2. s.at = "page" /\ s.page - 1 = t.page
        BY <2>2, <2>4, <2>6, <4>1 DEF next
      <4> QED BY <4>1, <4>2 DEF StillMet
    <3> QED BY <3>4, <3>5
  <2>9. excused \subseteq excused' /\ excused' \subseteq Repos
    BY <2>1 DEF DiscoveryTypes
  <2> QED BY <2>1, <2>7, <2>8, <2>9, <2>6, ScanStep
<1> QED BY <1>2, <1>4, <1>5, <1>6

(* Checking one repository, failing or not: one with documentation becomes  *)
(* valid for every kind of forge.                                           *)
LEMMA CheckingSteps ==
  ASSUME DiscoveryInv, NEW i \in Runs, NEW f \in Forges, NEW c \in Repos,
         D!CheckRepository(i, f, c) \/ D!CheckRepositoryFails(i, f, c)
  PROVE  DiscoveryInv'
<1> USE DEF DiscoveryInv
<1> DEFINE t == run[i].scan[f]
<1>1. PICK v \in {t.valid, t.valid \cup {c}} :
        /\ D!Scanned(i, f, [t EXCEPT !.got = @ \ {c}, !.valid = v])
        /\ c \notin excused' => v = t.valid \cup {c}
        /\ excused' \in {excused, excused \cup {c}}
  <2>1. CASE D!CheckRepository(i, f, c)
    <3>1. excused' = excused /\ D!Scanned(i, f, [t EXCEPT !.got = @ \ {c},
                                   !.valid = IF D!Include(D!Check(c)) THEN t.valid \cup {c} ELSE t.valid])
      BY <2>1 DEF D!CheckRepository
    <3>2. c \notin excused => D!Include(D!Check(c))
      <4>1. ASSUME c \notin excused PROVE docs[c] = "docs"
        BY <4>1 DEF DocsAreKept
      <4>2. ASSUME docs[c] = "docs" PROVE D!Check(c) = [docs |-> TRUE, ignore |-> FALSE]
        BY <4>2 DEF D!Check, D!GitHubCheck, D!GitLabCheck, D!ForgejoCheck, D!InDocs
      <4>3. D!Include([docs |-> TRUE, ignore |-> FALSE])
        BY DEF D!Include
      <4> QED BY <4>1, <4>2, <4>3
    <3> DEFINE v == IF D!Include(D!Check(c)) THEN t.valid \cup {c} ELSE t.valid
    <3>3. v \in {t.valid, t.valid \cup {c}} /\ (c \notin excused => v = t.valid \cup {c})
      BY <3>2
    <3>4. D!Scanned(i, f, [t EXCEPT !.got = @ \ {c}, !.valid = v])
      BY <3>1
    <3> HIDE DEF v
    <3> QED BY <3>1, <3>3, <3>4
  <2>2. CASE D!CheckRepositoryFails(i, f, c)
    <3> DEFINE v == IF D!Include([docs |-> FALSE, ignore |-> FALSE]) THEN t.valid \cup {c} ELSE t.valid
    <3>1. excused' = excused \cup {c} /\ D!Scanned(i, f, [t EXCEPT !.got = @ \ {c}, !.valid = v])
      BY <2>2 DEF D!CheckRepositoryFails
    <3>2. v \in {t.valid, t.valid \cup {c}}
      OBVIOUS
    <3> HIDE DEF v
    <3> QED BY <3>1, <3>2
  <2> QED BY <2>1, <2>2
<1>2. /\ run[i].at = "scan" /\ t.at = "check" /\ c \in t.got
      /\ UNCHANGED <<setup, listing, docs, cache, tracked, removals, removed, raced, leftover>>
  BY DEF D!CheckRepository, D!CheckRepositoryFails, D!Asking
<1>3. t \in Scans /\ t.got \subseteq Repos /\ t.valid \subseteq Repos
  BY RunFacts
<1> DEFINE s == [t EXCEPT !.got = @ \ {c}, !.valid = v]
<1>4. D!Scanned(i, f, s)
  BY <1>1
<1>5. \A r \in t.got \cup t.valid : ForgeOf[r] = f /\ (r \notin excused => Behind(r, 0))
  BY DEF KnownIsListed
<1>6. \A r \in run[i].prev \ excused : ForgeOf[r] = f => r \in t.got \cup t.valid
  BY <1>2 DEF RememberedIsMet, StillMet
<1> HIDE DEF t
<1>7. s \in Scans /\ s.got = t.got \ {c} /\ s.valid = v /\ s.at = "check"
  BY <1>1, <1>2, <1>3 DEF Scans
<1> HIDE DEF s
<1>8. excused \subseteq excused' /\ excused' \subseteq Repos
  BY <1>1 DEF DiscoveryTypes
<1>9. \A r \in s.got \cup s.valid : ForgeOf[r] = f /\ (r \notin excused' => Behind(r, 0))
  BY <1>1, <1>2, <1>5, <1>7, <1>8
<1>10. ASSUME NEW r \in run[i].prev \ excused', ForgeOf[r] = f PROVE StillMet(s, r)
  <2>1. r \in t.got \cup t.valid
    BY <1>6, <1>8, <1>10
  <2>2. r \in s.got \cup s.valid
    BY <1>1, <1>7, <1>10, <2>1
  <2> QED BY <1>7, <2>2 DEF StillMet
<1> QED BY <1>2, <1>4, <1>7, <1>8, <1>9, <1>10, ScanStep

(* Places in a listing that does not change.                                *)
LEMMA SameBehind == ASSUME listing' = listing PROVE \A r, n : Behind(r, n)' <=> Behind(r, n)
BY DEF Behind

(* A step that replaces the state of one run keeps the invariant, given what*)
(* the new state must satisfy.                                              *)
LEMMA RunReplaced ==
  ASSUME DiscoveryInv, NEW i \in Runs, NEW n \in RunStates, run' = [run EXCEPT ![i] = n],
         UNCHANGED <<setup, listing, docs, excused>>,
         cache' \in (SUBSET Repos) \cup {Unknown}, tracked' \in SUBSET Repos, removals' \in Seq(Repos),
         removed' \subseteq excused, raced' \in BOOLEAN, leftover' \in SUBSET Repos,
         \A r \in Cached' \ excused : Behind(r, 0),
         \A r \in n.prev \ excused : Behind(r, 0),
         \A f \in Forges : \A r \in n.scan[f].got \cup n.scan[f].valid :
            ForgeOf[r] = f /\ (r \notin excused => Behind(r, 0)),
         n.at = "scan" => \A r \in n.prev \ excused : StillMet(n.scan[ForgeOf[r]], r),
         n.at = "notify" => n.prev \subseteq excused,
         InSequence'
  PROVE  DiscoveryInv'
<1> USE DEF DiscoveryInv
<1>1. run' \in [Runs -> RunStates] /\ run'[i] = n /\ \A j \in Runs \ {i} : run'[j] = run[j]
  BY DEF DiscoveryTypes
<1>2. DiscoveryTypes'
  BY <1>1 DEF DiscoveryTypes
<1>3. ListingsAreSets' /\ DocsAreKept' /\ removed' \subseteq excused'
  BY DEF ListingsAreSets, DocsAreKept
<1>4. \A r, k : Behind(r, k)' <=> Behind(r, k)
  BY SameBehind
<1>5. KnownIsListed'
  <2>1. \A r \in Cached' \ excused' : Behind(r, 0)'
    BY <1>4
  <2>2. ASSUME NEW j \in Runs, NEW r \in run'[j].prev \ excused' PROVE Behind(r, 0)'
    BY <1>1, <1>4, <2>2 DEF KnownIsListed
  <2>3. ASSUME NEW j \in Runs, NEW g \in Forges, NEW r \in run'[j].scan[g].got \cup run'[j].scan[g].valid
        PROVE  ForgeOf[r] = g /\ (r \notin excused' => Behind(r, 0)')
    <3>1. CASE j = i
      BY <1>1, <1>4, <2>3, <3>1
    <3>2. CASE j # i
      <4>1. run'[j].scan[g] = run[j].scan[g]
        BY <1>1, <3>2
      <4> QED BY <1>4, <2>3, <4>1 DEF KnownIsListed
    <3> QED BY <3>1, <3>2
  <2> QED BY <2>1, <2>2, <2>3 DEF KnownIsListed
<1>6. RememberedIsMet'
  <2>1. ASSUME NEW j \in Runs, run'[j].at = "notify" PROVE run'[j].prev \subseteq excused'
    BY <1>1, <2>1 DEF RememberedIsMet
  <2>2. ASSUME NEW j \in Runs, run'[j].at = "scan", NEW r \in run'[j].prev \ excused'
        PROVE  StillMet(run[j].scan[ForgeOf[r]], r)'
    <3>1. StillMet(run'[j].scan[ForgeOf[r]], r)
      <4>1. CASE j = i
        BY <1>1, <2>2, <4>1
      <4>2. CASE j # i
        BY <1>1, <2>2, <4>2 DEF RememberedIsMet
      <4> QED BY <4>1, <4>2
    <3> QED BY <1>4, <3>1 DEF StillMet
  <2> QED BY <2>1, <2>2 DEF RememberedIsMet
<1> QED BY <1>2, <1>3, <1>5, <1>6

(* A run before its start, and a forge before it is asked.                  *)
LEMMA IdleFacts ==
  /\ D!NotAsked \in Scans /\ D!NotAsked.at = "orgs" /\ D!NotAsked.got = {} /\ D!NotAsked.valid = {}
  /\ D!Idle \in RunStates /\ D!Idle.at = "idle" /\ D!Idle.prev = {} /\ D!Idle.result = {}
  /\ D!Idle.scan = [f \in Forges |-> D!NotAsked]
<1>1. D!NotAsked = [at |-> "orgs", page |-> 1, got |-> {}, valid |-> {}]
  BY DEF D!NotAsked
<1>2. D!NotAsked \in Scans /\ D!NotAsked.at = "orgs" /\ D!NotAsked.got = {} /\ D!NotAsked.valid = {}
  BY <1>1 DEF Scans
<1>3. [f \in Forges |-> D!NotAsked] \in [Forges -> Scans]
  BY <1>2
<1>4. D!Idle = [at |-> "idle", prev |-> {}, scan |-> [f \in Forges |-> D!NotAsked], result |-> {}]
  BY DEF D!Idle
<1>5. D!Idle \in RunStates
  BY <1>3, <1>4 DEF RunStates
<1> QED BY <1>2, <1>4, <1>5

(* The cached result, if any, is a set of repositories.                     *)
LEMMA StillCached == DiscoveryTypes => Cached \subseteq Repos
<1> SUFFICES ASSUME DiscoveryTypes PROVE Cached \subseteq Repos
  OBVIOUS
<1>1. cache \in (SUBSET Repos) \cup {Unknown}
  BY DEF DiscoveryTypes
<1>2. cache = Unknown \/ cache \in SUBSET Repos
  BY <1>1
<1> QED BY <1>2 DEF Cached

(* Run: whatever it remembers is listed, and no forge has been asked yet; one*)
(* that starts while nothing is under way finds the state settled.          *)
LEMMA StartRunStep ==
  ASSUME DiscoveryInv, NEW i \in Runs, D!StartRun(i)
  PROVE  DiscoveryInv'
<1> USE DEF DiscoveryInv
<1> DEFINE n == [D!Idle EXCEPT !.at = "scan", !.prev = Cached]
<1>1. /\ run[i].at = "idle" /\ run' = [run EXCEPT ![i] = n] /\ raced' = (raced \/ D!Busy)
      /\ UNCHANGED <<setup, listing, docs, cache, tracked, removals, removed, excused, leftover>>
  BY DEF D!StartRun, Cached
<1>2. Cached \subseteq Repos /\ Cached' = Cached
  BY <1>1, StillCached DEF Cached
<1>3. n \in RunStates /\ n.at = "scan" /\ n.prev = Cached /\ n.result = {} /\ n.scan = [f \in Forges |-> D!NotAsked]
  BY <1>2, IdleFacts DEF RunStates
<1> HIDE DEF n
<1>4. \A f \in Forges : n.scan[f].got = {} /\ n.scan[f].valid = {} /\ n.scan[f].at = "orgs"
  BY <1>3, IdleFacts
<1>5. \A r \in n.prev : StillMet(n.scan[ForgeOf[r]], r)
  <2>1. \A r \in n.prev : ForgeOf[r] \in Forges
    BY <1>2, <1>3, SourcesAssumption
  <2> QED BY <1>4, <2>1 DEF StillMet
<1>6. InSequence'
  <2> SUFFICES ASSUME ~raced' PROVE InSequence'
    BY DEF InSequence
  <2>1. ~raced /\ ~D!Busy
    BY <1>1
  <2>2. removals = <<>> /\ \A j \in Runs : run[j].at = "idle"
    BY <2>1 DEF D!Busy
  <2>3. run'[i] = n /\ \A j \in Runs \ {i} : run'[j].at = "idle"
    BY <1>1, <2>2 DEF DiscoveryTypes
  <2>4. Unnotified = {}
    BY <2>2 DEF Unnotified
  <2>5. D!ToSet(removals) = {}
    BY <2>2 DEF D!ToSet
  <2>6. tracked \subseteq Cached \cup leftover /\ Cached \subseteq tracked
    BY <2>1, <2>2, <2>4, <2>5 DEF InSequence
  <2> QED BY <1>1, <1>2, <1>3, <2>2, <2>3, <2>5, <2>6 DEF InSequence
<1>7. \A r \in Cached \ excused : Behind(r, 0)
  BY DEF KnownIsListed
<1>8. /\ cache' \in (SUBSET Repos) \cup {Unknown} /\ tracked' \in SUBSET Repos /\ removals' \in Seq(Repos)
      /\ leftover' \in SUBSET Repos /\ removed' \subseteq excused
  BY <1>1 DEF DiscoveryTypes
<1>9. raced' \in BOOLEAN
  BY <1>1, Zenon DEF DiscoveryTypes, D!Busy
<1> QED BY <1>1, <1>2, <1>3, <1>4, <1>5, <1>6, <1>7, <1>8, <1>9, RunReplaced

(* The end of DiscoverAll: a remembered repository that is not excused is on*)
(* a configured forge, was got and checked there, and hence is found; what is*)
(* left to report is excused.                                               *)
LEMMA UpdateCacheStep ==
  ASSUME DiscoveryInv, NEW i \in Runs, D!UpdateCache(i)
  PROVE  DiscoveryInv'
<1> USE DEF DiscoveryInv
<1> DEFINE F == D!Found(i)
           p == run[i].prev \ F
           n == [D!Idle EXCEPT !.at = "notify", !.prev = p, !.result = F]
<1>1. /\ run[i].at = "scan" /\ D!Complete(i) /\ run' = [run EXCEPT ![i] = n] /\ cache' = F
      /\ UNCHANGED <<setup, listing, docs, tracked, removals, removed, excused, raced, leftover>>
  BY DEF D!UpdateCache
<1>2. setup.forges \subseteq Forges
  BY SourcesAssumption DEF DiscoveryTypes
<1>3. F = UNION {run[i].scan[f].valid : f \in setup.forges}
  BY DEF D!Found
<1>4. F \subseteq Repos /\ p \subseteq Repos /\ p \subseteq run[i].prev
  <2>1. \A f \in setup.forges : run[i].scan[f].valid \subseteq Repos
    BY <1>2, RunFacts
  <2> QED BY <1>3, <2>1, RunFacts
<1>5. \A r \in F \ excused : Behind(r, 0)
  BY <1>2, <1>3 DEF KnownIsListed
<1>6. ASSUME NEW r \in p \ excused PROVE FALSE
  <2>1. r \in run[i].prev \ excused /\ r \in Repos /\ ForgeOf[r] \in Forges
    BY <1>4, <1>6, SourcesAssumption
  <2> DEFINE t == run[i].scan[ForgeOf[r]]
  <2>2. Behind(r, 0) /\ StillMet(t, r)
    BY <1>1, <2>1 DEF KnownIsListed, RememberedIsMet
  <2>3. ForgeOf[r] \in setup.forges
    <3>1. listing[ForgeOf[r]] # <<>>
      BY <2>2 DEF Behind
    <3> QED BY <2>1, <3>1 DEF ListingsAreSets
  <2>4. t.at = "check" /\ t.got = {}
    BY <1>1, <2>2, <2>3 DEF D!Complete, D!Finished, StillMet
  <2>5. r \in t.valid
    BY <2>2, <2>4 DEF StillMet
  <2> QED BY <1>3, <1>6, <2>3, <2>5
<1> HIDE DEF F
<1>7. n \in RunStates /\ n.at = "notify" /\ n.prev = p /\ n.result = F /\ n.scan = [f \in Forges |-> D!NotAsked]
  BY <1>4, IdleFacts DEF RunStates
<1> HIDE DEF n
<1>8. \A f \in Forges : n.scan[f].got = {} /\ n.scan[f].valid = {}
  BY <1>7, IdleFacts
<1>9. cache' # Unknown /\ Cached' = F
  BY <1>1, <1>4, SourcesAssumption DEF Cached
<1>10. InSequence'
  <2> SUFFICES ASSUME ~raced PROVE InSequence'
    BY <1>1 DEF InSequence
  <2>1. \A j \in Runs \ {i} : run[j].at = "idle"
    BY <1>1, RunFacts DEF InSequence
  <2>2. run'[i] = n /\ \A j \in Runs \ {i} : run'[j].at = "idle"
    BY <1>1, <2>1 DEF DiscoveryTypes
  <2>3. removals = <<>> /\ run[i].prev = Cached
    BY <1>1 DEF InSequence
  <2>4. Unnotified = {}
    BY <1>1, <2>1 DEF Unnotified
  <2>5. D!ToSet(removals) = {}
    BY <2>3 DEF D!ToSet
  <2>6. tracked \subseteq run[i].prev \cup leftover
    BY <2>3, <2>4, <2>5 DEF InSequence
  <2>7. p \subseteq Unnotified'
    BY <1>7, <2>2 DEF Unnotified
  <2>8. tracked' \subseteq Cached' \cup leftover' \cup Unnotified'
    BY <1>1, <1>9, <2>6, <2>7
  <2>9. run'[i].at = "notify" /\ run'[i].result = cache' /\ run'[i].prev \cap cache' = {}
    BY <1>1, <1>7, <2>2
  <2> QED BY <1>1, <1>9, <2>2, <2>3, <2>5, <2>8, <2>9 DEF InSequence
<1>11. /\ cache' \in (SUBSET Repos) \cup {Unknown} /\ tracked' \in SUBSET Repos /\ removals' \in Seq(Repos)
      /\ leftover' \in SUBSET Repos /\ raced' \in BOOLEAN /\ removed' \subseteq excused
  BY <1>1, <1>4 DEF DiscoveryTypes
<1>12. p \subseteq excused
  BY <1>6
<1> HIDE DEF p
<1> QED BY <1>1, <1>5, <1>7, <1>8, <1>9, <1>10, <1>11, <1>12, RunReplaced

(* onDiscoveryRepoRemoved: what is reported is excused, and not in the cache.*)
LEMMA NotifyRemovedStep ==
  ASSUME DiscoveryInv, NEW i \in Runs, NEW x \in Repos, D!NotifyRemoved(i, x)
  PROVE  DiscoveryInv'
<1> USE DEF DiscoveryInv
<1> DEFINE n == [run[i] EXCEPT !.prev = @ \ {x}]
<1>1. run[i] \in RunStates /\ run \in [Runs -> RunStates] /\ run[i].prev \subseteq Repos
  BY RunFacts DEF DiscoveryTypes
<1>2. /\ run[i].at = "notify" /\ x \in run[i].prev /\ run' = [run EXCEPT ![i] = n]
      /\ removals' = Append(removals, x) /\ removed' = removed \cup {x}
      /\ UNCHANGED <<setup, listing, docs, cache, tracked, excused, raced, leftover>>
  BY <1>1 DEF D!NotifyRemoved
<1>3. n \in RunStates /\ n.at = "notify" /\ n.prev = run[i].prev \ {x} /\ n.result = run[i].result /\ n.scan = run[i].scan
  BY <1>1, <1>2 DEF RunStates
<1> HIDE DEF n
<1>4. run[i].prev \subseteq excused
  BY <1>2 DEF RememberedIsMet
<1>5. Cached' = Cached
  BY <1>2 DEF Cached
<1>6. removals \in Seq(Repos) /\ removals' \in Seq(Repos) /\ D!ToSet(removals') = D!ToSet(removals) \cup {x}
  <2>1. removals \in Seq(Repos)
    BY DEF DiscoveryTypes
  <2> QED BY <1>2, <2>1 DEF D!ToSet
<1>7. InSequence'
  <2> SUFFICES ASSUME ~raced PROVE InSequence'
    BY <1>2 DEF InSequence
  <2>1. \A j \in Runs \ {i} : run[j].at = "idle"
    BY <1>2, RunFacts DEF InSequence
  <2>2. run'[i] = n /\ \A j \in Runs \ {i} : run'[j].at = "idle"
    BY <1>1, <1>2, <2>1
  <2>3. cache # Unknown /\ run[i].result = cache /\ run[i].prev \cap cache = {} /\ Cached = cache
    BY <1>2 DEF InSequence, Cached
  <2>4. Unnotified = run[i].prev
    BY <1>2, <2>1 DEF Unnotified
  <2>5. Unnotified' = run[i].prev \ {x}
    <3>1. {j \in Runs : run'[j].at = "notify"} = {i}
      BY <1>3, <2>2
    <3> QED BY <1>3, <2>2, <3>1 DEF Unnotified
  <2>6. D!ToSet(removals) \cap Cached = {} /\ tracked \subseteq Cached \cup leftover \cup D!ToSet(removals) \cup Unnotified
    BY DEF InSequence
  <2>7. D!ToSet(removals') \cap Cached' = {}
    BY <1>2, <1>5, <1>6, <2>3, <2>6
  <2>8. tracked' \subseteq Cached' \cup leftover' \cup D!ToSet(removals') \cup Unnotified'
    BY <1>2, <1>5, <1>6, <2>4, <2>5, <2>6
  <2>9. cache' # Unknown /\ run'[i].at = "notify" /\ run'[i].result = cache' /\ run'[i].prev \cap cache' = {}
    BY <1>2, <1>3, <2>2, <2>3
  <2> QED BY <2>2, <2>7, <2>8, <2>9 DEF InSequence
<1>8. /\ cache' \in (SUBSET Repos) \cup {Unknown} /\ tracked' \in SUBSET Repos
      /\ leftover' \in SUBSET Repos /\ raced' \in BOOLEAN /\ removed' \subseteq excused
  BY <1>2, <1>4 DEF DiscoveryTypes
<1>9. /\ \A r \in Cached' \ excused : Behind(r, 0)
      /\ \A f \in Forges : \A r \in n.scan[f].got \cup n.scan[f].valid :
            ForgeOf[r] = f /\ (r \notin excused => Behind(r, 0))
  BY <1>3, <1>5 DEF KnownIsListed
<1> QED BY <1>2, <1>3, <1>4, <1>6, <1>7, <1>8, <1>9, RunReplaced

(* EnsureRepositoryState: the state now tracks all of the cached result.    *)
LEMMA EnsureStateStep ==
  ASSUME DiscoveryInv, NEW i \in Runs, D!EnsureState(i)
  PROVE  DiscoveryInv'
<1> USE DEF DiscoveryInv
<1>1. /\ run[i].at = "notify" /\ run[i].prev = {} /\ run' = [run EXCEPT ![i] = D!Idle]
      /\ tracked' = tracked \cup run[i].result /\ leftover' = leftover \ run[i].result
      /\ UNCHANGED <<setup, listing, docs, cache, removals, removed, excused, raced>>
  BY DEF D!EnsureState
<1>2. run[i].result \subseteq Repos
  BY RunFacts
<1>3. Cached' = Cached
  BY <1>1 DEF Cached
<1>4. InSequence'
  <2> SUFFICES ASSUME ~raced PROVE InSequence'
    BY <1>1 DEF InSequence
  <2>1. \A j \in Runs \ {i} : run[j].at = "idle"
    BY <1>1, RunFacts DEF InSequence
  <2>2. \A j \in Runs : run'[j].at = "idle"
    BY <1>1, <2>1, IdleFacts DEF DiscoveryTypes
  <2>3. cache # Unknown /\ run[i].result = Cached
    BY <1>1 DEF InSequence, Cached
  <2>4. Unnotified = {}
    BY <1>1, <2>1 DEF Unnotified
  <2>5. D!ToSet(removals) \cap Cached = {} /\ tracked \subseteq Cached \cup leftover \cup D!ToSet(removals)
    BY <2>4 DEF InSequence
  <2>6. tracked' \subseteq Cached' \cup leftover' \cup D!ToSet(removals') /\ Cached' \subseteq tracked'
    BY <1>1, <1>3, <2>3, <2>5
  <2> QED BY <1>1, <1>3, <2>2, <2>3, <2>5, <2>6 DEF InSequence
<1>5. /\ cache' \in (SUBSET Repos) \cup {Unknown} /\ tracked' \in SUBSET Repos /\ removals' \in Seq(Repos)
      /\ leftover' \in SUBSET Repos /\ raced' \in BOOLEAN /\ removed' \subseteq excused
  BY <1>1, <1>2 DEF DiscoveryTypes
<1>6. \A r \in Cached' \ excused : Behind(r, 0)
  BY <1>3 DEF KnownIsListed
<1>7. \A f \in Forges : D!Idle.scan[f].got = {} /\ D!Idle.scan[f].valid = {}
  BY IdleFacts
<1> QED BY <1>1, <1>4, <1>5, <1>6, <1>7, IdleFacts, RunReplaced

(* handleRepoRemoved: without overlapping runs the repository it forgets is *)
(* not in the cached result.                                                *)
LEMMA HandleRepoRemovedStep ==
  ASSUME DiscoveryInv, D!HandleRepoRemoved
  PROVE  DiscoveryInv'
<1> USE DEF DiscoveryInv
<1>1. /\ removals # <<>> /\ removals' = Tail(removals) /\ tracked' = tracked \ {Head(removals)}
      /\ leftover' = leftover \ {Head(removals)}
      /\ UNCHANGED <<setup, listing, docs, run, cache, removed, excused, raced>>
  BY DEF D!HandleRepoRemoved
<1>2. removals \in Seq(Repos)
  BY DEF DiscoveryTypes
<1>3. removals' \in Seq(Repos) /\ D!ToSet(removals) = D!ToSet(removals') \cup {Head(removals)}
  <2>1. Tail(removals) \in Seq(Repos) /\ Len(removals) \in Nat \ {0} /\ Len(Tail(removals)) = Len(removals) - 1
        /\ \A k \in 1..Len(removals) - 1 : Tail(removals)[k] = removals[k + 1]
    BY <1>1, <1>2
  <2>2. DOMAIN removals = 1..Len(removals) /\ DOMAIN Tail(removals) = 1..(Len(removals) - 1) /\ Head(removals) = removals[1]
    BY <1>1, <1>2, <2>1
  <2>3. ASSUME NEW k \in DOMAIN removals PROVE removals[k] \in D!ToSet(Tail(removals)) \cup {Head(removals)}
    <3>1. CASE k = 1
      BY <2>2, <3>1
    <3>2. CASE k # 1
      <4>1. k - 1 \in DOMAIN Tail(removals) /\ Tail(removals)[k - 1] = removals[k]
        BY <2>1, <2>2, <3>2
      <4> QED BY <4>1 DEF D!ToSet
    <3> QED BY <3>1, <3>2
  <2>4. ASSUME NEW k \in DOMAIN Tail(removals) PROVE Tail(removals)[k] \in D!ToSet(removals)
    <3>1. k + 1 \in DOMAIN removals /\ Tail(removals)[k] = removals[k + 1]
      BY <2>1, <2>2
    <3> QED BY <3>1 DEF D!ToSet
  <2>5. Head(removals) \in D!ToSet(removals)
    BY <2>1, <2>2 DEF D!ToSet
  <2> QED BY <1>1, <2>1, <2>3, <2>4, <2>5 DEF D!ToSet
<1>4. Cached' = Cached /\ Unnotified' = Unnotified
  BY <1>1 DEF Cached, Unnotified
<1>5. DiscoveryTypes'
  BY <1>1, <1>3 DEF DiscoveryTypes
<1>6. ListingsAreSets' /\ DocsAreKept' /\ removed' \subseteq excused'
  BY <1>1 DEF ListingsAreSets, DocsAreKept
<1>7. KnownIsListed' /\ RememberedIsMet'
  <2>1. \A r, k : Behind(r, k)' <=> Behind(r, k)
    BY <1>1, SameBehind
  <2>2. KnownIsListed'
    BY <1>1, <1>4, <2>1 DEF KnownIsListed
  <2>3. RememberedIsMet'
    BY <1>1, <2>1 DEF RememberedIsMet, StillMet
  <2> QED BY <2>2, <2>3
<1>8. InSequence'
  <2> SUFFICES ASSUME ~raced PROVE InSequence'
    BY <1>1 DEF InSequence
  <2>1. /\ D!ToSet(removals) \cap Cached = {}
        /\ tracked \subseteq Cached \cup leftover \cup D!ToSet(removals) \cup Unnotified
    BY DEF InSequence
  <2>2. /\ D!ToSet(removals') \cap Cached' = {}
        /\ tracked' \subseteq Cached' \cup leftover' \cup D!ToSet(removals') \cup Unnotified'
    BY <1>1, <1>3, <1>4, <2>1
  <2>3. Head(removals) \notin Cached
    BY <1>3, <2>1
  <2>4. (\A j \in Runs : run[j].at # "notify") => Cached' \subseteq tracked'
    BY <1>1, <1>4, <2>3 DEF InSequence
  <2>5. cache # Unknown /\ \A j \in Runs : run[j].at # "scan"
    BY <1>1 DEF InSequence
  <2> QED BY <1>1, <2>2, <2>4, <2>5 DEF InSequence
<1> QED BY <1>5, <1>6, <1>7, <1>8

(* A restart: nothing is remembered, and what is tracked is left over.      *)
LEMMA RestartStep ==
  ASSUME DiscoveryInv, D!Restart
  PROVE  DiscoveryInv'
<1> USE DEF DiscoveryInv
<1>1. /\ run' = [i \in Runs |-> D!Idle] /\ cache' = Unknown /\ removals' = <<>> /\ leftover' = tracked /\ raced' = FALSE
      /\ UNCHANGED <<setup, listing, docs, tracked, removed, excused>>
  BY DEF D!Restart
<1>2. Cached' = {}
  BY <1>1 DEF Cached
<1>3. \A i \in Runs : run'[i] = D!Idle
  BY <1>1
<1>4. DiscoveryTypes'
  <2>1. run' \in [Runs -> RunStates]
    BY <1>1, IdleFacts
  <2>2. <<>> \in Seq(Repos) /\ Unknown \in (SUBSET Repos) \cup {Unknown}
    OBVIOUS
  <2> QED BY <1>1, <2>1, <2>2 DEF DiscoveryTypes
<1>5. ListingsAreSets' /\ DocsAreKept' /\ removed' \subseteq excused'
  BY <1>1 DEF ListingsAreSets, DocsAreKept
<1>6. \A f \in Forges : D!Idle.scan[f].got = {} /\ D!Idle.scan[f].valid = {}
  BY IdleFacts
<1>7. KnownIsListed' /\ RememberedIsMet'
  BY <1>2, <1>3, <1>6, IdleFacts DEF KnownIsListed, RememberedIsMet
<1>8. InSequence'
  <2>1. D!ToSet(removals') = {}
    BY <1>1 DEF D!ToSet
  <2> QED BY <1>1, <1>2, <1>3, <2>1, IdleFacts DEF InSequence
<1> QED BY <1>4, <1>5, <1>7, <1>8

(* A sequence without the element at place p.                               *)
LEMMA RemoveAtFacts ==
  ASSUME NEW S, NEW l \in Seq(S), NEW p \in 1..Len(l)
  PROVE  /\ D!RemoveAt(l, p) \in Seq(S) /\ Len(D!RemoveAt(l, p)) = Len(l) - 1
         /\ \A k \in 1..(p - 1) : D!RemoveAt(l, p)[k] = l[k]
         /\ \A k \in p..(Len(l) - 1) : D!RemoveAt(l, p)[k] = l[k + 1]
<1> DEFINE a == SubSeq(l, 1, p - 1)
           b == SubSeq(l, p + 1, Len(l))
<1>1. Len(l) \in Nat /\ p \in Nat /\ 1 <= p /\ p <= Len(l)
  OBVIOUS
<1>2. a \in Seq(S) /\ Len(a) = p - 1 /\ \A k \in 1..(p - 1) : a[k] = l[k]
  <2>1. a = [k \in 1..(p - 1) |-> l[k]]
    BY <1>1
  <2> QED BY <1>1, <2>1
<1>3. b \in Seq(S) /\ Len(b) = Len(l) - p /\ \A k \in 1..(Len(l) - p) : b[k] = l[k + p]
  BY <1>1
<1> HIDE DEF a, b
<1>4. /\ a \o b \in Seq(S) /\ Len(a \o b) = Len(l) - 1
      /\ \A k \in 1..(p - 1) : (a \o b)[k] = a[k]
      /\ \A k \in p..(Len(l) - 1) : (a \o b)[k] = b[k - (p - 1)]
  BY <1>1, <1>2, <1>3, SMTT(30)
<1>5. D!RemoveAt(l, p) = a \o b
  BY DEF D!RemoveAt, a, b
<1>6. ASSUME NEW k \in p..(Len(l) - 1) PROVE b[k - (p - 1)] = l[k + 1]
  <2>1. k - (p - 1) \in 1..(Len(l) - p) /\ (k - (p - 1)) + p = k + 1
    BY <1>1
  <2> QED BY <1>3, <2>1
<1> QED BY <1>2, <1>4, <1>5, <1>6

(* A sequence with x put in front.                                          *)
LEMMA FrontFacts ==
  ASSUME NEW S, NEW u \in Seq(S), NEW x \in S
  PROVE  /\ <<x>> \o u \in Seq(S) /\ Len(<<x>> \o u) = Len(u) + 1 /\ (<<x>> \o u)[1] = x
         /\ \A k \in 1..Len(u) : (<<x>> \o u)[k + 1] = u[k]
OBVIOUS

(* The listing without x: still a set of repositories of one forge, with the*)
(* others at most one place further ahead.                                  *)
LEMMA UnlistFacts ==
  ASSUME DiscoveryInv, NEW x \in Repos, x \in D!Listed,
         NEW l, l = listing[ForgeOf[x]], NEW u, u = D!Unlist(x)
  PROVE  /\ u \in Seq(Repos)
         /\ \A j, k \in DOMAIN u : u[j] = u[k] => j = k
         /\ \A k \in DOMAIN u : u[k] # x /\ ForgeOf[u[k]] = ForgeOf[x]
         /\ \A k \in DOMAIN l : l[k] # x => \E m \in DOMAIN u : u[m] = l[k] /\ k <= m + 1
<1> USE DEF DiscoveryInv
<1>1. ForgeOf[x] \in Forges /\ l \in Seq(Repos)
  BY SourcesAssumption DEF DiscoveryTypes
<1>2. Len(l) \in Nat /\ DOMAIN l = 1..Len(l)
  BY <1>1
<1>3. /\ \A j, k \in DOMAIN l : l[j] = l[k] => j = k
      /\ \A k \in DOMAIN l : ForgeOf[l[k]] = ForgeOf[x]
  BY <1>1 DEF ListingsAreSets
<1>4. \E k \in DOMAIN l : l[k] = x
  <2>1. PICK f \in Forges : x \in D!ToSet(listing[f])
    BY DEF D!Listed
  <2>2. PICK k \in DOMAIN listing[f] : x = listing[f][k]
    BY <2>1 DEF D!ToSet
  <2>3. ForgeOf[x] = f
    BY <2>2 DEF ListingsAreSets
  <2> QED BY <2>2, <2>3
<1> DEFINE p == CHOOSE k \in DOMAIN l : l[k] = x
<1>5. p \in DOMAIN l /\ l[p] = x
  BY <1>4
<1>6. u = D!RemoveAt(l, p)
  BY DEF D!Unlist
<1> HIDE DEF p
<1>7. /\ u \in Seq(Repos) /\ Len(u) = Len(l) - 1
      /\ \A k \in 1..(p - 1) : u[k] = l[k]
      /\ \A k \in p..(Len(l) - 1) : u[k] = l[k + 1]
  <2>1. p \in 1..Len(l)
    BY <1>2, <1>5
  <2>2. /\ D!RemoveAt(l, p) \in Seq(Repos) /\ Len(D!RemoveAt(l, p)) = Len(l) - 1
        /\ \A k \in 1..(p - 1) : D!RemoveAt(l, p)[k] = l[k]
        /\ \A k \in p..(Len(l) - 1) : D!RemoveAt(l, p)[k] = l[k + 1]
    BY <1>1, <2>1, RemoveAtFacts
  <2> QED BY <1>6, <2>2
<1>8. DOMAIN u = 1..(Len(l) - 1)
  BY <1>7
<1> DEFINE from(k) == IF k < p THEN k ELSE k + 1
<1>9. \A k \in DOMAIN u : from(k) \in DOMAIN l /\ u[k] = l[from(k)] /\ from(k) # p
  BY <1>2, <1>5, <1>7, <1>8
<1>10. \A j, k \in DOMAIN u : from(j) = from(k) => j = k
  BY <1>2, <1>5, <1>8
<1>11. ASSUME NEW k \in DOMAIN l, l[k] # x PROVE \E m \in DOMAIN u : u[m] = l[k] /\ k <= m + 1
  <2>1. CASE k < p
    <3>1. k \in DOMAIN u /\ u[k] = l[k]
      BY <1>2, <1>5, <1>7, <1>8, <2>1
    <3>2. k <= k + 1
      BY <1>2
    <3> QED BY <3>1, <3>2
  <2>2. CASE ~(k < p)
    <3>1. k - 1 \in DOMAIN u /\ u[k - 1] = l[(k - 1) + 1] /\ (k - 1) + 1 = k
      BY <1>2, <1>5, <1>7, <1>8, <1>11, <2>2, SMTT(30)
    <3>2. k <= (k - 1) + 1
      BY <1>2
    <3> QED BY <3>1, <3>2
  <2> QED BY <2>1, <2>2
<1> HIDE DEF from
<1>12. \A j, k \in DOMAIN u : u[j] = u[k] => j = k
  BY <1>3, <1>9, <1>10
<1>13. \A k \in DOMAIN u : u[k] # x /\ ForgeOf[u[k]] = ForgeOf[x]
  BY <1>3, <1>5, <1>9
<1> QED BY <1>7, <1>11, <1>12, <1>13

(* A change of one forge keeps the invariant, when a repository it does not *)
(* excuse stays listed and, while some run is midway through the pages, does*)
(* not move ahead.                                                          *)
LEMMA EnvironmentStep ==
  ASSUME DiscoveryInv, NEW x \in Repos, ForgeOf[x] \in setup.forges, NEW v \in Seq(Repos),
         listing' = [listing EXCEPT ![ForgeOf[x]] = v],
         \A j, k \in DOMAIN v : v[j] = v[k] => j = k,
         \A k \in DOMAIN v : ForgeOf[v[k]] = ForgeOf[x],
         excused \subseteq excused', excused' \subseteq Repos, docs' \in [Repos -> D!Status], DocsAreKept',
         UNCHANGED <<setup, run, cache, tracked, removals, removed, raced, leftover>>,
         \A r \in Repos \ excused', n \in Nat :
            ForgeOf[r] = ForgeOf[x] /\ Behind(r, n) /\ (n = 0 \/ D!Midway(ForgeOf[x]))
               => \E m \in DOMAIN v : v[m] = r /\ n < m
  PROVE  DiscoveryInv'
<1> USE DEF DiscoveryInv
<1>1. ForgeOf[x] \in Forges
  BY SourcesAssumption
<1>2. listing'[ForgeOf[x]] = v /\ \A f \in Forges \ {ForgeOf[x]} : listing'[f] = listing[f]
  BY <1>1 DEF DiscoveryTypes
<1>3. DiscoveryTypes'
  <2>1. listing' \in [Forges -> Seq(Repos)]
    BY <1>1 DEF DiscoveryTypes
  <2> QED BY <2>1 DEF DiscoveryTypes
<1>4. ListingsAreSets'
  <2> SUFFICES ASSUME NEW f \in Forges
               PROVE  /\ \A j, k \in DOMAIN listing'[f] : listing'[f][j] = listing'[f][k] => j = k
                      /\ \A k \in DOMAIN listing'[f] : ForgeOf[listing'[f][k]] = f
                      /\ f \notin setup' .forges => listing'[f] = <<>>
    BY DEF ListingsAreSets
  <2>1. CASE f = ForgeOf[x]
    BY <1>2, <2>1
  <2>2. CASE f # ForgeOf[x]
    BY <1>2, <2>2 DEF ListingsAreSets
  <2> QED BY <2>1, <2>2
<1>5. ASSUME NEW r \in Repos \ excused', NEW n \in Nat, Behind(r, n),
             n = 0 \/ D!Midway(ForgeOf[r])
      PROVE  Behind(r, n)'
  <2>1. CASE ForgeOf[r] = ForgeOf[x]
    <3>1. PICK m \in DOMAIN v : v[m] = r /\ n < m
      BY <1>5, <2>1
    <3> QED BY <1>2, <2>1, <3>1 DEF Behind
  <2>2. CASE ForgeOf[r] # ForgeOf[x]
    <3>1. listing'[ForgeOf[r]] = listing[ForgeOf[r]]
      BY <1>2, <2>2, SourcesAssumption
    <3> QED BY <1>5, <3>1 DEF Behind
  <2> QED BY <2>1, <2>2
<1>6. Cached' = Cached /\ Unnotified' = Unnotified
  BY DEF Cached, Unnotified
<1>7. KnownIsListed'
  <2>1. ASSUME NEW r \in Cached \ excused' PROVE Behind(r, 0)'
    <3>1. r \in Repos /\ Behind(r, 0)
      BY <2>1, StillCached DEF KnownIsListed
    <3> QED BY <1>5, <2>1, <3>1
  <2>2. ASSUME NEW j \in Runs, NEW r \in run[j].prev \ excused' PROVE Behind(r, 0)'
    <3>1. r \in Repos /\ Behind(r, 0)
      BY <2>2, RunFacts DEF KnownIsListed
    <3> QED BY <1>5, <2>2, <3>1
  <2>3. ASSUME NEW j \in Runs, NEW g \in Forges, NEW r \in run[j].scan[g].got \cup run[j].scan[g].valid
        PROVE  ForgeOf[r] = g /\ (r \notin excused' => Behind(r, 0)')
    <3>1. r \in Repos /\ ForgeOf[r] = g /\ (r \notin excused => Behind(r, 0))
      BY <2>3, RunFacts DEF KnownIsListed
    <3> QED BY <1>5, <3>1
  <2> QED BY <1>6, <2>1, <2>2, <2>3 DEF KnownIsListed
<1>8. RememberedIsMet'
  <2>1. \A j \in Runs : run[j].at = "notify" => run[j].prev \subseteq excused'
    BY DEF RememberedIsMet
  <2>2. ASSUME NEW j \in Runs, run[j].at = "scan", NEW r \in run[j].prev \ excused'
        PROVE  StillMet(run[j].scan[ForgeOf[r]], r)'
    <3> DEFINE s == run[j].scan[ForgeOf[r]]
    <3>1. r \in Repos /\ ForgeOf[r] \in Forges /\ Behind(r, 0)
      BY <2>2, RunFacts, SourcesAssumption DEF KnownIsListed
    <3>2. s.page \in Nat \ {0}
      BY <3>1, RunFacts
    <3>3. StillMet(s, r)
      BY <2>2 DEF RememberedIsMet
    <3>4. ForgeOf[r] \in setup.forges
      <4>1. listing[ForgeOf[r]] # <<>>
        BY <3>1 DEF Behind
      <4> QED BY <3>1, <4>1 DEF ListingsAreSets
    <3>5. s.at = "page" /\ s.page > 1 => D!Midway(ForgeOf[r])
      BY <2>2, <3>4 DEF D!Midway, D!Asking
    <3>6. s' = s
      OBVIOUS
    <3> HIDE DEF s
    <3>7. PICK n \in Nat : n = (s.page - 1) * PageSize /\ (s.page = 1 => n = 0)
      BY <3>2, Multiples, SMTT(30)
    <3>8. s.at = "page" => n = 0 \/ D!Midway(ForgeOf[r])
      BY <3>2, <3>5, <3>7
    <3>9. s.at = "page" /\ Behind(r, n) => Behind(r, n)'
      BY <1>5, <2>2, <3>1, <3>8
    <3>10. s.at = "page" => r \in s.got \/ Behind(r, n)'
      BY <3>3, <3>7, <3>9 DEF StillMet
    <3>11. StillMet(s, r)'
      BY <3>3, <3>6, <3>7, <3>10 DEF StillMet
    <3> QED BY <3>11 DEF s
  <2> QED BY <2>1, <2>2 DEF RememberedIsMet
<1>9. InSequence'
  BY <1>6 DEF InSequence
<1> QED BY <1>3, <1>4, <1>7, <1>8, <1>9

(* The listing with x put, or moved, to the front.                          *)
LEMMA MovedToFront ==
  ASSUME DiscoveryInv, NEW x \in Repos, NEW u \in Seq(Repos),
         \A j, k \in DOMAIN u : u[j] = u[k] => j = k,
         \A k \in DOMAIN u : u[k] # x /\ ForgeOf[u[k]] = ForgeOf[x],
         NEW v, v = <<x>> \o u
  PROVE  /\ v \in Seq(Repos) /\ 1 \in DOMAIN v /\ v[1] = x
         /\ \A j, k \in DOMAIN v : v[j] = v[k] => j = k
         /\ \A k \in DOMAIN v : ForgeOf[v[k]] = ForgeOf[x]
         /\ \A m \in DOMAIN u : m + 1 \in DOMAIN v /\ v[m + 1] = u[m]
<1>1. /\ v \in Seq(Repos) /\ Len(v) = Len(u) + 1 /\ v[1] = x
      /\ \A k \in 1..Len(u) : v[k + 1] = u[k]
  BY FrontFacts
<1>2. Len(u) \in Nat /\ DOMAIN u = 1..Len(u) /\ DOMAIN v = 1..(Len(u) + 1)
  BY <1>1
<1>3. \A k \in DOMAIN v : k = 1 \/ (k - 1 \in DOMAIN u /\ v[k] = u[k - 1] /\ k \in Int)
  <2> TAKE k \in DOMAIN v
  <2>1. CASE k = 1
    BY <2>1
  <2>2. CASE k # 1
    <3>1. k - 1 \in 1..Len(u) /\ (k - 1) + 1 = k /\ k \in Int
      BY <1>2, <2>2
    <3> QED BY <1>1, <1>2, <3>1
  <2> QED BY <2>1, <2>2
<1>4. ASSUME NEW j \in DOMAIN v, NEW k \in DOMAIN v, v[j] = v[k] PROVE j = k
  <2>1. CASE j = 1 \/ k = 1
    BY <1>1, <1>3, <1>4, <2>1
  <2>2. CASE j # 1 /\ k # 1
    <3>1. j - 1 = k - 1 /\ j \in Int /\ k \in Int
      BY <1>3, <1>4, <2>2
    <3> QED BY <3>1
  <2> QED BY <2>1, <2>2
<1>5. \A k \in DOMAIN v : ForgeOf[v[k]] = ForgeOf[x]
  BY <1>1, <1>3
<1>6. \A m \in DOMAIN u : m + 1 \in DOMAIN v /\ v[m + 1] = u[m]
  BY <1>1, <1>2
<1>7. 1 \in DOMAIN v
  BY <1>2
<1> QED BY <1>1, <1>4, <1>5, <1>6, <1>7

(* The parts of the state that the forges change.                           *)
LEMMA ListingFacts ==
  ASSUME DiscoveryInv, NEW x \in Repos
  PROVE  /\ ForgeOf[x] \in Forges /\ listing[ForgeOf[x]] \in Seq(Repos)
         /\ \A k \in DOMAIN listing[ForgeOf[x]] : k \in Nat /\ 0 < k
         /\ docs \in [Repos -> D!Status]
<1> USE DEF DiscoveryInv
<1>1. ForgeOf[x] \in Forges /\ listing[ForgeOf[x]] \in Seq(Repos) /\ docs \in [Repos -> D!Status]
  BY SourcesAssumption DEF DiscoveryTypes
<1> QED BY <1>1

(* A push: only the repository itself can move ahead of a run midway.       *)
LEMMA ActivityStep ==
  ASSUME DiscoveryInv, NEW x \in Repos, D!Activity(x)
  PROVE  DiscoveryInv'
<1> DEFINE l == listing[ForgeOf[x]]
           u == D!Unlist(x)
           v == <<x>> \o u
<1>1. /\ ForgeOf[x] \in setup.forges /\ x \in D!Listed /\ listing' = [listing EXCEPT ![ForgeOf[x]] = v]
      /\ excused' = IF D!Midway(ForgeOf[x]) THEN excused \cup {x} ELSE excused
      /\ UNCHANGED <<setup, docs, run, cache, tracked, removals, removed, raced, leftover>>
  BY DEF D!Activity, D!Change
<1> HIDE DEF v
<1>2. /\ u \in Seq(Repos)
      /\ \A j, k \in DOMAIN u : u[j] = u[k] => j = k
      /\ \A k \in DOMAIN u : u[k] # x /\ ForgeOf[u[k]] = ForgeOf[x]
      /\ \A k \in DOMAIN l : l[k] # x => \E m \in DOMAIN u : u[m] = l[k] /\ k <= m + 1
  BY <1>1, UnlistFacts
<1> HIDE DEF u
<1>3. /\ v \in Seq(Repos) /\ 1 \in DOMAIN v /\ v[1] = x
      /\ \A j, k \in DOMAIN v : v[j] = v[k] => j = k
      /\ \A k \in DOMAIN v : ForgeOf[v[k]] = ForgeOf[x]
      /\ \A m \in DOMAIN u : m + 1 \in DOMAIN v /\ v[m + 1] = u[m]
  BY <1>2, MovedToFront, SMTT(30) DEF v
<1>4. \A k \in DOMAIN l : k \in Nat /\ 0 < k
  BY ListingFacts
<1>5. ASSUME NEW r \in Repos \ excused', NEW n \in Nat, ForgeOf[r] = ForgeOf[x], Behind(r, n),
             n = 0 \/ D!Midway(ForgeOf[x])
      PROVE  \E m \in DOMAIN v : v[m] = r /\ n < m
  <2>1. CASE r = x
    <3>1. n = 0
      BY <1>1, <1>5, <2>1
    <3> QED BY <1>3, <2>1, <3>1
  <2>2. CASE r # x
    <3>1. PICK k \in DOMAIN l : l[k] = r /\ n < k
      BY <1>5 DEF Behind
    <3>2. PICK m \in DOMAIN u : u[m] = r /\ k <= m + 1
      BY <1>2, <2>2, <3>1
    <3>3. m \in Nat
      BY <1>2
    <3>4. m + 1 \in DOMAIN v /\ v[m + 1] = r /\ n < m + 1
      BY <1>3, <1>4, <3>1, <3>2, <3>3
    <3> QED BY <3>4
  <2> QED BY <2>1, <2>2
<1>6. excused \subseteq excused' /\ excused' \subseteq Repos
  BY <1>1 DEF DiscoveryInv, DiscoveryTypes
<1>7. DocsAreKept' /\ docs' \in [Repos -> D!Status]
  BY <1>1, <1>6, ListingFacts DEF DiscoveryInv, DocsAreKept
<1>8. \A r \in Repos \ excused', n \in Nat :
        ForgeOf[r] = ForgeOf[x] /\ Behind(r, n) /\ (n = 0 \/ D!Midway(ForgeOf[x])) => \E m \in DOMAIN v : v[m] = r /\ n < m
  BY <1>5
<1>9. v \in Seq(Repos) /\ \A j, k \in DOMAIN v : v[j] = v[k] => j = k
  BY <1>3
<1>10. \A k \in DOMAIN v : ForgeOf[v[k]] = ForgeOf[x]
  BY <1>3
<1> QED BY <1>1, <1>6, <1>7, <1>8, <1>9, <1>10, EnvironmentStep

(* A deletion: all behind it may move ahead of a run midway, and are excused.*)
LEMMA DeleteStep ==
  ASSUME DiscoveryInv, NEW x \in Repos, D!Delete(x)
  PROVE  DiscoveryInv'
<1> DEFINE l == listing[ForgeOf[x]]
           u == D!Unlist(x)
<1>1. /\ ForgeOf[x] \in setup.forges /\ x \in D!Listed /\ listing' = [listing EXCEPT ![ForgeOf[x]] = u]
      /\ excused' = excused \cup (IF D!Midway(ForgeOf[x]) THEN D!At(ForgeOf[x]) ELSE {x})
      /\ UNCHANGED <<setup, docs, run, cache, tracked, removals, removed, raced, leftover>>
  BY DEF D!Delete, D!Change
<1>2. /\ u \in Seq(Repos)
      /\ \A j, k \in DOMAIN u : u[j] = u[k] => j = k
      /\ \A k \in DOMAIN u : u[k] # x /\ ForgeOf[u[k]] = ForgeOf[x]
      /\ \A k \in DOMAIN l : l[k] # x => \E m \in DOMAIN u : u[m] = l[k] /\ k <= m + 1
  <2>1. l = listing[ForgeOf[x]] /\ u = D!Unlist(x) /\ x \in D!Listed
    BY <1>1
  <2> HIDE DEF l, u
  <2> QED BY <2>1, UnlistFacts
<1> HIDE DEF u
<1>3. D!At(ForgeOf[x]) = {r \in Repos : ForgeOf[r] = ForgeOf[x]}
  BY DEF D!At
<1>4. ASSUME NEW r \in Repos \ excused', NEW n \in Nat, ForgeOf[r] = ForgeOf[x], Behind(r, n),
             n = 0 \/ D!Midway(ForgeOf[x])
      PROVE  \E m \in DOMAIN u : u[m] = r /\ n < m
  <2>1. ~D!Midway(ForgeOf[x]) /\ n = 0 /\ r # x
    BY <1>1, <1>3, <1>4
  <2>2. PICK k \in DOMAIN l : l[k] = r
    BY <1>4 DEF Behind
  <2>3. PICK m \in DOMAIN u : u[m] = r
    BY <1>2, <2>1, <2>2
  <2>4. 0 < m
    BY <1>2
  <2> QED BY <2>1, <2>3, <2>4
<1>5. excused \subseteq excused' /\ excused' \subseteq Repos
  BY <1>1, <1>3 DEF DiscoveryInv, DiscoveryTypes
<1>6. DocsAreKept' /\ docs' \in [Repos -> D!Status]
  BY <1>1, <1>5, ListingFacts DEF DiscoveryInv, DocsAreKept
<1>7. \A r \in Repos \ excused', n \in Nat :
        ForgeOf[r] = ForgeOf[x] /\ Behind(r, n) /\ (n = 0 \/ D!Midway(ForgeOf[x])) => \E m \in DOMAIN u : u[m] = r /\ n < m
  BY <1>4
<1>8. /\ \A j, k \in DOMAIN u : u[j] = u[k] => j = k
      /\ \A k \in DOMAIN u : ForgeOf[u[k]] = ForgeOf[x]
  BY <1>2
<1> QED BY <1>1, <1>2, <1>5, <1>6, <1>7, <1>8, EnvironmentStep

(* A new repository moves the others back, where runs still meet them.      *)
LEMMA CreateStep ==
  ASSUME DiscoveryInv, NEW x \in Repos, D!Create(x)
  PROVE  DiscoveryInv'
<1> DEFINE l == listing[ForgeOf[x]]
           v == <<x>> \o l
<1>1. /\ ForgeOf[x] \in setup.forges /\ x \notin D!Listed /\ listing' = [listing EXCEPT ![ForgeOf[x]] = v]
      /\ UNCHANGED <<setup, docs, run, cache, tracked, removals, removed, excused, raced, leftover>>
  BY DEF D!Create, D!Change
<1>2. ForgeOf[x] \in Forges /\ l \in Seq(Repos) /\ \A k \in DOMAIN l : k \in Nat /\ 0 < k
  BY ListingFacts
<1>3. /\ \A j, k \in DOMAIN l : l[j] = l[k] => j = k
      /\ \A k \in DOMAIN l : l[k] # x /\ ForgeOf[l[k]] = ForgeOf[x]
  <2>1. \A k \in DOMAIN l : l[k] # x
    BY <1>1, <1>2 DEF D!Listed, D!ToSet
  <2> QED BY <1>2, <2>1 DEF DiscoveryInv, ListingsAreSets
<1>4. /\ v \in Seq(Repos)
      /\ \A j, k \in DOMAIN v : v[j] = v[k] => j = k
      /\ \A k \in DOMAIN v : ForgeOf[v[k]] = ForgeOf[x]
      /\ \A m \in DOMAIN l : m + 1 \in DOMAIN v /\ v[m + 1] = l[m]
  BY <1>2, <1>3, MovedToFront, SMTT(30)
<1> HIDE DEF v
<1>5. ASSUME NEW r \in Repos \ excused', NEW n \in Nat, ForgeOf[r] = ForgeOf[x], Behind(r, n)
      PROVE  \E m \in DOMAIN v : v[m] = r /\ n < m
  <2>1. PICK k \in DOMAIN l : l[k] = r /\ n < k
    BY <1>5 DEF Behind
  <2>2. k + 1 \in DOMAIN v /\ v[k + 1] = r /\ n < k + 1
    BY <1>2, <1>4, <2>1
  <2> QED BY <2>2
<1>6. excused \subseteq excused' /\ excused' \subseteq Repos
  BY <1>1 DEF DiscoveryInv, DiscoveryTypes
<1>7. DocsAreKept' /\ docs' \in [Repos -> D!Status]
  BY <1>1, ListingFacts DEF DiscoveryInv, DocsAreKept
<1>8. \A r \in Repos \ excused', n \in Nat :
        ForgeOf[r] = ForgeOf[x] /\ Behind(r, n) /\ (n = 0 \/ D!Midway(ForgeOf[x])) => \E m \in DOMAIN v : v[m] = r /\ n < m
  BY <1>5
<1>9. v \in Seq(Repos) /\ \A j, k \in DOMAIN v : v[j] = v[k] => j = k
  BY <1>4
<1>10. \A k \in DOMAIN v : ForgeOf[v[k]] = ForgeOf[x]
  BY <1>4
<1> QED BY <1>1, <1>6, <1>7, <1>8, <1>9, <1>10, EnvironmentStep

(* A repository that changes its documentation is excused.                  *)
LEMMA ChangeDocsStep ==
  ASSUME DiscoveryInv, NEW x \in Repos, NEW s \in D!Status, D!ChangeDocs(x, s)
  PROVE  DiscoveryInv'
<1> DEFINE l == listing[ForgeOf[x]]
<1>1. /\ ForgeOf[x] \in setup.forges /\ docs' = [docs EXCEPT ![x] = s] /\ excused' = excused \cup {x}
      /\ UNCHANGED <<setup, listing, run, cache, tracked, removals, removed, raced, leftover>>
  BY DEF D!ChangeDocs, D!Change
<1>2. ForgeOf[x] \in Forges /\ l \in Seq(Repos) /\ docs \in [Repos -> D!Status]
  BY ListingFacts
<1>3. listing' = [listing EXCEPT ![ForgeOf[x]] = l]
  BY <1>1, <1>2 DEF DiscoveryInv, DiscoveryTypes
<1>4. /\ \A j, k \in DOMAIN l : l[j] = l[k] => j = k
      /\ \A k \in DOMAIN l : ForgeOf[l[k]] = ForgeOf[x]
  BY <1>2 DEF DiscoveryInv, ListingsAreSets
<1>5. \A r \in Repos \ excused', n \in Nat : ForgeOf[r] = ForgeOf[x] /\ Behind(r, n) => \E m \in DOMAIN l : l[m] = r /\ n < m
  BY DEF Behind
<1>6. excused \subseteq excused' /\ excused' \subseteq Repos
  BY <1>1 DEF DiscoveryInv, DiscoveryTypes
<1>7. docs' \in [Repos -> D!Status]
  BY <1>1, <1>2
<1>8. DocsAreKept'
  BY <1>1, <1>2 DEF DiscoveryInv, DocsAreKept
<1>9. \A r \in Repos \ excused', n \in Nat :
        ForgeOf[r] = ForgeOf[x] /\ Behind(r, n) /\ (n = 0 \/ D!Midway(ForgeOf[x])) => \E m \in DOMAIN l : l[m] = r /\ n < m
  BY <1>5
<1> HIDE DEF l
<1> QED BY <1>1, <1>2, <1>3, <1>4, <1>6, <1>7, <1>8, <1>9, EnvironmentStep

(* A forge's repositories as a sequence.                                    *)
LEMMA AllListed ==
  ASSUME NEW f \in Forges
  PROVE  /\ D!SetToSeq(D!At(f)) \in Seq(Repos)
         /\ \A k \in DOMAIN D!SetToSeq(D!At(f)) : ForgeOf[D!SetToSeq(D!At(f))[k]] = f
         /\ \A j, k \in DOMAIN D!SetToSeq(D!At(f)) : D!SetToSeq(D!At(f))[j] = D!SetToSeq(D!At(f))[k] => j = k
<1> DEFINE S == D!At(f)
           n == Cardinality(S)
           l == D!SetToSeq(S)
<1>1. S \subseteq Repos /\ \A r \in S : ForgeOf[r] = f
  BY DEF D!At
<1> HIDE DEF S
<1>2. IsFiniteSet(S)
  BY <1>1, FS_Subset, SourcesAssumption
<1>3. n \in Nat /\ ExistsBijection(1..n, S)
  BY <1>2, FS_CardinalityType
<1>4. D!Cardinality(S) = n
  BY SameCount
<1>5. l = CHOOSE g \in [1..n -> S] : D!IsInjective(g)
  BY <1>4 DEF D!SetToSeq
<1> HIDE DEF n
<1>6. \E g \in [1..n -> S] : D!IsInjective(g)
  <2>1. PICK g \in Bijection(1..n, S) : TRUE
    BY <1>3 DEF ExistsBijection
  <2>2. g \in [1..n -> S] /\ IsInjective(g)
    BY <2>1 DEF Bijection, Injection
  <2> QED BY <2>2 DEF D!IsInjective, IsInjective
<1>7. l \in [1..n -> S] /\ D!IsInjective(l)
  BY <1>5, <1>6
<1> HIDE DEF l
<1>8. l \in Seq(Repos) /\ DOMAIN l = 1..n
  BY <1>1, <1>3, <1>7
<1>9. \A k \in DOMAIN l : ForgeOf[l[k]] = f
  BY <1>1, <1>7, <1>8
<1>10. \A j, k \in DOMAIN l : l[j] = l[k] => j = k
  BY <1>7 DEF D!IsInjective
<1> QED BY <1>8, <1>9, <1>10 DEF l, S

(* The invariant holds before the first run, ...                            *)
LEMMA DiscoveryInit == D!Init => DiscoveryInv
<1> SUFFICES ASSUME D!Init PROVE DiscoveryInv
  OBVIOUS
<1>1. /\ setup \in Setups /\ docs = [r \in Repos |-> "docs"] /\ run = [i \in Runs |-> D!Idle]
      /\ cache = Unknown /\ tracked = {} /\ removals = <<>> /\ removed = {} /\ excused = {}
      /\ raced = FALSE /\ leftover = {}
      /\ listing = [f \in Forges |-> IF f \in setup.forges THEN D!SetToSeq(D!At(f)) ELSE <<>>]
  BY DEF D!Init
<1>2. DiscoveryTypes
  <2>1. listing \in [Forges -> Seq(Repos)]
    <3>1. <<>> \in Seq(Repos)
      OBVIOUS
    <3> QED BY <1>1, <3>1, AllListed
  <2>2. run \in [Runs -> RunStates]
    BY <1>1, IdleFacts
  <2>3. docs \in [Repos -> D!Status]
    BY <1>1 DEF D!Status
  <2>4. <<>> \in Seq(Repos)
    OBVIOUS
  <2> QED BY <1>1, <2>1, <2>2, <2>3, <2>4 DEF DiscoveryTypes
<1>3. ListingsAreSets
  <2> SUFFICES ASSUME NEW f \in Forges
               PROVE  /\ \A j, k \in DOMAIN listing[f] : listing[f][j] = listing[f][k] => j = k
                      /\ \A k \in DOMAIN listing[f] : ForgeOf[listing[f][k]] = f
                      /\ f \notin setup.forges => listing[f] = <<>>
    BY DEF ListingsAreSets
  <2>1. CASE f \in setup.forges
    <3>1. listing[f] = D!SetToSeq(D!At(f))
      BY <1>1, <2>1
    <3> QED BY <2>1, <3>1, AllListed
  <2>2. CASE f \notin setup.forges
    <3>1. listing[f] = <<>>
      BY <1>1, <2>2
    <3> QED BY <3>1
  <2> QED BY <2>1, <2>2
<1>4. DocsAreKept /\ removed \subseteq excused
  BY <1>1 DEF DocsAreKept
<1>5. Cached = {} /\ \A i \in Runs : run[i] = D!Idle
  BY <1>1 DEF Cached
<1>6. \A f \in Forges : D!Idle.scan[f].got = {} /\ D!Idle.scan[f].valid = {}
  BY IdleFacts
<1>7. KnownIsListed /\ RememberedIsMet
  BY <1>5, <1>6, IdleFacts DEF KnownIsListed, RememberedIsMet
<1>8. InSequence
  BY <1>1, <1>5, IdleFacts DEF InSequence, D!ToSet
<1> QED BY <1>2, <1>3, <1>4, <1>7, <1>8 DEF DiscoveryInv

(* ... every step of discovery keeps it, ...                                *)
LEMMA DiscoveryNext == DiscoveryInv /\ D!Next => DiscoveryInv'
<1> SUFFICES ASSUME DiscoveryInv, D!Next PROVE DiscoveryInv'
  OBVIOUS
<1>1. ASSUME NEW i \in Runs, D!RunStep(i) PROVE DiscoveryInv'
  <2>1. CASE D!StartRun(i)
    BY <2>1, StartRunStep
  <2>2. CASE D!UpdateCache(i)
    BY <2>2, UpdateCacheStep
  <2>3. CASE D!EnsureState(i)
    BY <2>3, EnsureStateStep
  <2>4. ASSUME NEW r \in Repos, D!NotifyRemoved(i, r) PROVE DiscoveryInv'
    BY <2>4, NotifyRemovedStep
  <2>5. ASSUME NEW f \in Forges, D!ListOrganizations(i, f) \/ D!ListPage(i, f) PROVE DiscoveryInv'
    BY <2>5, AskingSteps
  <2>6. ASSUME NEW f \in Forges, NEW r \in Repos, D!CheckRepository(i, f, r) PROVE DiscoveryInv'
    BY <2>6, CheckingSteps
  <2> QED BY <1>1, <2>1, <2>2, <2>3, <2>4, <2>5, <2>6 DEF D!RunStep
<1>2. ASSUME NEW i \in Runs, NEW f \in Forges, D!ListOrganizationsFails(i, f) \/ D!ListPageFails(i, f)
      PROVE  DiscoveryInv'
  BY <1>2, AskingSteps
<1>3. ASSUME NEW i \in Runs, NEW f \in Forges, NEW r \in Repos, D!CheckRepositoryFails(i, f, r) PROVE DiscoveryInv'
  BY <1>3, CheckingSteps
<1>4. CASE D!HandleRepoRemoved
  BY <1>4, HandleRepoRemovedStep
<1>5. ASSUME NEW r \in Repos, D!Activity(r) \/ D!Delete(r) \/ D!Create(r) PROVE DiscoveryInv'
  BY <1>5, ActivityStep, DeleteStep, CreateStep
<1>6. ASSUME NEW r \in Repos, NEW s \in D!Status, D!ChangeDocs(r, s) PROVE DiscoveryInv'
  BY <1>6, ChangeDocsStep, SMTT(30)
<1>7. CASE D!Restart
  BY <1>7, RestartStep
<1> QED BY <1>1, <1>2, <1>3, <1>4, <1>5, <1>6, <1>7 DEF D!Next

(* ... so does a step that is none of discovery, ...                        *)
LEMMA DiscoveryStutter == DiscoveryInv /\ UNCHANGED discoveryVars => DiscoveryInv'
<1> SUFFICES ASSUME DiscoveryInv, UNCHANGED discoveryVars PROVE DiscoveryInv'
  OBVIOUS
<1>1. UNCHANGED <<setup, listing, docs, run, cache, tracked, removals, removed, excused, raced, leftover>>
  BY DEF discoveryVars
<1>2. \A r, k : Behind(r, k)' <=> Behind(r, k)
  BY <1>1, SameBehind
<1>3. Cached' = Cached /\ Unnotified' = Unnotified
  BY <1>1 DEF Cached, Unnotified
<1> QED BY <1>1, <1>2, <1>3 DEF DiscoveryInv, DiscoveryTypes, ListingsAreSets, DocsAreKept, KnownIsListed,
             RememberedIsMet, StillMet, InSequence

(* The invariant of discovery implies its two properties.                   *)
LEMMA DiscoveryHolds == DiscoveryInv => D!PresentIsNotRemoved /\ D!TrackedIsFound
<1> SUFFICES ASSUME DiscoveryInv PROVE D!PresentIsNotRemoved /\ D!TrackedIsFound
  OBVIOUS
<1> USE DEF DiscoveryInv
<1>1. D!PresentIsNotRemoved
  BY DEF D!PresentIsNotRemoved
<1>2. ASSUME ~raced, ~D!Busy, cache # Unknown PROVE cache \subseteq tracked /\ tracked \subseteq cache \cup leftover
  <2>1. removals = <<>> /\ \A i \in Runs : run[i].at = "idle"
    BY <1>2 DEF D!Busy
  <2>2. Cached = cache /\ Unnotified = {} /\ D!ToSet(removals) = {}
    BY <1>2, <2>1 DEF Cached, Unnotified, D!ToSet
  <2> QED BY <1>2, <2>1, <2>2 DEF InSequence
<1> QED BY <1>1, <1>2 DEF D!TrackedIsFound

-----------------------------------------------------------------------------
(* The working copy of one repository (GitClient).                          *)

(* Where a fetch is, and what is then known of the local repository: a fetch *)
(* that is under way has no result; there is a .git to update, and one with *)
(* commits from the checkout of the branch on; what is checked out came from*)
(* the remote during this fetch; an interrupted clone is one of a kill.     *)
GitInv ==
  /\ hardReset \in BOOLEAN /\ remote \in Commits /\ seen \subseteq Commits /\ errors \in Nat /\ kills \in Nat
  /\ dir \in {"absent", "partial", "repo"}
  /\ result # None => pc = "idle"
  /\ pc # "idle" => remote \in seen
  /\ pc \in {"fetch", "checkout"} => dir # "absent"
  /\ pc \in {"sync", "synced"} => dir = "repo" /\ head = None
  /\ pc = "pin" => dir = "repo" /\ plan.pin # None
  /\ pc \in {"checkout", "sync"} => tracking \in seen
  /\ pc = "synced" => branch \in seen
  /\ pc = "clone" => branch = None
  /\ dir = "partial" => kills > 0
  /\ G!FetchedIsCurrent /\ G!ResetAlwaysUpdates

(* A repository that was never fetched.                                     *)
LEMMA GitInit == G!Init => GitInv
<1> SUFFICES ASSUME G!Init PROVE GitInv
  OBVIOUS
<1>1. None \notin Commits /\ First \in Commits /\ None # "failed"
  BY SourcesAssumption
<1>2. /\ hardReset \in BOOLEAN /\ remote = First /\ dir = "absent" /\ pc = "idle" /\ result = None /\ seen = {}
      /\ errors = 0 /\ kills = 0
  BY DEF G!Init
<1> QED BY <1>1, <1>2 DEF GitInv, G!FetchedIsCurrent, G!ResetAlwaysUpdates

(* What the end of an attempt leaves.                                       *)
LEMMA RetryFacts ==
  ASSUME NEW class, G!Retry(class)
  PROVE  \/ pc' = "choose" /\ result' = result
         \/ pc' = "idle" /\ result' = "failed"
BY DEF G!Retry, G!Go, G!End

(* Every step of GitClient.                                                 *)
LEMMA GitNext == GitInv /\ (G!Next \/ UNCHANGED gitVars) => GitInv'
<1> SUFFICES ASSUME GitInv, G!Next \/ UNCHANGED gitVars PROVE GitInv'
  OBVIOUS
<1> USE SourcesAssumption DEF GitInv, G!FetchedIsCurrent, G!ResetAlwaysUpdates, G!Tree
<1>1. ASSUME NEW s \in G!Strategies, NEW p \in Pins \cup {None}, G!Begin(s, p) PROVE GitInv'
  <2>1. /\ plan'.pin = p /\ seen' = {remote} /\ result' = None
        /\ pc' = IF p # None /\ dir = "repo" THEN "pin" ELSE "choose"
        /\ UNCHANGED <<hardReset, remote, dir, objects, branch, tracking, head, errors, kills>>
    BY <1>1 DEF G!Begin, G!Go, G!local
  <2> QED BY <2>1
<1>2. CASE G!PinLocal
  BY <1>2 DEF G!PinLocal, G!Go, G!End
<1>3. CASE G!Choose
  BY <1>3 DEF G!Choose, G!Go, G!local
<1>4. CASE G!Clear
  BY <1>4 DEF G!Clear, G!Go
<1>5. CASE G!Clone
  BY <1>5 DEF G!Clone, G!Go
<1>6. CASE G!FetchOrigin
  BY <1>6 DEF G!FetchOrigin, G!Go
<1>7. CASE G!Checkout
  BY <1>7, RetryFacts DEF G!Checkout, G!Go
<1>8. CASE G!SyncWithRemote
  BY <1>8, RetryFacts DEF G!SyncWithRemote, G!Go
<1>9. CASE G!Finish
  BY <1>9 DEF G!Finish, G!Go, G!End
<1>10. ASSUME NEW class, G!RemoteFails(class) PROVE GitInv'
  BY <1>10, RetryFacts DEF G!RemoteFails, G!local
<1>11. ASSUME NEW c \in Commits, G!Push(c) PROVE GitInv'
  BY <1>11 DEF G!Push, G!local
<1>12. CASE G!Kill
  BY <1>12 DEF G!Kill, G!End
<1>13. CASE UNCHANGED gitVars
  BY <1>13 DEF gitVars
<1> QED BY <1>1, <1>2, <1>3, <1>4, <1>5, <1>6, <1>7, <1>8, <1>9, <1>10, <1>11, <1>12, <1>13 DEF G!Next, G!FetchStep

(* Only the fast-forward of syncWithRemote moves a branch that is there, and *)
(* it found the branch among the ancestors of the remote's; a clone comes    *)
(* after the removal of what was there.                                     *)
LEMMA BranchStep == GitInv /\ (G!Next \/ UNCHANGED gitVars) => G!BranchMovesForward
<1> SUFFICES ASSUME GitInv, G!Next \/ UNCHANGED gitVars, ~hardReset, branch \in Commits, branch' \in Commits \ {branch}
             PROVE  branch \in G!Ancestors(branch')
  BY DEF G!BranchMovesForward
<1>1. branch' # branch => G!Clear \/ G!Clone \/ G!SyncWithRemote
  BY DEF G!Next, G!FetchStep, G!Begin, G!PinLocal, G!Choose, G!FetchOrigin, G!Checkout, G!Finish, G!RemoteFails, G!Push,
         G!Kill, G!local, gitVars
<1>2. ~G!Clear /\ ~G!Clone
  BY SourcesAssumption DEF G!Clear, G!Clone, GitInv
<1>3. G!IsAncestor(branch, tracking) /\ branch' = tracking
  BY <1>1, <1>2 DEF G!SyncWithRemote
<1> QED BY <1>3, Zenon DEF G!IsAncestor, G!Ancestors

-----------------------------------------------------------------------------
(* Webhooks.                                                                *)

Accepted(d) == msg[d] \in W!Messages /\ W!Validates(msg[d])

(* A delivery past the handler was accepted, and an update was requested for *)
(* a repository that it names.                                              *)
WebhookInv ==
  /\ known \subseteq Pushed
  /\ at \in [Deliveries -> W!Ended \cup {"new", "published", "waiting"}]
  /\ msg \in [Deliveries -> W!Messages \cup {None}] /\ match \in [Deliveries -> Pushed \cup {None}]
  /\ \A d \in Deliveries :
       /\ at[d] \notin {"new", "rejected", "ignored"} => Accepted(d)
       /\ at[d] = "requested" =>
            /\ match[d] \in Pushed /\ W!SameHost(Host[msg[d].repo], match[d])
            /\ W!MatchesFullName(match[d], Path[msg[d].repo])

(* No delivery has come yet.                                                *)
LEMMA WebhookInit == W!Init => WebhookInv
BY DEF W!Init, WebhookInv, W!Ended

(* The repository that a forge reports is matched as soon as it is known.   *)
LEMMA SenderMatches ==
  ASSUME NEW m \in W!Messages, m.repo \in known, known \subseteq Pushed, W!Branch(m) \in {None, Main}
  PROVE  m.repo \in W!Matches(m)
<1> DEFINE r == m.repo
           p == W!Reverse(Path[r])
<1>1. r \in Pushed /\ Path[r] \in Seq(STRING) /\ Len(Path[r]) \in Nat
  BY SourcesAssumption
<1>2. p \in Seq(STRING) /\ Len(p) \in Nat
  BY <1>1 DEF W!Reverse
<1>3. W!MatchesFullName(r, Path[r])
  BY <1>2 DEF W!MatchesFullName, W!IsSuffix, W!IsPrefix
<1>4. W!SameHost(Host[r], r)
  BY DEF W!SameHost
<1> QED BY <1>3, <1>4 DEF W!Matches

(* Every step of Webhooks.                                                  *)
LEMMA WebhookNext == WebhookInv /\ (W!Next \/ UNCHANGED webhookVars) => WebhookInv'
<1> SUFFICES ASSUME WebhookInv, W!Next \/ UNCHANGED webhookVars PROVE WebhookInv'
  OBVIOUS
<1> USE DEF WebhookInv, Accepted, W!Validates, W!GitHubValid, W!GitLabValid, W!ForgejoValid, W!SameHost, W!MatchesFullName
<1>1. ASSUME NEW d \in Deliveries, NEW m \in W!Messages, W!Deliver(d, m) PROVE WebhookInv'
  BY <1>1 DEF W!Deliver, W!Ended
<1>2. ASSUME NEW d \in Deliveries, W!Consume(d) PROVE WebhookInv'
  <2>1. at[d] = "published" /\ UNCHANGED <<known, msg, mode>>
    BY <1>2 DEF W!Consume
  <2>2. \/ \E a \in {"unmatched", "branch", "irrelevant"} : at' = [at EXCEPT ![d] = a] /\ match' = match
        \/ \E r \in W!Matches(msg[d]) : at' = [at EXCEPT ![d] = "requested"] /\ match' = [match EXCEPT ![d] = r]
    BY <1>2 DEF W!Consume
  <2>3. \A r \in W!Matches(msg[d]) : /\ r \in Pushed /\ W!SameHost(Host[msg[d].repo], r)
                                   /\ W!MatchesFullName(r, Path[msg[d].repo])
    BY DEF W!Matches
  <2>4. Accepted(d)
    BY <2>1
  <2> HIDE DEF W!Validates, W!SameHost, W!MatchesFullName
  <2>5. \A e \in Deliveries : Accepted(e)' <=> Accepted(e)
    BY <2>1 DEF W!Validates
  <2> HIDE DEF Accepted
  <2>6. ASSUME NEW a \in {"unmatched", "branch", "irrelevant"}, at' = [at EXCEPT ![d] = a], match' = match PROVE WebhookInv'
    BY <2>1, <2>4, <2>5, <2>6 DEF W!Ended, W!SameHost, W!MatchesFullName
  <2>7. ASSUME NEW r \in W!Matches(msg[d]), at' = [at EXCEPT ![d] = "requested"], match' = [match EXCEPT ![d] = r]
        PROVE  WebhookInv'
    BY <2>1, <2>3, <2>4, <2>5, <2>7 DEF W!Ended, W!SameHost, W!MatchesFullName
  <2> QED BY <2>2, <2>6, <2>7
<1>3. ASSUME NEW d \in Deliveries, W!ConsumeUnknown(d) \/ W!Tick(d) \/ W!GiveUp(d) PROVE WebhookInv'
  <2>1. at[d] \in {"published", "waiting"} /\ UNCHANGED <<known, msg, match, mode>>
    BY <1>3 DEF W!ConsumeUnknown, W!Tick, W!GiveUp
  <2>2. at' = at \/ \E a \in {"waiting", "published", "gave up"} : at' = [at EXCEPT ![d] = a]
    BY <1>3 DEF W!ConsumeUnknown, W!Tick, W!GiveUp
  <2>3. Accepted(d)
    BY <2>1
  <2> HIDE DEF W!Validates, W!SameHost, W!MatchesFullName
  <2>4. \A e \in Deliveries : Accepted(e)' <=> Accepted(e)
    BY <2>1 DEF W!Validates
  <2> HIDE DEF Accepted
  <2>5. CASE at' = at
    BY <2>1, <2>4, <2>5 DEF W!SameHost, W!MatchesFullName
  <2>6. ASSUME NEW a \in {"waiting", "published", "gave up"}, at' = [at EXCEPT ![d] = a] PROVE WebhookInv'
    BY <2>1, <2>3, <2>4, <2>6 DEF W!Ended, W!SameHost, W!MatchesFullName
  <2> QED BY <2>2, <2>5, <2>6
<1>4. ASSUME NEW R \in SUBSET Pushed, W!Discovered(R) PROVE WebhookInv'
  BY <1>4 DEF W!Discovered
<1>5. CASE W!DiscoveryTick
  BY <1>5 DEF W!DiscoveryTick
<1>6. CASE UNCHANGED webhookVars
  BY <1>6 DEF webhookVars
<1> QED BY <1>1, <1>2, <1>3, <1>4, <1>5, <1>6 DEF W!Next, W!Step

(* What was requested is of the sender: two repositories of one host, of which*)
(* one path ends in the other, are one unless that is ambiguous.            *)
LEMMA WebhookHolds == WebhookInv => W!UpdateIsSenders
<1> SUFFICES ASSUME WebhookInv, NEW d \in Deliveries, at[d] = "requested"
             PROVE  /\ Host[msg[d].repo] \in Secret => msg[d].signature # "wrong"
                    /\ (Host[msg[d].repo] \in BaseURL /\ ~W!Ambiguous(Host[msg[d].repo])) => match[d] = msg[d].repo
  BY DEF W!UpdateIsSenders
<1>1. /\ Accepted(d) /\ match[d] \in Pushed /\ W!SameHost(Host[msg[d].repo], match[d])
      /\ W!MatchesFullName(match[d], Path[msg[d].repo])
  BY DEF WebhookInv
<1>2. Host[msg[d].repo] \in Secret => msg[d].signature # "wrong"
  BY <1>1 DEF Accepted, W!Validates, W!GitHubValid, W!GitLabValid, W!ForgejoValid
<1>3. msg[d].repo \in Pushed
  BY <1>1 DEF Accepted, W!Messages
<1>4. (Host[msg[d].repo] \in BaseURL /\ ~W!Ambiguous(Host[msg[d].repo])) => match[d] = msg[d].repo
  BY <1>1, <1>3 DEF W!SameHost, W!MatchesFullName, W!Ambiguous
<1> QED BY <1>2, <1>4

(* An event is dropped as unmatched by Consume only, which looked for it.   *)
LEMMA UnmatchedStep ==
  ASSUME WebhookInv, W!Next \/ UNCHANGED webhookVars, NEW d \in Deliveries
  PROVE  W!UnmatchedIsUnknown(d)
<1> SUFFICES ASSUME at'[d] = "unmatched", at[d] # "unmatched"
             PROVE  known # {} /\ (msg[d].repo \notin known \/ W!Branch(msg[d]) \notin {None, Main})
  BY DEF W!UnmatchedIsUnknown
<1>1. at \in [Deliveries -> W!Ended \cup {"new", "published", "waiting"}]
  BY DEF WebhookInv
<1>2. PICK e \in Deliveries : W!Step(e) \/ \E m \in W!Messages : W!Deliver(e, m)
  BY DEF W!Next, W!Discovered, W!DiscoveryTick, webhookVars
<1>3. W!Consume(e) /\ e = d
  BY <1>1, <1>2 DEF W!Step, W!Deliver, W!Consume, W!ConsumeUnknown, W!Tick, W!GiveUp
<1>4. known # {} /\ at[d] = "published" /\ W!Matches(msg[d]) = {}
  BY <1>1, <1>3 DEF W!Consume
<1>5. msg[d] \in W!Messages /\ known \subseteq Pushed
  BY <1>4 DEF WebhookInv, Accepted
<1> QED BY <1>4, <1>5, SenderMatches

-----------------------------------------------------------------------------
(* The invariant of the composition: a behaviour of a part has its part's.  *)
SourcesInv ==
  /\ part \in {"discovery", "webhook", "git"}
  /\ part = "discovery" => DiscoveryInv
  /\ part = "webhook" => WebhookInv
  /\ part = "git" => GitInv

(* It holds, whatever the parts' constants are.                             *)
LEMMA SourcesInvariant == Spec => []SourcesInv
<1>1. Init => SourcesInv
  BY DiscoveryInit, WebhookInit, GitInit DEF Init, SourcesInv
<1>2. SourcesInv /\ [Next]_vars => SourcesInv'
  <2> SUFFICES ASSUME SourcesInv, [Next]_vars PROVE SourcesInv'
    OBVIOUS
  <2>1. part' = part
    BY DEF Next, vars
  <2>2. ASSUME part = "discovery" PROVE DiscoveryInv'
    <3>1. D!Next \/ UNCHANGED discoveryVars
      BY <2>2 DEF Next, vars
    <3> QED BY <2>2, <3>1, DiscoveryNext, DiscoveryStutter DEF SourcesInv
  <2>3. ASSUME part = "webhook" PROVE WebhookInv'
    <3>1. W!Next \/ UNCHANGED webhookVars
      BY <2>3 DEF Next, vars
    <3> QED BY <2>3, <3>1, WebhookNext DEF SourcesInv
  <2>4. ASSUME part = "git" PROVE GitInv'
    <3>1. G!Next \/ UNCHANGED gitVars
      BY <2>4 DEF Next, vars
    <3> QED BY <2>4, <3>1, GitNext DEF SourcesInv
  <2> QED BY <2>1, <2>2, <2>3, <2>4 DEF SourcesInv
<1> QED BY <1>1, <1>2, PTL DEF Spec

(* A repository that kept its documentation, on a forge that answered and   *)
(* whose listing did not shift while it was read, is never reported as removed,*)
(* however discovery runs overlap; and runs in sequence leave the state     *)
(* tracking what the last one found (DiscoverAll, onDiscoveryRepoRemoved,   *)
(* handleRepoRemoved), for any forges, repositories, page size and runs.    *)
THEOREM RemovalsAreReal == Spec => []RemovalIsReal
<1>1. SourcesInv => RemovalIsReal
  BY DiscoveryHolds DEF SourcesInv, RemovalIsReal
<1> QED BY <1>1, SourcesInvariant, PTL

(* A fetch that succeeds leaves the working copy at the pinned commit, or at *)
(* a head that the remote had while the fetch ran (Fetch, updateExistingRepo),*)
(* and with hard reset only a fault, a kill or a pinned commit that is not   *)
(* in the history fails one: for any history, pushes, faults, kills, retries *)
(* and depth.  The safety half of FetchedIsCurrent.                          *)
THEOREM FetchesAreCurrent == Spec => [](part = "git" => G!FetchedIsCurrent /\ G!ResetAlwaysUpdates)
<1>1. SourcesInv => (part = "git" => G!FetchedIsCurrent /\ G!ResetAlwaysUpdates)
  BY DEF SourcesInv, GitInv
<1> QED BY <1>1, SourcesInvariant, PTL

(* Without hard_reset_on_diverge the local branch moves to a descendant only *)
(* (syncWithRemote), or is cloned anew: an action property, part of          *)
(* FetchedIsCurrent.                                                         *)
THEOREM BranchesMoveForward == Spec => [][part = "git" => G!BranchMovesForward]_vars
<1>1. SourcesInv /\ [Next]_vars => (part = "git" => G!BranchMovesForward)
  <2> SUFFICES ASSUME SourcesInv, [Next]_vars, part = "git" PROVE G!BranchMovesForward
    OBVIOUS
  <2>1. G!Next \/ UNCHANGED gitVars
    BY DEF Next, vars
  <2> QED BY <2>1, BranchStep DEF SourcesInv
<1> QED BY <1>1, SourcesInvariant, PTL DEF Spec

(* A webhook's update is of the repository whose forge sent it, signed where *)
(* there is a secret (validateWebhookSignature, matchWebhookRepo), if the    *)
(* forge has a base URL and no path of its repositories ends in another's:   *)
(* for any repositories, deliveries and discovery results.  A part of        *)
(* WebhookIsDecided.                                                         *)
THEOREM UpdatesAreSenders == Spec => [](part = "webhook" => W!UpdateIsSenders)
<1>1. SourcesInv => (part = "webhook" => W!UpdateIsSenders)
  BY WebhookHolds DEF SourcesInv
<1> QED BY <1>1, SourcesInvariant, PTL

(* An event is dropped as unmatched only while repositories are known and its*)
(* sender is not one of them, whenever discovery ends (handleWebhookReceived):*)
(* an action property, a part of WebhookIsDecided.                           *)
THEOREM DroppedAreUnknown == Spec => [][part = "webhook" => \A d \in Deliveries : W!UnmatchedIsUnknown(d)]_vars
<1>1. SourcesInv /\ [Next]_vars => (part = "webhook" => \A d \in Deliveries : W!UnmatchedIsUnknown(d))
  <2> SUFFICES ASSUME SourcesInv, [Next]_vars, part = "webhook", NEW d \in Deliveries PROVE W!UnmatchedIsUnknown(d)
    OBVIOUS
  <2>1. W!Next \/ UNCHANGED webhookVars
    BY DEF Next, vars
  <2> QED BY <2>1, UnmatchedStep DEF SourcesInv
<1> QED BY <1>1, SourcesInvariant, PTL DEF Spec

=============================================================================
