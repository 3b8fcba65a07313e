---------------------------- MODULE RecordsProofs ----------------------------
(***************************************************************************)
(* Proofs about the records that outlive a build, for any repositories,     *)
(* callers, configurations, versions and trees, any number of writes, runs  *)
(* and restarts: what skip evaluation decides from (SkipRecords), what the  *)
(* state store promises (StateStore), and that the build history is what a  *)
(* replay of the event log gives (BuildHistory).                            *)
(***************************************************************************)
EXTENDS MCRecords, FiniteSetTheorems, WellFoundedInduction, TLAPS

-----------------------------------------------------------------------------
(* Skip evaluation.                                                        *)

PostFields == {"config", "docs", "commit"}

(* The shapes of the records; a posting job has fields of the state left    *)
(* that updateStateAfterBuild writes, and "repo" is none of them.           *)
SkipTypes ==
  /\ injected \in BOOLEAN
  /\ config \in Configs /\ version \in Versions /\ tree \in Trees
  /\ report \in K!Reports \cup {Nothing} /\ out \in K!Sites \cup {Nothing}
  /\ state \in [K!Fields -> Configs \cup Trees \cup K!Reports \cup {Nothing}]
  /\ at \in {"idle", "built", "promoted"}
  /\ at # "idle" => job \in K!Reports
  /\ posting \subseteq [report : K!Reports, left : Seq(PostFields)]

(* A build that has been promoted and not reported yet is the site.         *)
PromotedIsJob ==
  at = "promoted" => out = [config |-> job.config, version |-> job.version, docs |-> job.docs]

(* A job names a version and a configuration; only a skip report does not.  *)
JobIsNamed == at # "idle" => job.version \in Versions /\ job.config \in Configs

(* The hash of the repository's files is stored by the generator alone.     *)
RepoHashNeedsState == ~injected => state["repo"] = Nothing

SkipInv ==
  /\ SkipTypes /\ PromotedIsJob /\ JobIsNamed /\ RepoHashNeedsState
  /\ K!ReportDescribesSite /\ K!SkippedIsThisVersion /\ K!NoSkipWithoutState

LEMMA SkipInit == K!Init => SkipInv
<1> SUFFICES ASSUME K!Init PROVE SkipInv
  OBVIOUS
<1>1. SkipTypes
  BY DEF K!Init, SkipTypes
<1> QED BY <1>1 DEF K!Init, K!Fields, SkipInv, PromotedIsJob, JobIsNamed, RepoHashNeedsState,
           K!ReportDescribesSite, K!SkippedIsThisVersion, K!NoSkipWithoutState

(* A skip is answered with a site of this version, and needs a stored hash. *)
LEMMA SkipBuildStep == ASSUME SkipInv, K!SkipBuild PROVE SkipInv'
<1> USE RecordsAssumption
<1> DEFINE new == [report EXCEPT !.config = Nothing, !.version = Nothing, !.outcome = "success"]
<1>1. /\ report' = new /\ skipped' = out /\ at = "idle"
      /\ state' = [state EXCEPT !["checksum"] = new, !["docs"] = new.docs]
      /\ posting' = posting \cup {[report |-> new, left |-> <<"docs", "commit">>]}
      /\ UNCHANGED <<injected, config, version, tree, out, at, job>>
  BY DEF K!SkipBuild, K!Free
<1>2. report # Nothing /\ report.version = version /\ out # Nothing /\ state["repo"] = report.docs
  BY DEF K!SkipBuild, K!Evaluate, K!PreviousReport, K!VersionMismatchRule, K!PublicDirectoryRule,
     K!PerRepoDocHashRule
<1>3. report \in K!Reports /\ report.docs \in Trees /\ out \in K!Sites
  BY <1>2 DEF SkipInv, SkipTypes, K!Reports
<1>4. new \in K!Reports /\ new.docs = report.docs /\ new.version = Nothing
  BY <1>3 DEF K!Reports
<1> HIDE DEF new
<1>5. [report |-> new, left |-> <<"docs", "commit">>] \in [report : K!Reports, left : Seq(PostFields)]
  BY <1>4 DEF PostFields
<1>6. state' \in [K!Fields -> Configs \cup Trees \cup K!Reports \cup {Nothing}] /\ state'["repo"] = state["repo"]
  BY <1>1, <1>3, <1>4 DEF SkipInv, SkipTypes, K!Fields
<1>7. SkipTypes'
  BY <1>1, <1>4, <1>5, <1>6 DEF SkipInv, SkipTypes
<1>8. out.version = version /\ injected
  BY <1>2, <1>3 DEF SkipInv, SkipTypes, K!ReportDescribesSite, RepoHashNeedsState
<1>9. K!ReportDescribesSite' /\ K!SkippedIsThisVersion' /\ K!NoSkipWithoutState'
  BY <1>1, <1>2, <1>4, <1>8 DEF SkipInv, K!ReportDescribesSite, K!SkippedIsThisVersion, K!NoSkipWithoutState
<1>10. PromotedIsJob' /\ JobIsNamed' /\ RepoHashNeedsState'
  BY <1>1, <1>8 DEF PromotedIsJob, JobIsNamed, RepoHashNeedsState
<1> QED BY <1>7, <1>9, <1>10 DEF SkipInv

(* The steps of a build under the adapter's lock.                           *)
LEMMA SkipRunStep ==
  ASSUME SkipInv,
         \/ \E outcome \in {"success", "warning"} : K!StartBuild(outcome)
         \/ K!BuildFails \/ K!Promote \/ \E ok \in BOOLEAN : K!PersistReport(ok)
  PROVE  SkipInv'
<1> USE RecordsAssumption
<1>1. ASSUME NEW outcome \in {"success", "warning"}, K!StartBuild(outcome) PROVE SkipInv'
  <2>1. /\ at = "idle" /\ at' = "built"
        /\ job' = [config |-> config, version |-> version, docs |-> tree, outcome |-> outcome]
        /\ state' = IF injected THEN [state EXCEPT !["repo"] = tree] ELSE state
        /\ UNCHANGED <<injected, config, version, tree, out, report, posting, skipped>>
    BY <1>1 DEF K!StartBuild, K!Free
  <2>2. job' \in K!Reports
    BY <2>1 DEF SkipInv, SkipTypes, K!Reports
  <2>3. SkipTypes'
    BY <2>1, <2>2 DEF SkipInv, SkipTypes, K!Fields
  <2> QED BY <2>1, <2>3 DEF SkipInv, SkipTypes, PromotedIsJob, JobIsNamed, RepoHashNeedsState,
             K!ReportDescribesSite, K!SkippedIsThisVersion, K!NoSkipWithoutState
<1>2. CASE K!BuildFails
  BY <1>2 DEF K!BuildFails, SkipInv, SkipTypes, PromotedIsJob, JobIsNamed, RepoHashNeedsState,
      K!ReportDescribesSite, K!SkippedIsThisVersion, K!NoSkipWithoutState
<1>3. CASE K!Promote
  <2>1. out' \in K!Sites
    BY <1>3 DEF K!Promote, SkipInv, SkipTypes, JobIsNamed, K!Reports, K!Sites
  <2> QED BY <1>3, <2>1 DEF K!Promote, SkipInv, SkipTypes, PromotedIsJob, JobIsNamed, RepoHashNeedsState,
             K!ReportDescribesSite, K!SkippedIsThisVersion, K!NoSkipWithoutState
<1>4. ASSUME NEW ok \in BOOLEAN, K!PersistReport(ok) PROVE SkipInv'
  <2>1. /\ at = "promoted" /\ at' = "idle" /\ report' \in {report, job}
        /\ UNCHANGED <<injected, config, version, tree, out, state, skipped>>
    BY <1>4 DEF K!PersistReport
  <2>2. job \in K!Reports /\ out \in K!Sites /\ out.docs = job.docs /\ out.version = job.version
    BY <2>1 DEF SkipInv, SkipTypes, PromotedIsJob, JobIsNamed, K!Reports, K!Sites
  <2>3. posting' \subseteq [report : K!Reports, left : Seq(PostFields)]
    <3>1. <<"config", "docs", "commit">> \in Seq(PostFields)
      BY DEF PostFields
    <3>2. [report |-> job, left |-> <<"config", "docs", "commit">>] \in [report : K!Reports, left : Seq(PostFields)]
      BY <2>2, <3>1
    <3> QED BY <1>4, <3>2 DEF K!PersistReport, SkipInv, SkipTypes
  <2>4. SkipTypes'
    BY <2>1, <2>2, <2>3 DEF SkipInv, SkipTypes
  <2>5. out # Nothing
    BY <2>2 DEF K!Sites
  <2> QED BY <2>1, <2>2, <2>4, <2>5 DEF SkipInv, PromotedIsJob, JobIsNamed, RepoHashNeedsState,
             K!ReportDescribesSite, K!SkippedIsThisVersion, K!NoSkipWithoutState
<1> QED BY <1>1, <1>2, <1>3, <1>4

(* What happens beside a build: a state update, a push, a restart.          *)
LEMMA SkipEnvironmentStep ==
  ASSUME SkipInv,
         \/ \E p \in posting : K!UpdateStateAfterBuild(p)
         \/ \E t \in Trees : K!Push(t)
         \/ \E c \in Configs, v \in Versions : K!Restart(c, v)
         \/ UNCHANGED skipVars
  PROVE  SkipInv'
<1> USE RecordsAssumption
<1>1. ASSUME NEW p \in posting, K!UpdateStateAfterBuild(p) PROVE SkipInv'
  <2>1. p \in [report : K!Reports, left : Seq(PostFields)] /\ p.left # <<>>
    BY <1>1 DEF K!UpdateStateAfterBuild, SkipInv, SkipTypes
  <2>2. Head(p.left) \in PostFields /\ Tail(p.left) \in Seq(PostFields)
    BY <2>1
  <2>3. PICK v \in {p.report.config, p.report.docs, tree} : state' = [state EXCEPT ![Head(p.left)] = v]
    BY <1>1 DEF K!UpdateStateAfterBuild
  <2>4. v \in Configs \cup Trees \cup {Nothing}
    BY <2>1, <2>3 DEF K!Reports, SkipInv, SkipTypes
  <2>5. [p EXCEPT !.left = Tail(@)] \in [report : K!Reports, left : Seq(PostFields)]
    BY <2>1, <2>2
  <2>6. posting' \subseteq [report : K!Reports, left : Seq(PostFields)]
    BY <1>1, <2>5 DEF K!UpdateStateAfterBuild, SkipInv, SkipTypes
  <2>7. UNCHANGED <<injected, config, version, tree, out, report, at, job, skipped>>
    BY <1>1 DEF K!UpdateStateAfterBuild
  <2>8. SkipTypes' /\ state'["repo"] = state["repo"]
    BY <2>2, <2>3, <2>4, <2>6, <2>7 DEF SkipInv, SkipTypes, K!Fields, PostFields
  <2> QED BY <2>7, <2>8 DEF SkipInv, PromotedIsJob, JobIsNamed, RepoHashNeedsState,
             K!ReportDescribesSite, K!SkippedIsThisVersion, K!NoSkipWithoutState
<1>2. ASSUME NEW t \in Trees, K!Push(t) PROVE SkipInv'
  BY <1>2 DEF K!Push, SkipInv, SkipTypes, PromotedIsJob, JobIsNamed, RepoHashNeedsState,
      K!ReportDescribesSite, K!SkippedIsThisVersion, K!NoSkipWithoutState
<1>3. ASSUME NEW c \in Configs, NEW v \in Versions, K!Restart(c, v) PROVE SkipInv'
  BY <1>3 DEF K!Restart, SkipInv, SkipTypes, PromotedIsJob, JobIsNamed, RepoHashNeedsState,
      K!ReportDescribesSite, K!SkippedIsThisVersion, K!NoSkipWithoutState
<1>4. CASE UNCHANGED skipVars
  BY <1>4 DEF skipVars, SkipInv, SkipTypes, PromotedIsJob, JobIsNamed, RepoHashNeedsState,
      K!ReportDescribesSite, K!SkippedIsThisVersion, K!NoSkipWithoutState
<1> QED BY <1>1, <1>2, <1>3, <1>4

(* The skip rules decide from records that belong together, across crashes  *)
(* between publication, report and state: a skipped request is answered     *)
(* with a site of this version, and as the daemon is wired none is skipped. *)
THEOREM SkipsAreJustified == Spec => []SkipIsJustified
<1> DEFINE I == part = "skip" => SkipInv
<1>1. Init => I
  BY SkipInit DEF Init
<1>2. I /\ [Next]_vars => I'
  BY SkipBuildStep, SkipRunStep, SkipEnvironmentStep DEF Next, K!Next, vars
<1>3. I => SkipIsJustified
  BY DEF SkipInv, SkipIsJustified
<1> QED BY <1>1, <1>2, <1>3, PTL DEF Spec

-----------------------------------------------------------------------------
(* The state store.                                                        *)

(* A store map: its keys are known and its entries have their type.         *)
LEMMA PartialElement ==
  ASSUME NEW A, NEW T, NEW f
  PROVE  f \in S!Partial(A, T) <=> DOMAIN f \subseteq A /\ f \in [DOMAIN f -> T]
<1>1. ASSUME f \in S!Partial(A, T) PROVE DOMAIN f \subseteq A /\ f \in [DOMAIN f -> T]
  BY <1>1 DEF S!Partial
<1>2. ASSUME DOMAIN f \subseteq A, f \in [DOMAIN f -> T] PROVE f \in S!Partial(A, T)
  BY <1>2 DEF S!Partial
<1> QED BY <1>1, <1>2

(* Writing an entry.                                                        *)
LEMMA WithEntry ==
  ASSUME NEW A, NEW T, NEW f \in S!Partial(A, T), NEW k \in A, NEW v \in T
  PROVE  /\ S!With(f, k, v) \in S!Partial(A, T)
         /\ DOMAIN S!With(f, k, v) = DOMAIN f \cup {k}
         /\ S!With(f, k, v)[k] = v
         /\ \A x \in DOMAIN f : x # k => S!With(f, k, v)[x] = f[x]
<1>1. DOMAIN f \subseteq A /\ f \in [DOMAIN f -> T]
  BY PartialElement
<1>2. DOMAIN S!With(f, k, v) = DOMAIN f \cup {k} /\ S!With(f, k, v) \in [DOMAIN f \cup {k} -> T]
  BY <1>1 DEF S!With
<1>3. S!With(f, k, v) \in S!Partial(A, T)
  BY <1>1, <1>2, PartialElement
<1> QED BY <1>1, <1>2, <1>3 DEF S!With

(* Keeping some of the entries.                                             *)
LEMMA RestrictedMap ==
  ASSUME NEW A, NEW T, NEW f \in S!Partial(A, T), NEW D \in SUBSET DOMAIN f
  PROVE  /\ S!Restrict(f, D) \in S!Partial(A, T) /\ DOMAIN S!Restrict(f, D) = D
         /\ \A x \in D : S!Restrict(f, D)[x] = f[x]
<1>1. DOMAIN f \subseteq A /\ f \in [DOMAIN f -> T]
  BY PartialElement
<1>2. DOMAIN S!Restrict(f, D) = D /\ S!Restrict(f, D) \in [D -> T]
  BY <1>1 DEF S!Restrict
<1>3. S!Restrict(f, D) \in S!Partial(A, T)
  BY <1>1, <1>2, PartialElement
<1> QED BY <1>2, <1>3 DEF S!Restrict

(* Replacing an entry in place.                                             *)
LEMMA ReplacedEntry ==
  ASSUME NEW A, NEW T, NEW f \in S!Partial(A, T), NEW k \in DOMAIN f, NEW v \in T
  PROVE  /\ [f EXCEPT ![k] = v] \in S!Partial(A, T) /\ DOMAIN [f EXCEPT ![k] = v] = DOMAIN f
         /\ [f EXCEPT ![k] = v][k] = v
         /\ \A x \in DOMAIN f : x # k => [f EXCEPT ![k] = v][x] = f[x]
<1>1. DOMAIN f \subseteq A /\ f \in [DOMAIN f -> T]
  BY PartialElement
<1>2. DOMAIN [f EXCEPT ![k] = v] = DOMAIN f /\ [f EXCEPT ![k] = v] \in [DOMAIN f -> T]
  BY <1>1
<1>3. [f EXCEPT ![k] = v] \in S!Partial(A, T)
  BY <1>1, <1>2, PartialElement
<1> QED BY <1>1, <1>2, <1>3

(* A wider type of entries.                                                 *)
LEMMA PartialMonotone ==
  ASSUME NEW A, NEW T, NEW U, T \subseteq U
  PROVE  S!Partial(A, T) \subseteq S!Partial(A, U)
<1> SUFFICES ASSUME NEW f \in S!Partial(A, T) PROVE f \in S!Partial(A, U)
  OBVIOUS
<1>1. DOMAIN f \subseteq A /\ f \in [DOMAIN f -> T]
  BY PartialElement
<1>2. f \in [DOMAIN f -> U]
  BY <1>1
<1> QED BY <1>1, <1>2, PartialElement

(* Counters and time stamps are at most the number of writes so far.        *)
RepoUpTo(n) == [commit : 0 .. n, builds : 0 .. n, docs : 0 .. n]
SnapshotUpTo(n) ==
  [repos : S!Partial(Repos, RepoUpTo(n)), builds : S!Partial(StateBuilds, 0 .. n),
   schedules : S!Partial(Schedules, 0 .. n), total : 0 .. n,
   config : 0 .. n, status : {"starting", "running", "stopping"}]
HeldUpTo(n) == [Callers -> [repo : Repos \cup {None}, copy : RepoUpTo(n)]]
AckedUpTo(n) == [total : 0 .. n, config : 0 .. n, builds : [Repos -> 0 .. n]]

StateTypes ==
  /\ up \in BOOLEAN /\ started \in BOOLEAN /\ now \in 0 .. MaxWrites
  /\ mem \in SnapshotUpTo(now) /\ disk \in SnapshotUpTo(now)
  /\ held \in HeldUpTo(now) /\ acked \in AckedUpTo(now)
  /\ torn \subseteq Repos /\ removed \subseteq Repos

(* Nobody holds a copy while the store is closed.                           *)
ClosedHoldsNothing == ~up => \A c \in Callers : held[c].repo = None

(* What was reported as written is in memory while the store is open...     *)
AckedInMemory ==
  up => /\ mem.total >= acked.total /\ mem.config >= acked.config
        /\ \A r \in Repos \ torn : acked.builds[r] > 0 =>
             r \in DOMAIN mem.repos /\ mem.repos[r].builds >= acked.builds[r]

(* ... and in the copies that may be written back.                          *)
AckedInCopies ==
  \A c \in Callers : \A r \in Repos \ torn :
    held[c].repo = r /\ acked.builds[r] > 0 => held[c].copy.builds >= acked.builds[r]

StateInv ==
  /\ StateTypes /\ ClosedHoldsNothing /\ AckedInMemory /\ AckedInCopies
  /\ S!AckedIsDurable /\ S!RemovedStaysRemoved /\ S!CreatedIsSaved

LEMMA UpToMonotone ==
  ASSUME NEW m \in Nat, NEW n \in Nat, m <= n
  PROVE  /\ 0 .. m \subseteq 0 .. n /\ RepoUpTo(m) \subseteq RepoUpTo(n)
         /\ SnapshotUpTo(m) \subseteq SnapshotUpTo(n)
         /\ HeldUpTo(m) \subseteq HeldUpTo(n) /\ AckedUpTo(m) \subseteq AckedUpTo(n)
<1>1. 0 .. m \subseteq 0 .. n
  OBVIOUS
<1>2. RepoUpTo(m) \subseteq RepoUpTo(n)
  BY <1>1 DEF RepoUpTo
<1>3. /\ S!Partial(Repos, RepoUpTo(m)) \subseteq S!Partial(Repos, RepoUpTo(n))
      /\ S!Partial(StateBuilds, 0 .. m) \subseteq S!Partial(StateBuilds, 0 .. n)
      /\ S!Partial(Schedules, 0 .. m) \subseteq S!Partial(Schedules, 0 .. n)
  BY <1>1, <1>2, PartialMonotone
<1>4. SnapshotUpTo(m) \subseteq SnapshotUpTo(n)
  BY <1>1, <1>3 DEF SnapshotUpTo
<1>5. HeldUpTo(m) \subseteq HeldUpTo(n) /\ AckedUpTo(m) \subseteq AckedUpTo(n)
  BY <1>1, <1>2 DEF HeldUpTo, AckedUpTo
<1> QED BY <1>1, <1>2, <1>4, <1>5

LEMMA StateInit == S!Init => StateInv
<1> SUFFICES ASSUME S!Init PROVE StateInv
  OBVIOUS
<1> USE RecordsAssumption
<1>1. ASSUME NEW A, NEW T PROVE <<>> \in S!Partial(A, T)
  <2>1. DOMAIN <<>> = {} /\ <<>> \in [{} -> T]
    OBVIOUS
  <2> QED BY <2>1, PartialElement
<1>2. S!Fresh \in SnapshotUpTo(0)
  BY <1>1 DEF S!Fresh, SnapshotUpTo
<1>3. S!NoCopy \in [repo : Repos \cup {None}, copy : RepoUpTo(0)]
  BY DEF S!NoCopy, S!NewRepository, RepoUpTo
<1>4. StateTypes
  <2>1. held \in HeldUpTo(0) /\ acked \in AckedUpTo(0)
    BY <1>3 DEF S!Init, HeldUpTo, AckedUpTo
  <2>2. now = 0 /\ now \in 0 .. MaxWrites
    BY DEF S!Init
  <2>3. mem \in SnapshotUpTo(now) /\ disk \in SnapshotUpTo(now)
    BY <1>2, <2>2 DEF S!Init
  <2>4. held \in HeldUpTo(now) /\ acked \in AckedUpTo(now)
    BY <2>1, <2>2
  <2> QED BY <2>2, <2>3, <2>4 DEF S!Init, StateTypes
<1>5. S!AckedIsDurable /\ AckedInMemory /\ AckedInCopies
  BY DEF S!Init, S!Fresh, S!AckedIsDurable, AckedInMemory, AckedInCopies
<1>6. ClosedHoldsNothing /\ S!RemovedStaysRemoved /\ S!CreatedIsSaved
  BY DEF S!Init, ClosedHoldsNothing, S!RemovedStaysRemoved, S!CreatedIsSaved
<1> QED BY <1>4, <1>5, <1>6 DEF StateInv

(* A write that leaves the repositories alone.                              *)
LEMMA OtherWrite ==
  ASSUME StateInv, S!Tick, UNCHANGED <<up, held, torn, removed>>, started' \in BOOLEAN,
         mem' \in SnapshotUpTo(now'), mem'.repos = mem.repos, disk' \in {mem', disk},
         acked' \in AckedUpTo(now'), acked'.builds = acked.builds,
         mem'.total >= acked'.total, disk'.total >= acked'.total,
         mem'.config >= acked'.config, disk'.config >= acked'.config
  PROVE  StateInv'
<1> USE RecordsAssumption
<1>1. up /\ now \in Nat /\ now' = now + 1 /\ now' \in 0 .. MaxWrites
  BY DEF S!Tick, StateInv, StateTypes
<1>2. disk \in SnapshotUpTo(now') /\ held \in HeldUpTo(now')
  BY <1>1, UpToMonotone DEF StateInv, StateTypes
<1>3. StateTypes'
  BY <1>1, <1>2 DEF StateInv, StateTypes
<1>4. disk'.repos \in {mem.repos, disk.repos}
  OBVIOUS
<1>5. AckedInMemory' /\ AckedInCopies' /\ ClosedHoldsNothing'
  BY <1>1 DEF StateInv, AckedInMemory, AckedInCopies, ClosedHoldsNothing
<1>6. S!AckedIsDurable'
  BY <1>1, <1>4 DEF StateInv, AckedInMemory, S!AckedIsDurable
<1>7. S!RemovedStaysRemoved' /\ S!CreatedIsSaved'
  BY <1>1, <1>4 DEF StateInv, S!RemovedStaysRemoved, S!CreatedIsSaved
<1> QED BY <1>3, <1>5, <1>6, <1>7 DEF StateInv

(* Builds, schedules, statistics, configuration and the status.             *)
LEMMA OtherSteps ==
  ASSUME StateInv,
         \/ \E b \in StateBuilds, ok \in BOOLEAN : S!CreateBuild(b, ok) \/ S!UpdateBuild(b, ok) \/ S!DeleteBuild(b, ok)
         \/ \E s \in Schedules, ok \in BOOLEAN :
              S!CreateSchedule(s, ok) \/ S!UpdateSchedule(s, ok) \/ S!DeleteSchedule(s, ok)
         \/ \E ok \in BOOLEAN :
              \/ S!Compact(ok) \/ S!RecordBuild(ok) \/ S!ResetStatistics(ok) \/ S!SetConfiguration(ok)
              \/ S!DeleteConfiguration(ok) \/ S!Start(ok)
  PROVE  StateInv'
<1> USE RecordsAssumption
<1>1. S!Tick /\ UNCHANGED <<up, held, torn, removed>> /\ started' \in BOOLEAN
  BY DEF StateInv, StateTypes, S!CreateBuild, S!UpdateBuild, S!DeleteBuild, S!CreateSchedule, S!UpdateSchedule,
     S!DeleteSchedule, S!Compact, S!RecordBuild, S!ResetStatistics, S!SetConfiguration,
     S!DeleteConfiguration, S!Start
<1>2. up /\ now \in Nat /\ now' = now + 1
  BY <1>1 DEF S!Tick, StateInv, StateTypes
<1>3. /\ mem \in SnapshotUpTo(now') /\ disk \in SnapshotUpTo(now') /\ acked \in AckedUpTo(now')
      /\ now' \in 0 .. now' /\ 0 \in 0 .. now'
  BY <1>2, UpToMonotone DEF StateInv, StateTypes
<1>4. /\ mem.builds \in S!Partial(StateBuilds, 0 .. now') /\ mem.schedules \in S!Partial(Schedules, 0 .. now')
      /\ mem.total \in 0 .. now /\ mem.config \in 0 .. now /\ disk.total \in 0 .. now /\ disk.config \in 0 .. now
      /\ acked.total \in 0 .. now /\ acked.config \in 0 .. now
  BY <1>3 DEF StateInv, StateTypes, SnapshotUpTo, AckedUpTo
<1>5. /\ mem.total >= acked.total /\ mem.config >= acked.config
      /\ disk.total >= acked.total /\ disk.config >= acked.config
  BY <1>2 DEF StateInv, AckedInMemory, S!AckedIsDurable
<1>6. ASSUME NEW f \in S!Partial(StateBuilds, 0 .. now'), mem' = [mem EXCEPT !.builds = f],
             disk' \in {mem', disk}, acked' = acked
      PROVE  StateInv'
  <2>1. mem' \in SnapshotUpTo(now') /\ mem'.repos = mem.repos /\ mem'.total = mem.total /\ mem'.config = mem.config
    BY <1>3, <1>6 DEF SnapshotUpTo
  <2> QED BY <1>1, <1>3, <1>5, <1>6, <2>1, OtherWrite
<1>7. ASSUME NEW f \in S!Partial(Schedules, 0 .. now'), mem' = [mem EXCEPT !.schedules = f],
             disk' \in {mem', disk}, acked' = acked
      PROVE  StateInv'
  <2>1. mem' \in SnapshotUpTo(now') /\ mem'.repos = mem.repos /\ mem'.total = mem.total /\ mem'.config = mem.config
    BY <1>3, <1>7 DEF SnapshotUpTo
  <2> QED BY <1>1, <1>3, <1>5, <1>7, <2>1, OtherWrite
<1>8. \A D : S!Restrict(mem.builds, DOMAIN mem.builds \ D) \in S!Partial(StateBuilds, 0 .. now')
             /\ S!Restrict(mem.schedules, DOMAIN mem.schedules \ D) \in S!Partial(Schedules, 0 .. now')
  BY <1>4, RestrictedMap
<1>9. ASSUME NEW b \in StateBuilds, NEW ok \in BOOLEAN,
             S!CreateBuild(b, ok) \/ S!UpdateBuild(b, ok) \/ S!DeleteBuild(b, ok)
      PROVE  StateInv'
  <2>1. acked' = acked
    BY <1>9 DEF S!CreateBuild, S!UpdateBuild, S!DeleteBuild
  <2>2. CASE S!CreateBuild(b, ok)
    <3>1. S!With(mem.builds, b, now') \in S!Partial(StateBuilds, 0 .. now')
      BY <1>3, <1>4, WithEntry
    <3>2. S!Without(mem.builds, b) \in S!Partial(StateBuilds, 0 .. now')
      BY <1>8 DEF S!Without
    <3> QED BY <2>1, <2>2, <3>1, <3>2, <1>6 DEF S!CreateBuild, S!SaveCreated
  <2>3. CASE S!UpdateBuild(b, ok)
    <3>1. [mem.builds EXCEPT ![b] = now'] \in S!Partial(StateBuilds, 0 .. now')
      BY <2>3, <1>3, <1>4, ReplacedEntry DEF S!UpdateBuild
    <3> QED BY <2>1, <2>3, <3>1, <1>6 DEF S!UpdateBuild, S!Save
  <2>4. CASE S!DeleteBuild(b, ok)
    <3>1. S!Without(mem.builds, b) \in S!Partial(StateBuilds, 0 .. now')
      BY <1>8 DEF S!Without
    <3> QED BY <2>1, <2>4, <3>1, <1>6 DEF S!DeleteBuild, S!Save
  <2> QED BY <1>9, <2>2, <2>3, <2>4
<1>10. ASSUME NEW s \in Schedules, NEW ok \in BOOLEAN,
              S!CreateSchedule(s, ok) \/ S!UpdateSchedule(s, ok) \/ S!DeleteSchedule(s, ok)
       PROVE  StateInv'
  <2>1. acked' = acked
    BY <1>10 DEF S!CreateSchedule, S!UpdateSchedule, S!DeleteSchedule
  <2>2. CASE S!CreateSchedule(s, ok)
    <3>1. S!With(mem.schedules, s, now') \in S!Partial(Schedules, 0 .. now')
      BY <1>3, <1>4, WithEntry
    <3>2. S!Without(mem.schedules, s) \in S!Partial(Schedules, 0 .. now')
      BY <1>8 DEF S!Without
    <3> QED BY <2>1, <2>2, <3>1, <3>2, <1>7 DEF S!CreateSchedule, S!SaveCreated
  <2>3. CASE S!UpdateSchedule(s, ok)
    <3>1. [mem.schedules EXCEPT ![s] = now'] \in S!Partial(Schedules, 0 .. now')
      BY <2>3, <1>3, <1>4, ReplacedEntry DEF S!UpdateSchedule
    <3> QED BY <2>1, <2>3, <3>1, <1>7 DEF S!UpdateSchedule, S!Save
  <2>4. CASE S!DeleteSchedule(s, ok)
    <3>1. S!Without(mem.schedules, s) \in S!Partial(Schedules, 0 .. now')
      BY <1>8 DEF S!Without
    <3> QED BY <2>1, <2>4, <3>1, <1>7 DEF S!DeleteSchedule, S!Save
  <2> QED BY <1>10, <2>2, <2>3, <2>4
<1>11. ASSUME NEW ok \in BOOLEAN, S!Compact(ok) PROVE StateInv'
  <2>1. S!Restrict(mem.builds, S!Newest(mem.builds, KeepBuilds)) \in S!Partial(StateBuilds, 0 .. now')
    BY <1>4, RestrictedMap DEF S!Newest
  <2> QED BY <1>11, <2>1, <1>6 DEF S!Compact, S!Save
<1>12. ASSUME NEW ok \in BOOLEAN, S!RecordBuild(ok) \/ S!ResetStatistics(ok) PROVE StateInv'
  <2>1. PICK n \in {0, mem.total + 1} :
          /\ mem' = [mem EXCEPT !.total = n] /\ disk' = IF ok THEN mem' ELSE disk
          /\ acked' \in {acked, [acked EXCEPT !.total = n]}
          /\ n = 0 => acked' = [acked EXCEPT !.total = n]
          /\ n # 0 => acked' = IF ok THEN [acked EXCEPT !.total = n] ELSE acked
    <3>1. CASE S!RecordBuild(ok)
      <4>1. mem.total + 1 # 0
        BY <1>2, <1>4, SMTT(40)
      <4> WITNESS mem.total + 1 \in {0, mem.total + 1}
      <4> QED BY <3>1, <4>1 DEF S!RecordBuild, S!Save
    <3>2. CASE S!ResetStatistics(ok)
      <4> WITNESS 0 \in {0, mem.total + 1}
      <4> QED BY <3>2 DEF S!ResetStatistics, S!Save
    <3> QED BY <1>12, <3>1, <3>2
  <2>2. n \in 0 .. now' /\ (n = 0 \/ n >= acked.total)
    <3> DEFINE t == mem.total
               a == acked.total
    <3>1. t \in 0 .. now /\ a \in 0 .. now /\ t >= a
      BY <1>4, <1>5
    <3>2. n = 0 \/ n = t + 1
      OBVIOUS
    <3> HIDE DEF t, a
    <3>3. n \in 0 .. now' /\ (n = 0 \/ n >= a)
      BY <3>1, <3>2, <1>2
    <3> QED BY <3>3 DEF a
  <2>3. /\ mem' \in SnapshotUpTo(now') /\ mem'.repos = mem.repos /\ mem'.total = n /\ mem'.config = mem.config
        /\ acked' \in AckedUpTo(now') /\ acked'.builds = acked.builds /\ acked'.config = acked.config
        /\ acked'.total = n \/ (acked'.total = acked.total /\ n # 0 /\ ~ok)
    <3>1. mem' \in SnapshotUpTo(now') /\ mem'.repos = mem.repos /\ mem'.total = n /\ mem'.config = mem.config
      BY <2>1, <2>2, <1>3 DEF SnapshotUpTo
    <3>2. acked' = acked \/ acked' = [acked EXCEPT !.total = n]
      BY <2>1
    <3>3. acked' \in AckedUpTo(now') /\ acked'.builds = acked.builds /\ acked'.config = acked.config
      BY <3>2, <2>2, <1>3 DEF AckedUpTo
    <3>4. [acked EXCEPT !.total = n].total = n
      BY <1>3 DEF AckedUpTo
    <3>5. acked'.total = n \/ (acked'.total = acked.total /\ n # 0 /\ ~ok)
      BY <2>1, <3>4
    <3> QED BY <3>1, <3>3, <3>5
  <2>4. disk'.total >= acked'.total /\ mem'.total >= acked'.total
    BY <2>1, <2>2, <2>3, <1>2, <1>4, <1>5, SMTT(40)
  <2>5. disk' \in {mem', disk} /\ disk'.config >= acked'.config /\ mem'.config >= acked'.config
    BY <2>1, <2>3, <1>5
  <2> QED BY <1>1, <2>3, <2>4, <2>5, OtherWrite
<1>13. ASSUME NEW ok \in BOOLEAN, S!SetConfiguration(ok) \/ S!DeleteConfiguration(ok) PROVE StateInv'
  <2>1. PICK n \in {0, now'} :
          /\ mem' = [mem EXCEPT !.config = n] /\ disk' = IF ok THEN mem' ELSE disk
          /\ acked' \in {acked, [acked EXCEPT !.config = n]}
          /\ n = 0 => acked' = [acked EXCEPT !.config = n]
          /\ n # 0 => acked' = IF ok THEN [acked EXCEPT !.config = n] ELSE acked
    <3>1. CASE S!SetConfiguration(ok)
      <4>1. now' # 0
        BY <1>2
      <4> WITNESS now' \in {0, now'}
      <4> QED BY <3>1, <4>1 DEF S!SetConfiguration, S!Save
    <3>2. CASE S!DeleteConfiguration(ok)
      <4> WITNESS 0 \in {0, now'}
      <4> QED BY <3>2 DEF S!DeleteConfiguration, S!Save
    <3> QED BY <1>13, <3>1, <3>2
  <2>2. n \in 0 .. now' /\ (n = 0 \/ n >= acked.config)
    BY <2>1, <1>2, <1>3, <1>4, SMTT(40)
  <2>3. /\ mem' \in SnapshotUpTo(now') /\ mem'.repos = mem.repos /\ mem'.config = n /\ mem'.total = mem.total
        /\ acked' \in AckedUpTo(now') /\ acked'.builds = acked.builds /\ acked'.total = acked.total
        /\ acked'.config = n \/ (acked'.config = acked.config /\ n # 0 /\ ~ok)
    <3>1. mem' \in SnapshotUpTo(now') /\ mem'.repos = mem.repos /\ mem'.config = n /\ mem'.total = mem.total
      BY <2>1, <2>2, <1>3 DEF SnapshotUpTo
    <3>2. acked' = acked \/ acked' = [acked EXCEPT !.config = n]
      BY <2>1
    <3>3. acked' \in AckedUpTo(now') /\ acked'.builds = acked.builds /\ acked'.total = acked.total
      BY <3>2, <2>2, <1>3 DEF AckedUpTo
    <3>4. [acked EXCEPT !.config = n].config = n
      BY <1>3 DEF AckedUpTo
    <3>5. acked'.config = n \/ (acked'.config = acked.config /\ n # 0 /\ ~ok)
      BY <2>1, <3>4
    <3> QED BY <3>1, <3>3, <3>5
  <2>4. disk'.config >= acked'.config /\ mem'.config >= acked'.config
    BY <2>1, <2>2, <2>3, <1>2, <1>4, <1>5, SMTT(40)
  <2>5. disk' \in {mem', disk} /\ disk'.total >= acked'.total /\ mem'.total >= acked'.total
    BY <2>1, <2>3, <1>5
  <2> QED BY <1>1, <2>3, <2>4, <2>5, OtherWrite
<1>14. ASSUME NEW ok \in BOOLEAN, S!Start(ok) PROVE StateInv'
  <2>1. mem' = [mem EXCEPT !.status = "running"] /\ disk' \in {mem', disk} /\ acked' = acked
    BY <1>14 DEF S!Start, S!Save
  <2>2. mem' \in SnapshotUpTo(now') /\ mem'.repos = mem.repos /\ mem'.total = mem.total /\ mem'.config = mem.config
    BY <1>3, <2>1 DEF SnapshotUpTo
  <2> QED BY <1>1, <1>3, <1>5, <2>1, <2>2, OtherWrite
<1> QED BY <1>9, <1>10, <1>11, <1>12, <1>13, <1>14

(* A write to the repositories: what is left to show is about them.         *)
LEMMA RepoWrite ==
  ASSUME StateInv, S!Tick, UNCHANGED <<up, started>>,
         NEW f \in S!Partial(Repos, RepoUpTo(now')), mem' = [mem EXCEPT !.repos = f], disk' \in {mem', disk},
         held' \in HeldUpTo(now'), acked' \in AckedUpTo(now'),
         acked'.total = acked.total, acked'.config = acked.config,
         torn' \subseteq Repos, removed' \subseteq Repos,
         AckedInCopies', S!RemovedStaysRemoved', S!CreatedIsSaved',
         \A r \in Repos \ torn' : acked'.builds[r] > 0 =>
           /\ r \in DOMAIN f /\ f[r].builds >= acked'.builds[r]
           /\ r \in DOMAIN disk'.repos /\ disk'.repos[r].builds >= acked'.builds[r]
  PROVE  StateInv'
<1> USE RecordsAssumption
<1>1. up /\ now \in Nat /\ now' = now + 1 /\ now' \in 0 .. MaxWrites
  BY DEF S!Tick, StateInv, StateTypes
<1>2. mem \in SnapshotUpTo(now') /\ disk \in SnapshotUpTo(now')
  BY <1>1, UpToMonotone DEF StateInv, StateTypes
<1>3. mem' \in SnapshotUpTo(now') /\ mem'.repos = f /\ mem'.total = mem.total /\ mem'.config = mem.config
  BY <1>2 DEF SnapshotUpTo
<1>4. StateTypes'
  BY <1>1, <1>2, <1>3 DEF StateInv, StateTypes
<1>5. /\ mem.total >= acked.total /\ mem.config >= acked.config
      /\ disk.total >= acked.total /\ disk.config >= acked.config
  BY <1>1 DEF StateInv, AckedInMemory, S!AckedIsDurable
<1>6. disk'.total >= acked'.total /\ disk'.config >= acked'.config
  BY <1>3, <1>5
<1>7. AckedInMemory' /\ S!AckedIsDurable' /\ ClosedHoldsNothing'
  BY <1>1, <1>3, <1>5, <1>6 DEF AckedInMemory, S!AckedIsDurable, ClosedHoldsNothing
<1> QED BY <1>4, <1>7 DEF StateInv

(* What every repository operation finds.                                   *)
LEMMA RepoFacts ==
  ASSUME StateInv, S!Tick
  PROVE  /\ up /\ now \in Nat /\ now' = now + 1 /\ now' \in 0 .. now'
         /\ mem \in SnapshotUpTo(now') /\ disk \in SnapshotUpTo(now')
         /\ mem.repos \in S!Partial(Repos, RepoUpTo(now')) /\ disk.repos \in S!Partial(Repos, RepoUpTo(now'))
         /\ mem.repos \in S!Partial(Repos, RepoUpTo(now)) /\ DOMAIN mem.repos \subseteq Repos
         /\ held \in HeldUpTo(now') /\ acked \in AckedUpTo(now') /\ acked \in AckedUpTo(now)
         /\ acked.builds \in [Repos -> 0 .. now]
<1>1. up /\ now \in Nat /\ now' = now + 1 /\ now' \in 0 .. now'
  BY RecordsAssumption DEF S!Tick, StateInv, StateTypes
<1>2. /\ mem \in SnapshotUpTo(now') /\ disk \in SnapshotUpTo(now')
      /\ held \in HeldUpTo(now') /\ acked \in AckedUpTo(now')
  BY <1>1, UpToMonotone DEF StateInv, StateTypes
<1>3. acked \in AckedUpTo(now) /\ mem \in SnapshotUpTo(now)
  BY DEF StateInv, StateTypes
<1>4. /\ mem.repos \in S!Partial(Repos, RepoUpTo(now')) /\ disk.repos \in S!Partial(Repos, RepoUpTo(now'))
      /\ mem.repos \in S!Partial(Repos, RepoUpTo(now))
  BY <1>2, <1>3 DEF SnapshotUpTo
<1>5. DOMAIN mem.repos \subseteq Repos
  BY <1>4, PartialElement
<1>6. acked.builds \in [Repos -> 0 .. now]
  BY <1>3 DEF AckedUpTo
<1> QED BY <1>1, <1>2, <1>3, <1>4, <1>5, <1>6

LEMMA EnsureStep ==
  ASSUME StateInv, NEW c \in Callers, NEW r \in Repos, NEW ok \in BOOLEAN, S!EnsureRepositoryState(c, r, ok)
  PROVE  StateInv'
<1> USE RecordsAssumption
<1> DEFINE f == S!With(mem.repos, r, S!NewRepository)
           g == IF ok THEN f ELSE mem.repos
<1>1. /\ S!Tick /\ r \notin DOMAIN mem.repos /\ UNCHANGED <<up, started, held, acked>>
      /\ removed' = IF ok THEN removed \ {r} ELSE removed
      /\ IF ok THEN mem' = [mem EXCEPT !.repos = f] /\ disk' = mem' ELSE mem' = mem /\ disk' = disk
      /\ torn \subseteq torn' /\ torn' \subseteq torn \cup {r}
  BY DEF S!EnsureRepositoryState, S!CreateRepository, S!SaveCreated, S!Tears
<1>2. /\ up /\ mem \in SnapshotUpTo(now') /\ disk \in SnapshotUpTo(now')
      /\ mem.repos \in S!Partial(Repos, RepoUpTo(now')) /\ held \in HeldUpTo(now') /\ acked \in AckedUpTo(now')
      /\ now' \in Nat
  BY <1>1, RepoFacts
<1>3. S!NewRepository \in RepoUpTo(now')
  BY <1>2 DEF S!NewRepository, RepoUpTo
<1>4. /\ f \in S!Partial(Repos, RepoUpTo(now')) /\ DOMAIN f = DOMAIN mem.repos \cup {r}
      /\ \A x \in DOMAIN mem.repos : f[x] = mem.repos[x]
  <2>1. mem.repos \in S!Partial(Repos, RepoUpTo(now'))
    BY <1>2
  <2>2. f \in S!Partial(Repos, RepoUpTo(now'))
    BY <2>1, <1>3, WithEntry
  <2>3. DOMAIN f = DOMAIN mem.repos \cup {r} /\ \A x \in DOMAIN mem.repos : x # r => f[x] = mem.repos[x]
    BY DEF S!With
  <2> QED BY <1>1, <2>2, <2>3
<1>5. g \in S!Partial(Repos, RepoUpTo(now')) /\ mem' = [mem EXCEPT !.repos = g] /\ disk' \in {mem', disk}
  BY <1>1, <1>2, <1>4 DEF SnapshotUpTo
<1>6. mem'.repos = g /\ (ok => disk'.repos = f) /\ (~ok => disk' = disk)
  BY <1>1, <1>2, <1>5 DEF SnapshotUpTo
<1>7. \A x \in Repos \ torn' : acked.builds[x] > 0 =>
        /\ x \in DOMAIN mem.repos /\ mem.repos[x].builds >= acked.builds[x]
        /\ x \in DOMAIN disk.repos /\ disk.repos[x].builds >= acked.builds[x]
  BY <1>1, <1>2 DEF StateInv, AckedInMemory, S!AckedIsDurable
<1>8. \A x \in Repos \ torn' : acked'.builds[x] > 0 =>
        /\ x \in DOMAIN g /\ g[x].builds >= acked'.builds[x]
        /\ x \in DOMAIN disk'.repos /\ disk'.repos[x].builds >= acked'.builds[x]
  BY <1>1, <1>4, <1>6, <1>7
<1>9. AckedInCopies'
  BY <1>1 DEF StateInv, AckedInCopies
<1>10. S!RemovedStaysRemoved' /\ S!CreatedIsSaved'
  BY <1>1, <1>2, <1>4, <1>6 DEF StateInv, S!RemovedStaysRemoved, S!CreatedIsSaved
<1>11. torn' \subseteq Repos /\ removed' \subseteq Repos
  BY <1>1 DEF StateInv, StateTypes
<1> HIDE DEF g
<1> QED BY <1>1, <1>2, <1>5, <1>8, <1>9, <1>10, <1>11, RepoWrite

LEMMA RemoveStep ==
  ASSUME StateInv, NEW c \in Callers, NEW r \in Repos, NEW ok \in BOOLEAN, S!RemoveRepositoryState(c, r, ok)
  PROVE  StateInv'
<1> USE RecordsAssumption
<1> DEFINE f == S!Restrict(mem.repos, DOMAIN mem.repos \ {r})
<1>1. /\ S!Tick /\ r \in DOMAIN mem.repos /\ UNCHANGED <<up, started, held>>
      /\ removed' = IF ok THEN removed \cup {r} ELSE removed
      /\ mem' = [mem EXCEPT !.repos = f] /\ disk' = IF ok THEN mem' ELSE disk
      /\ acked' = [acked EXCEPT !.builds[r] = 0]
      /\ torn \subseteq torn' /\ torn' \subseteq torn \cup {r}
  BY DEF S!RemoveRepositoryState, S!Save, S!Without, S!Tears
<1>2. /\ up /\ mem \in SnapshotUpTo(now') /\ disk \in SnapshotUpTo(now') /\ now' \in Nat
      /\ mem.repos \in S!Partial(Repos, RepoUpTo(now')) /\ held \in HeldUpTo(now') /\ acked \in AckedUpTo(now')
      /\ acked.builds \in [Repos -> 0 .. now]
  BY <1>1, RepoFacts
<1>3. /\ f \in S!Partial(Repos, RepoUpTo(now')) /\ DOMAIN f = DOMAIN mem.repos \ {r}
      /\ \A x \in DOMAIN f : f[x] = mem.repos[x]
  BY <1>2, RestrictedMap
<1> HIDE DEF f
<1>4. mem'.repos = f /\ (ok => disk'.repos = f) /\ (~ok => disk' = disk) /\ disk' \in {mem', disk}
  BY <1>1, <1>2 DEF SnapshotUpTo
<1>5. /\ acked' \in AckedUpTo(now') /\ acked'.total = acked.total /\ acked'.config = acked.config
      /\ acked'.builds[r] = 0 /\ \A x \in Repos : x # r => acked'.builds[x] = acked.builds[x]
  BY <1>1, <1>2 DEF AckedUpTo
<1>6. \A x \in Repos \ torn' : acked.builds[x] > 0 =>
        /\ x \in DOMAIN mem.repos /\ mem.repos[x].builds >= acked.builds[x]
        /\ x \in DOMAIN disk.repos /\ disk.repos[x].builds >= acked.builds[x]
  BY <1>1, <1>2 DEF StateInv, AckedInMemory, S!AckedIsDurable
<1>7. \A x \in Repos \ torn' : acked'.builds[x] > 0 =>
        /\ x \in DOMAIN f /\ f[x].builds >= acked'.builds[x]
        /\ x \in DOMAIN disk'.repos /\ disk'.repos[x].builds >= acked'.builds[x]
  BY <1>3, <1>4, <1>5, <1>6
<1>8. AckedInCopies'
  BY <1>1, <1>5 DEF StateInv, AckedInCopies
<1>9. S!RemovedStaysRemoved' /\ S!CreatedIsSaved'
  BY <1>1, <1>2, <1>3, <1>4 DEF StateInv, S!RemovedStaysRemoved, S!CreatedIsSaved
<1>10. torn' \subseteq Repos /\ removed' \subseteq Repos
  BY <1>1 DEF StateInv, StateTypes
<1> QED BY <1>1, <1>2, <1>3, <1>4, <1>5, <1>7, <1>8, <1>9, <1>10, RepoWrite

(* A write to one entry in place.                                           *)
LEMMA InPlace ==
  ASSUME StateInv, S!Tick, UNCHANGED <<up, started, removed>>,
         NEW r \in DOMAIN mem.repos, NEW e \in RepoUpTo(now'), NEW ok \in BOOLEAN,
         mem' = [mem EXCEPT !.repos[r] = e], disk' = IF ok THEN mem' ELSE disk,
         acked' \in AckedUpTo(now'), acked'.total = acked.total, acked'.config = acked.config,
         \A x \in Repos : x # r => acked'.builds[x] = acked.builds[x],
         ~ok => acked' = acked,
         torn' = torn \/ torn' = torn \cup {r},
         r \notin torn' /\ acked'.builds[r] > 0 => e.builds >= acked'.builds[r],
         held' \in HeldUpTo(now'), AckedInCopies'
  PROVE  StateInv'
<1> USE RecordsAssumption
<1> DEFINE f == [mem.repos EXCEPT ![r] = e]
<1>1. /\ up /\ mem \in SnapshotUpTo(now') /\ disk \in SnapshotUpTo(now') /\ now' \in Nat
      /\ mem.repos \in S!Partial(Repos, RepoUpTo(now')) /\ DOMAIN mem.repos \subseteq Repos
  BY RepoFacts
<1>2. f \in S!Partial(Repos, RepoUpTo(now'))
  BY <1>1, ReplacedEntry
<1>3. mem.repos \in [DOMAIN mem.repos -> RepoUpTo(now')]
  BY <1>1, PartialElement
<1>4. DOMAIN f = DOMAIN mem.repos /\ f[r] = e /\ \A x \in DOMAIN mem.repos : x # r => f[x] = mem.repos[x]
  BY <1>3
<1>5. mem' = [mem EXCEPT !.repos = f]
  OBVIOUS
<1> HIDE DEF f
<1>6. mem'.repos = f /\ (ok => disk'.repos = f) /\ (~ok => disk' = disk) /\ disk' \in {mem', disk}
  BY <1>1, <1>5 DEF SnapshotUpTo
<1>7. \A x \in Repos \ torn' : acked.builds[x] > 0 =>
        /\ x \in DOMAIN mem.repos /\ mem.repos[x].builds >= acked.builds[x]
        /\ x \in DOMAIN disk.repos /\ disk.repos[x].builds >= acked.builds[x]
  BY <1>1 DEF StateInv, AckedInMemory, S!AckedIsDurable
<1>8. \A x \in Repos \ torn' : acked'.builds[x] > 0 => x \in DOMAIN f /\ f[x].builds >= acked'.builds[x]
  BY <1>4, <1>7
<1>9. \A x \in Repos \ torn' : acked'.builds[x] > 0 =>
        x \in DOMAIN disk'.repos /\ disk'.repos[x].builds >= acked'.builds[x]
  BY <1>6, <1>7, <1>8
<1>10. S!RemovedStaysRemoved' /\ S!CreatedIsSaved'
  BY <1>1, <1>4, <1>6 DEF StateInv, S!RemovedStaysRemoved, S!CreatedIsSaved
<1>11. torn' \subseteq Repos /\ removed' \subseteq Repos
  BY <1>1 DEF StateInv, StateTypes
<1> QED BY <1>1, <1>2, <1>5, <1>6, <1>8, <1>9, <1>10, <1>11, RepoWrite

LEMMA IncrementStep ==
  ASSUME StateInv, NEW c \in Callers, NEW r \in Repos, NEW ok \in BOOLEAN, S!IncrementBuildCount(c, r, ok)
  PROVE  StateInv'
<1> USE RecordsAssumption
<1> DEFINE n == mem.repos[r].builds + 1
           e == [mem.repos[r] EXCEPT !.builds = n]
<1>1. /\ S!Tick /\ r \in DOMAIN mem.repos /\ UNCHANGED <<up, started, held, removed>>
      /\ disk' = IF ok THEN mem' ELSE disk
      /\ acked' = IF ok THEN [acked EXCEPT !.builds[r] = n] ELSE acked
      /\ held[c].repo = None /\ torn' = IF S!Holders(r) \ {c} = {} THEN torn ELSE torn \cup {r}
  BY DEF S!IncrementBuildCount, S!Save, S!Tears, S!Free
<1>2. mem' = [mem EXCEPT !.repos[r] = e]
  BY DEF S!IncrementBuildCount, S!Save
<1>3. /\ up /\ now \in Nat /\ now' = now + 1 /\ mem.repos \in S!Partial(Repos, RepoUpTo(now))
      /\ held \in HeldUpTo(now') /\ acked \in AckedUpTo(now') /\ acked.builds \in [Repos -> 0 .. now]
  BY <1>1, RepoFacts
<1>4. mem.repos[r] \in RepoUpTo(now)
  BY <1>1, <1>3, PartialElement
<1>5. e \in RepoUpTo(now') /\ e.builds = n /\ n \in 0 .. now' /\ mem.repos[r].builds \in 0 .. now
  BY <1>3, <1>4 DEF RepoUpTo
<1> HIDE DEF e, n
<1>6. /\ acked' \in AckedUpTo(now') /\ acked'.total = acked.total /\ acked'.config = acked.config
      /\ \A x \in Repos : x # r => acked'.builds[x] = acked.builds[x]
      /\ ok => acked'.builds[r] = n
      /\ ~ok => acked' = acked
  BY <1>1, <1>3, <1>5 DEF AckedUpTo
<1>7. r \notin torn' /\ acked'.builds[r] > 0 => e.builds >= acked'.builds[r]
  <2>1. r \notin torn' /\ acked.builds[r] > 0 => n >= acked.builds[r]
    BY <1>1, <1>3, <1>5 DEF StateInv, AckedInMemory, n
  <2> QED BY <2>1, <1>5, <1>6
<1>8. AckedInCopies'
  <2> SUFFICES ASSUME NEW d \in Callers, NEW x \in Repos \ torn', held[d].repo = x, acked'.builds[x] > 0
               PROVE  held[d].copy.builds >= acked'.builds[x]
    BY <1>1 DEF AckedInCopies
  <2>1. CASE x # r
    BY <2>1, <1>1, <1>6 DEF StateInv, AckedInCopies
  <2>2. CASE x = r
    <3>1. S!Holders(r) \ {c} = {}
      BY <2>2, <1>1
    <3>2. d = c
      BY <2>2, <3>1 DEF S!Holders
    <3> QED BY <1>1, <3>2
  <2> QED BY <2>1, <2>2
<1>9. torn' = torn \/ torn' = torn \cup {r}
  BY <1>1
<1> QED BY <1>1, <1>2, <1>3, <1>5, <1>6, <1>7, <1>8, <1>9, InPlace

LEMMA SetDocsStep ==
  ASSUME StateInv, NEW c \in Callers, NEW r \in Repos, NEW ok \in BOOLEAN, S!SetDocs(c, r, ok)
  PROVE  StateInv'
<1> USE RecordsAssumption
<1> DEFINE e == [mem.repos[r] EXCEPT !.docs = now']
<1>1. /\ S!Tick /\ r \in DOMAIN mem.repos /\ UNCHANGED <<up, started, held, acked, removed>>
      /\ disk' = IF ok THEN mem' ELSE disk
      /\ torn' = torn \/ torn' = torn \cup {r}
  BY DEF S!SetDocs, S!Save, S!Tears
<1>2. mem' = [mem EXCEPT !.repos[r] = e]
  BY DEF S!SetDocs, S!Save
<1>3. /\ up /\ now \in Nat /\ now' = now + 1 /\ mem.repos \in S!Partial(Repos, RepoUpTo(now'))
      /\ now' \in 0 .. now' /\ held \in HeldUpTo(now') /\ acked \in AckedUpTo(now')
  BY <1>1, RepoFacts
<1>4. mem.repos[r] \in RepoUpTo(now')
  BY <1>1, <1>3, PartialElement
<1>5. e \in RepoUpTo(now') /\ e.builds = mem.repos[r].builds
  BY <1>3, <1>4 DEF RepoUpTo
<1> HIDE DEF e
<1>6. r \notin torn' /\ acked'.builds[r] > 0 => e.builds >= acked'.builds[r]
  BY <1>1, <1>3, <1>5 DEF StateInv, AckedInMemory
<1>7. AckedInCopies'
  BY <1>1 DEF StateInv, AckedInCopies
<1> QED BY <1>1, <1>2, <1>3, <1>5, <1>6, <1>7, InPlace

(* SetRepoLastCommit and RecordDiscovery write back a copy whose build      *)
(* count is the one they read.                                              *)
LEMMA UpdateStep ==
  ASSUME StateInv, NEW c \in Callers, NEW ok \in BOOLEAN, S!SetRepoLastCommit(c, ok) \/ S!RecordDiscovery(c, ok)
  PROVE  StateInv'
<1> USE RecordsAssumption
<1> DEFINE r == held[c].repo
<1>1. PICK e \in {[held[c].copy EXCEPT !.commit = now'], [held[c].copy EXCEPT !.docs = now']} : S!Update(c, e, ok)
  BY DEF S!SetRepoLastCommit, S!RecordDiscovery
<1>2. /\ S!Tick /\ r # None /\ UNCHANGED <<up, started, acked, removed>>
      /\ held' = [held EXCEPT ![c] = S!NoCopy]
  BY <1>1 DEF S!Update
<1>3. /\ up /\ now \in Nat /\ now' = now + 1 /\ now' \in 0 .. now' /\ held \in HeldUpTo(now') /\ acked \in AckedUpTo(now')
      /\ mem \in SnapshotUpTo(now') /\ disk \in SnapshotUpTo(now')
      /\ mem.repos \in S!Partial(Repos, RepoUpTo(now'))
  BY <1>2, RepoFacts
<1>4. r \in Repos /\ held[c].copy \in RepoUpTo(now')
  BY <1>2, <1>3 DEF HeldUpTo
<1>5. e \in RepoUpTo(now') /\ e.builds = held[c].copy.builds
  BY <1>1, <1>3, <1>4 DEF RepoUpTo
<1>6. S!NoCopy \in [repo : Repos \cup {None}, copy : RepoUpTo(now')] /\ S!NoCopy.repo = None
  BY <1>3 DEF S!NoCopy, S!NewRepository, RepoUpTo
<1>7. /\ held' \in HeldUpTo(now') /\ held'[c].repo = None
      /\ \A d \in Callers : d # c => held'[d] = held[d]
  BY <1>2, <1>3, <1>6 DEF HeldUpTo
<1>8. torn \subseteq torn'
  BY <1>1 DEF S!Update, S!Tears
<1>9. AckedInCopies'
  BY <1>2, <1>7, <1>8 DEF StateInv, AckedInCopies
<1>10. r \notin torn' /\ acked'.builds[r] > 0 => e.builds >= acked'.builds[r]
  BY <1>2, <1>4, <1>5, <1>8 DEF StateInv, AckedInCopies
<1>11. CASE r \in DOMAIN mem.repos
  <2>1. /\ mem' = [mem EXCEPT !.repos[r] = e] /\ disk' = IF ok THEN mem' ELSE disk
        /\ torn' = torn \/ torn' = torn \cup {r}
    BY <1>1, <1>11 DEF S!Update, S!Save, S!Tears
  <2> HIDE DEF r
  <2> QED BY <2>1, <1>2, <1>3, <1>5, <1>7, <1>9, <1>10, <1>11, InPlace
<1>12. CASE r \notin DOMAIN mem.repos
  <2>1. mem' = mem /\ disk' = disk /\ torn' = torn
    BY <1>1, <1>12 DEF S!Update
  <2>2. mem' = [mem EXCEPT !.repos = mem.repos] /\ disk' \in {mem', disk}
    BY <2>1, <1>3 DEF SnapshotUpTo
  <2>3. \A x \in Repos \ torn' : acked'.builds[x] > 0 =>
          /\ x \in DOMAIN mem.repos /\ mem.repos[x].builds >= acked'.builds[x]
          /\ x \in DOMAIN disk'.repos /\ disk'.repos[x].builds >= acked'.builds[x]
    BY <2>1, <1>2, <1>3 DEF StateInv, AckedInMemory, S!AckedIsDurable
  <2>4. S!RemovedStaysRemoved' /\ S!CreatedIsSaved'
    BY <2>1, <1>2 DEF StateInv, S!RemovedStaysRemoved, S!CreatedIsSaved
  <2>5. torn' \subseteq Repos /\ removed' \subseteq Repos
    BY <2>1, <1>2 DEF StateInv, StateTypes
  <2> QED BY <2>1, <2>2, <2>3, <2>4, <2>5, <1>2, <1>3, <1>7, <1>9, RepoWrite
<1> QED BY <1>11, <1>12

LEMMA CopyStep ==
  ASSUME StateInv, NEW c \in Callers, NEW r \in Repos, S!GetByURL(c, r)
  PROVE  StateInv'
<1> USE RecordsAssumption
<1> DEFINE h == [repo |-> r, copy |-> mem.repos[r]]
<1>1. /\ up /\ r \in DOMAIN mem.repos /\ held' = [held EXCEPT ![c] = h]
      /\ UNCHANGED <<up, started, mem, disk, now, acked, torn, removed>>
  BY DEF S!GetByURL, S!Free
<1>2. mem.repos \in S!Partial(Repos, RepoUpTo(now)) /\ held \in HeldUpTo(now)
  BY DEF StateInv, StateTypes, SnapshotUpTo
<1>3. mem.repos[r] \in RepoUpTo(now)
  BY <1>1, <1>2, PartialElement
<1>4. h \in [repo : Repos \cup {None}, copy : RepoUpTo(now)] /\ h.repo = r /\ h.copy = mem.repos[r]
  BY <1>3
<1> HIDE DEF h
<1>5. /\ held' \in HeldUpTo(now) /\ held'[c] = h /\ \A d \in Callers : d # c => held'[d] = held[d]
  BY <1>1, <1>2, <1>4 DEF HeldUpTo
<1>6. StateTypes' /\ ClosedHoldsNothing' /\ AckedInMemory'
  BY <1>1, <1>5 DEF StateInv, StateTypes, ClosedHoldsNothing, AckedInMemory
<1>7. AckedInCopies'
  BY <1>1, <1>4, <1>5 DEF StateInv, AckedInCopies, AckedInMemory
<1>8. S!AckedIsDurable' /\ S!RemovedStaysRemoved' /\ S!CreatedIsSaved'
  BY <1>1 DEF StateInv, S!AckedIsDurable, S!RemovedStaysRemoved, S!CreatedIsSaved
<1> QED BY <1>6, <1>7, <1>8 DEF StateInv

(* Every caller has dropped its copy and the process is gone.               *)
LEMMA Dropped ==
  ASSUME StateInv, held' = [c \in Callers |-> S!NoCopy], now' \in Nat
  PROVE  held' \in HeldUpTo(now') /\ \A c \in Callers : held'[c].repo = None
<1>1. S!NoCopy \in [repo : Repos \cup {None}, copy : RepoUpTo(now')] /\ S!NoCopy.repo = None
  BY DEF S!NoCopy, S!NewRepository, RepoUpTo
<1> QED BY <1>1 DEF HeldUpTo

LEMMA StopStep ==
  ASSUME StateInv, NEW statusOK \in BOOLEAN, NEW closeOK \in BOOLEAN, S!Stop(statusOK, closeOK)
  PROVE  StateInv'
<1> USE RecordsAssumption
<1>1. /\ S!Tick /\ ~up' /\ ~started' /\ up' \in BOOLEAN /\ started' \in BOOLEAN
      /\ held' = [c \in Callers |-> S!NoCopy] /\ UNCHANGED <<torn, removed>>
      /\ mem' = [mem EXCEPT !.status = "stopping"] /\ disk' \in {mem', disk}
      /\ closeOK => disk' = mem'
      /\ acked' = IF closeOK THEN [acked EXCEPT !.total = mem.total, !.config = mem.config] ELSE acked
  BY DEF S!Stop, S!Save
<1>2. /\ up /\ now' \in Nat /\ now' \in 0 .. MaxWrites /\ mem \in SnapshotUpTo(now') /\ disk \in SnapshotUpTo(now')
      /\ acked \in AckedUpTo(now')
  <2>1. now' \in 0 .. MaxWrites
    BY <1>1 DEF S!Tick, StateInv, StateTypes
  <2> QED BY <1>1, <2>1, RepoFacts
<1>3. /\ mem' \in SnapshotUpTo(now') /\ mem'.repos = mem.repos
      /\ mem'.total = mem.total /\ mem'.config = mem.config
  BY <1>1, <1>2 DEF SnapshotUpTo
<1>4. mem.total \in 0 .. now' /\ mem.config \in 0 .. now'
  BY <1>2 DEF SnapshotUpTo
<1>5. /\ acked' \in AckedUpTo(now') /\ acked'.builds = acked.builds
      /\ closeOK => acked'.total = mem.total /\ acked'.config = mem.config
      /\ ~closeOK => acked' = acked
  BY <1>1, <1>2, <1>4 DEF AckedUpTo
<1>6. /\ mem.total >= acked.total /\ mem.config >= acked.config
      /\ disk.total >= acked.total /\ disk.config >= acked.config
  BY <1>2 DEF StateInv, AckedInMemory, S!AckedIsDurable
<1>7. disk'.total >= acked'.total /\ disk'.config >= acked'.config
  <2>1. CASE closeOK
    <3>1. disk'.total = acked'.total /\ disk'.config = acked'.config
      BY <2>1, <1>1, <1>3, <1>5
    <3>2. acked'.total \in Int /\ acked'.config \in Int
      BY <2>1, <1>2, <1>4, <1>5
    <3> QED BY <3>1, <3>2
  <2>2. CASE ~closeOK
    BY <2>2, <1>1, <1>3, <1>5, <1>6
  <2> QED BY <2>1, <2>2
<1>8. disk'.repos \in {mem.repos, disk.repos}
  BY <1>1, <1>3
<1>9. held' \in HeldUpTo(now') /\ \A c \in Callers : held'[c].repo = None
  BY <1>1, <1>2, Dropped
<1>10. StateTypes'
  BY <1>1, <1>2, <1>3, <1>5, <1>9 DEF StateInv, StateTypes
<1>11. S!AckedIsDurable'
  BY <1>1, <1>2, <1>5, <1>7, <1>8 DEF StateInv, AckedInMemory, S!AckedIsDurable
<1>12. ClosedHoldsNothing' /\ AckedInMemory' /\ AckedInCopies'
  BY <1>1, <1>9 DEF ClosedHoldsNothing, AckedInMemory, AckedInCopies
<1>13. S!RemovedStaysRemoved' /\ S!CreatedIsSaved'
  BY <1>1, <1>3, <1>8 DEF StateInv, S!RemovedStaysRemoved, S!CreatedIsSaved
<1> QED BY <1>10, <1>11, <1>12, <1>13 DEF StateInv

LEMMA CrashStep ==
  ASSUME StateInv, S!Crash
  PROVE  StateInv'
<1> USE RecordsAssumption
<1>1. /\ ~up' /\ ~started' /\ up' \in BOOLEAN /\ started' \in BOOLEAN /\ held' = [c \in Callers |-> S!NoCopy]
      /\ UNCHANGED <<mem, disk, now, acked, torn, removed>>
  BY DEF S!Crash
<1>2. held' \in HeldUpTo(now') /\ \A c \in Callers : held'[c].repo = None
  <2>1. now' \in Nat
    BY <1>1 DEF StateInv, StateTypes
  <2> QED BY <1>1, <2>1, Dropped
<1>3. StateTypes'
  BY <1>1, <1>2 DEF StateInv, StateTypes
<1>4. ClosedHoldsNothing' /\ AckedInMemory' /\ AckedInCopies'
  BY <1>1, <1>2 DEF ClosedHoldsNothing, AckedInMemory, AckedInCopies
<1>5. S!AckedIsDurable' /\ S!RemovedStaysRemoved' /\ S!CreatedIsSaved'
  BY <1>1 DEF StateInv, S!AckedIsDurable, S!RemovedStaysRemoved, S!CreatedIsSaved
<1> QED BY <1>3, <1>4, <1>5 DEF StateInv

(* A saved state is complete: applySnapshot brings it back as it was.       *)
LEMMA LoadedIsSaved ==
  ASSUME NEW n \in Nat, NEW file \in SnapshotUpTo(n)
  PROVE  S!Loaded(file) = file
<1> DEFINE F == {"repos", "builds", "schedules", "total", "config", "status"}
<1>1. DOMAIN S!Fresh = F
  BY DEF S!Fresh
<1>2. DOMAIN file = F /\ file = [x \in F |-> file[x]]
  BY DEF SnapshotUpTo
<1> QED BY <1>1, <1>2 DEF S!Loaded

LEMMA OpenStep ==
  ASSUME StateInv, S!Open
  PROVE  StateInv'
<1> USE RecordsAssumption
<1>1. ~up /\ up' = TRUE /\ UNCHANGED <<started, disk, held, now, acked, torn, removed>>
  BY DEF S!Open
<1>2. mem' = disk
  BY LoadedIsSaved DEF S!Open, StateInv, StateTypes
<1>3. StateTypes' /\ ClosedHoldsNothing' /\ AckedInCopies'
  BY <1>1, <1>2 DEF StateInv, StateTypes, ClosedHoldsNothing, AckedInCopies
<1>4. AckedInMemory' /\ S!AckedIsDurable'
  BY <1>1, <1>2 DEF StateInv, AckedInMemory, S!AckedIsDurable
<1>5. S!RemovedStaysRemoved' /\ S!CreatedIsSaved'
  BY <1>1, <1>2 DEF StateInv, S!RemovedStaysRemoved, S!CreatedIsSaved
<1> QED BY <1>3, <1>4, <1>5 DEF StateInv

LEMMA StateStutter ==
  ASSUME StateInv, UNCHANGED stateVars
  PROVE  StateInv'
<1>1. StateTypes' /\ ClosedHoldsNothing' /\ AckedInMemory' /\ AckedInCopies'
  BY DEF StateInv, stateVars, StateTypes, ClosedHoldsNothing, AckedInMemory, AckedInCopies
<1>2. S!AckedIsDurable' /\ S!RemovedStaysRemoved' /\ S!CreatedIsSaved'
  BY DEF StateInv, stateVars, S!AckedIsDurable, S!RemovedStaysRemoved, S!CreatedIsSaved
<1> QED BY <1>1, <1>2 DEF StateInv

LEMMA StateStep ==
  ASSUME StateInv, S!Next
  PROVE  StateInv'
BY EnsureStep, RemoveStep, IncrementStep, SetDocsStep, CopyStep, UpdateStep, OtherSteps,
   StopStep, CrashStep, OpenStep DEF S!Next

(* The state store keeps its invariant, whichever part a behaviour is of.   *)
THEOREM StateIsKept == Spec => [](part = "state" => StateInv)
<1> DEFINE I == part = "state" => StateInv
<1>1. Init => I
  BY StateInit DEF Init
<1>2. I /\ [Next]_vars => I'
  <2> SUFFICES ASSUME I, [Next]_vars, part' = "state" PROVE StateInv'
    OBVIOUS
  <2>1. part = "state" /\ StateInv
    BY DEF Next, vars
  <2>2. S!Next \/ UNCHANGED stateVars
    BY <2>1 DEF Next, vars, stateVars
  <2> QED BY <2>1, <2>2, StateStep, StateStutter
<1> QED BY <1>1, <1>2, PTL DEF Spec

(* What the state store has reported as written is on the disk, and a       *)
(* creation it has refused is in memory neither: for any number of callers, *)
(* repositories, failed saves, crashes and restarts.                        *)
THEOREM ReportedIsSaved == Spec => []SavedAsReported
<1>1. (part = "state" => StateInv) => SavedAsReported
  BY DEF StateInv, SavedAsReported
<1> QED BY <1>1, StateIsKept, PTL

(* A repository whose removal the state store reported does not come back   *)
(* through the copy a caller took before.                                   *)
THEOREM RemovalIsFinal == Spec => []RemovedStaysRemoved
<1>1. (part = "state" => StateInv) => RemovedStaysRemoved
  BY DEF StateInv, RemovedStaysRemoved
<1> QED BY <1>1, StateIsKept, PTL

-----------------------------------------------------------------------------
(* The build history.                                                      *)

Events == [build : Builds, type : H!EventTypes, time : Nat]
Ends == {"BuildCompleted", "BuildFailed"}
Summaries == [status : {"none", "running", "completed", "failed"}, startedAt : Nat, report : BOOLEAN]

(* The order in which a worker goes through the steps of its build.         *)
Rank == [t \in H!EventTypes \cup {"idle", "done"} |->
           CASE t = "idle" -> 0 [] t = "BuildStarted" -> 1 [] t = "BuildReportGenerated" -> 2
             [] t \in Ends -> 3 [] t = "done" -> 4]

(* The events of one build are in the log in that order, each step once.    *)
InOrder(l) ==
  \A i, j \in DOMAIN l : i < j /\ l[i].build = l[j].build => Rank[l[i].type] < Rank[l[j].type]

(* What the summary of a build is when the events at the places A of the    *)
(* log are applied, in whatever order the builds' events interleave.        *)
IsSummary(s, l, A) ==
  /\ s \in Summaries
  /\ s = H!NoSummary <=> A = {}
  /\ s.status = "completed" <=> \E i \in A : l[i].type = "BuildCompleted"
  /\ s.status = "failed" <=> \E i \in A : l[i].type = "BuildFailed"
  /\ s.status = "none" <=> A = {}
  /\ s.report = TRUE <=> \E i \in A : l[i].type = "BuildReportGenerated"
  /\ \A i \in A : (\A j \in A : i <= j) => s.startedAt = l[i].time

Of(l, A, b) == {i \in A : l[i].build = b}
Ended(l, A) == {l[i].build : i \in {k \in A : l[k].type \in Ends}}

(* A history of the finished builds F: all of them, or MaxHistory of them.  *)
IsHistory(h, F) ==
  /\ h \in Seq(F) /\ IsFiniteSet(F)
  /\ Len(h) = IF Cardinality(F) < MaxHistory THEN Cardinality(F) ELSE MaxHistory
  /\ Cardinality(F) <= MaxHistory => F \subseteq H!Range(h)

IsProjection(bs, h, l, A) ==
  /\ bs \in [Builds -> Summaries]
  /\ \A b \in Builds : IsSummary(bs[b], l, Of(l, A, b))
  /\ IsHistory(h, Ended(l, A))

AppliedPlaces(l, left) == {i \in DOMAIN l : l[i] \notin left}

HistoryTypes ==
  /\ clock \in Nat /\ log \in Seq(Events) /\ rebuilt \in BOOLEAN /\ missing \subseteq Builds
  /\ next \in [Builds -> H!EventTypes \cup {"idle", "done"}]
  /\ unapplied \in [Builds -> {<<>>} \cup {<<e>> : e \in Events}]

(* An event that waits to be applied is the one its worker is at, and no    *)
(* other event of that build is later.                                      *)
UnappliedIsLast ==
  /\ \A b \in Builds : unapplied[b] # <<>> =>
       \E i \in DOMAIN log : unapplied[b] = <<log[i]>> /\ log[i].build = b /\ log[i].type = next[b]
  /\ \A i \in DOMAIN log :
       /\ Rank[log[i].type] <= Rank[next[log[i].build]]
       /\ Rank[log[i].type] = Rank[next[log[i].build]] => unapplied[log[i].build] = <<log[i]>>

DoneIsLogged ==
  \A b \in Builds \ missing : next[b] = "done" => \E i \in DOMAIN log : log[i].build = b /\ log[i].type \in Ends

StoppedIsQuiet ==
  ~rebuilt => \A b \in Builds : unapplied[b] = <<>> /\ next[b] \in {"idle", "done"}

HistoryInv ==
  /\ HistoryTypes /\ InOrder(log) /\ UnappliedIsLast /\ DoneIsLogged /\ StoppedIsQuiet
  /\ rebuilt => IsProjection(builds, history, log, AppliedPlaces(log, H!Unapplied))

(* Applying the next event of a build extends what its summary stands for: BuildStarted is its first event,
   and a build ends once. *)
LEMMA SummaryStep ==
  ASSUME NEW l \in Seq(Events), InOrder(l), NEW A \in SUBSET DOMAIN l, NEW k \in DOMAIN l, k \notin A,
         \A i \in A : l[i].build = l[k].build /\ i < k,
         NEW s, IsSummary(s, l, A)
  PROVE  IsSummary(H!Summarise(s, l[k]), l, A \cup {k})
<1> DEFINE new == H!Summarise(s, l[k])
           old == IF s = H!NoSummary THEN [status |-> "running", startedAt |-> l[k].time, report |-> FALSE] ELSE s
<1>0. \A i \in DOMAIN l : l[i] \in Events
  OBVIOUS
<1>1. l[k].type \in H!EventTypes /\ l[k].time \in Nat /\ \A i \in A : l[i].type \in H!EventTypes
  BY <1>0 DEF Events
<1>2. DOMAIN l \subseteq Nat /\ DOMAIN l = 1..Len(l)
  OBVIOUS
<1>3. \A i \in A : Rank[l[i].type] < Rank[l[k].type]
  BY <1>2 DEF InOrder
<1>4. Rank["BuildStarted"] = 1 /\ Rank["BuildReportGenerated"] = 2 /\ Rank["BuildCompleted"] = 3 /\ Rank["BuildFailed"] = 3
  BY DEF Rank, H!EventTypes, Ends
<1>5. l[k].type = "BuildStarted" => A = {}
  BY <1>1, <1>3, <1>4 DEF H!EventTypes
<1>6. l[k].type \in Ends => \A i \in A : l[i].type \notin Ends
  BY <1>3, <1>4 DEF Ends
<1>7. old \in Summaries /\ old.status # "none"
      /\ (old.status = "completed" <=> \E i \in A : l[i].type = "BuildCompleted")
      /\ (old.status = "failed" <=> \E i \in A : l[i].type = "BuildFailed")
      /\ (old.report = TRUE <=> \E i \in A : l[i].type = "BuildReportGenerated")
  <2>1. CASE A = {}
    <3>1. s = H!NoSummary
      BY <2>1 DEF IsSummary
    <3>2. old = [status |-> "running", startedAt |-> l[k].time, report |-> FALSE]
      BY <3>1
    <3> HIDE DEF old
    <3>3. old \in Summaries /\ old.status = "running" /\ old.report = FALSE
      BY <3>2, <1>1 DEF Summaries
    <3> QED BY <2>1, <3>3
  <2>2. CASE A # {}
    BY <2>2 DEF IsSummary
  <2> QED BY <2>1, <2>2
<1>8. \A i \in A \cup {k} : (\A j \in A \cup {k} : i <= j) => old.startedAt = l[i].time
  <2>1. CASE A = {}
    BY <2>1 DEF IsSummary
  <2>2. CASE A # {}
    <3>1. old = s
      BY <2>2 DEF IsSummary
    <3>2. PICK i0 \in A : TRUE
      BY <2>2
    <3>3. ~(k <= i0)
      BY <3>2, <1>2
    <3> QED BY <3>1, <3>2, <3>3, <2>2 DEF IsSummary
  <2> QED BY <2>1, <2>2
<1>13. A \cup {k} # {} /\ \A t : (\E i \in A \cup {k} : l[i].type = t) <=> (l[k].type = t \/ \E i \in A : l[i].type = t)
  OBVIOUS
<1>14. ASSUME new \in Summaries, new.status # "none",
              new.status = "completed" <=> \E i \in A \cup {k} : l[i].type = "BuildCompleted",
              new.status = "failed" <=> \E i \in A \cup {k} : l[i].type = "BuildFailed",
              new.report = TRUE <=> \E i \in A \cup {k} : l[i].type = "BuildReportGenerated",
              \A i \in A \cup {k} : (\A j \in A \cup {k} : i <= j) => new.startedAt = l[i].time
       PROVE  IsSummary(new, l, A \cup {k})
  <2>1. new # H!NoSummary
    BY <1>14 DEF H!NoSummary
  <2> HIDE DEF new
  <2> QED BY <1>13, <1>14, <2>1, Zenon DEF IsSummary
<1>9. CASE l[k].type = "BuildStarted"
  <2>1. new = [old EXCEPT !.startedAt = l[k].time, !.status = "running"]
    BY <1>9 DEF H!Summarise
  <2>2. A = {} /\ new \in Summaries /\ new.status = "running" /\ new.startedAt = l[k].time /\ new.report = old.report
    BY <1>1, <1>5, <1>7, <1>9, <2>1 DEF Summaries
  <2> HIDE DEF new, old
  <2>4. (new.status = "completed" <=> \E i \in A \cup {k} : l[i].type = "BuildCompleted")
        /\ (new.status = "failed" <=> \E i \in A \cup {k} : l[i].type = "BuildFailed")
        /\ (new.report = TRUE <=> \E i \in A \cup {k} : l[i].type = "BuildReportGenerated")
    BY <1>7, <1>13, <1>9, <2>2
  <2>5. \A i \in A \cup {k} : (\A j \in A \cup {k} : i <= j) => new.startedAt = l[i].time
    BY <1>8, <2>2
  <2>6. new.status # "none"
    BY <1>7, <2>2
  <2> QED BY <1>14, <2>2, <2>4, <2>5, <2>6, Zenon DEF new
<1>10. CASE l[k].type = "BuildCompleted"
  <2>1. new = [old EXCEPT !.status = "completed"]
    BY <1>10 DEF H!Summarise
  <2>2. new \in Summaries /\ new.status = "completed" /\ new.startedAt = old.startedAt /\ new.report = old.report
    BY <1>7, <2>1 DEF Summaries
  <2>3. ~ \E i \in A : l[i].type = "BuildFailed"
    BY <1>6, <1>10 DEF Ends
  <2> HIDE DEF new, old
  <2>4. (new.status = "completed" <=> \E i \in A \cup {k} : l[i].type = "BuildCompleted")
        /\ (new.status = "failed" <=> \E i \in A \cup {k} : l[i].type = "BuildFailed")
        /\ (new.report = TRUE <=> \E i \in A \cup {k} : l[i].type = "BuildReportGenerated")
    BY <1>7, <1>13, <1>10, <2>2, <2>3
  <2>5. \A i \in A \cup {k} : (\A j \in A \cup {k} : i <= j) => new.startedAt = l[i].time
    BY <1>8, <2>2
  <2>6. new.status # "none"
    BY <1>7, <2>2
  <2> QED BY <1>14, <2>2, <2>4, <2>5, <2>6, Zenon DEF new
<1>11. CASE l[k].type = "BuildFailed"
  <2>1. new = [old EXCEPT !.status = "failed"]
    BY <1>11 DEF H!Summarise
  <2>2. new \in Summaries /\ new.status = "failed" /\ new.startedAt = old.startedAt /\ new.report = old.report
    BY <1>7, <2>1 DEF Summaries
  <2>3. ~ \E i \in A : l[i].type = "BuildCompleted"
    BY <1>6, <1>11 DEF Ends
  <2> HIDE DEF new, old
  <2>4. (new.status = "completed" <=> \E i \in A \cup {k} : l[i].type = "BuildCompleted")
        /\ (new.status = "failed" <=> \E i \in A \cup {k} : l[i].type = "BuildFailed")
        /\ (new.report = TRUE <=> \E i \in A \cup {k} : l[i].type = "BuildReportGenerated")
    BY <1>7, <1>13, <1>11, <2>2, <2>3
  <2>5. \A i \in A \cup {k} : (\A j \in A \cup {k} : i <= j) => new.startedAt = l[i].time
    BY <1>8, <2>2
  <2>6. new.status # "none"
    BY <1>7, <2>2
  <2> QED BY <1>14, <2>2, <2>4, <2>5, <2>6, Zenon DEF new
<1>12. CASE l[k].type = "BuildReportGenerated"
  <2>1. new = [old EXCEPT !.report = TRUE]
    BY <1>12 DEF H!Summarise
  <2>2. new \in Summaries /\ new.status = old.status /\ new.startedAt = old.startedAt /\ new.report = TRUE
    BY <1>7, <2>1 DEF Summaries
  <2> HIDE DEF new, old
  <2>4. (new.status = "completed" <=> \E i \in A \cup {k} : l[i].type = "BuildCompleted")
        /\ (new.status = "failed" <=> \E i \in A \cup {k} : l[i].type = "BuildFailed")
        /\ (new.report = TRUE <=> \E i \in A \cup {k} : l[i].type = "BuildReportGenerated")
    BY <1>7, <1>13, <1>12, <2>2
  <2>5. \A i \in A \cup {k} : (\A j \in A \cup {k} : i <= j) => new.startedAt = l[i].time
    BY <1>8, <2>2
  <2>6. new.status # "none"
    BY <1>7, <2>2
  <2> QED BY <1>14, <2>2, <2>4, <2>5, <2>6, Zenon DEF new
<1> QED BY <1>1, <1>9, <1>10, <1>11, <1>12 DEF H!EventTypes

(* A build that has just ended goes to the front, and the tail is cut at MaxHistory. *)
LEMMA HistoryStep ==
  ASSUME MaxHistory \in Nat \ {0}, NEW h, NEW F, IsHistory(h, F), NEW b, b \notin F
  PROVE  IsHistory(H!AddToHistory(h, b), F \cup {b})
<1> DEFINE n == Cardinality(F)
           m == IF Len(h) < MaxHistory THEN Len(h) + 1 ELSE MaxHistory
           new == SubSeq(<<b>> \o h, 1, m)
<1>1. n \in Nat /\ IsFiniteSet(F) /\ h \in Seq(F) /\ Len(h) = (IF n < MaxHistory THEN n ELSE MaxHistory)
      /\ (n <= MaxHistory => F \subseteq H!Range(h))
  BY FS_CardinalityType DEF IsHistory
<1>2. IsFiniteSet(F \cup {b}) /\ Cardinality(F \cup {b}) = n + 1
  BY <1>1, FS_AddElement
<1>3. b \notin H!Range(h)
  BY <1>1 DEF H!Range
<1>4. H!AddToHistory(h, b) = new
  BY <1>3 DEF H!AddToHistory
<1> HIDE DEF n
<1>5. <<b>> \o h \in Seq(F \cup {b}) /\ Len(<<b>> \o h) = Len(h) + 1 /\ Len(h) \in Nat
  <2>1. <<b>> \in Seq(F \cup {b}) /\ h \in Seq(F \cup {b})
    BY <1>1
  <2> QED BY <2>1
<1>6. m \in 1..(Len(h) + 1) /\ m = (IF n + 1 < MaxHistory THEN n + 1 ELSE MaxHistory)
  BY <1>1, <1>5
<1> HIDE DEF m
<1>7. new \in Seq(F \cup {b}) /\ Len(new) = m /\ \A i \in 1..m : new[i] = (<<b>> \o h)[i]
  BY <1>5, <1>6
<1>8. ASSUME n + 1 <= MaxHistory PROVE F \cup {b} \subseteq H!Range(new)
  <2>1. Len(h) = n /\ m = n + 1 /\ F \subseteq H!Range(h)
    BY <1>1, <1>6, <1>8
  <2>2. new[1] = b /\ DOMAIN new = 1..m
    BY <1>1, <1>5, <1>6, <1>7
  <2>3. ASSUME NEW x \in F PROVE x \in H!Range(new)
    <3>1. PICK i \in 1..n : x = h[i]
      BY <1>1, <2>1, <2>3 DEF H!Range
    <3>2. i + 1 \in 1..m
      BY <1>1, <2>1, <3>1
    <3>4. (<<b>> \o h)[i + 1] = h[i]
      BY <1>1, <2>1, <3>1
    <3>3. new[i + 1] = h[i]
      BY <1>7, <3>2, <3>4
    <3> QED BY <2>2, <3>1, <3>2, <3>3 DEF H!Range
  <2>4. 1 \in DOMAIN new
    BY <1>1, <2>1, <2>2
  <2>5. b \in H!Range(new)
    BY <2>2, <2>4 DEF H!Range
  <2> HIDE DEF new
  <2> QED BY <2>3, <2>5
<1> QED BY <1>2, <1>4, <1>6, <1>7, <1>8 DEF IsHistory

(* One applied event, in a log where the build has no later one among the applied: the same for a replay
   and for a worker that applies its event after others have overtaken it. *)
LEMMA ProjectionStep ==
  ASSUME NEW l \in Seq(Events), InOrder(l), NEW A \in SUBSET DOMAIN l, NEW k \in DOMAIN l, k \notin A,
         \A i \in A : l[i].build = l[k].build => i < k,
         NEW p, IsProjection(p.builds, p.history, l, A)
  PROVE  IsProjection(H!ApplyEvent(p, l[k]).builds, H!ApplyEvent(p, l[k]).history, l, A \cup {k})
<1> DEFINE b == l[k].build
           new == H!ApplyEvent(p, l[k])
<1>1. \A i \in DOMAIN l : l[i] \in Events
  OBVIOUS
<1>2. b \in Builds /\ l[k].type \in H!EventTypes
  BY <1>1 DEF Events
<1>3. new.builds = [p.builds EXCEPT ![b] = H!Summarise(p.builds[b], l[k])]
      /\ new.history = IF l[k].type \in Ends THEN H!AddToHistory(p.history, b) ELSE p.history
  BY DEF H!ApplyEvent, Ends
<1> HIDE DEF new
<1>4. Of(l, A \cup {k}, b) = Of(l, A, b) \cup {k} /\ \A c \in Builds \ {b} : Of(l, A \cup {k}, c) = Of(l, A, c)
  BY DEF Of
<1>5. IsSummary(H!Summarise(p.builds[b], l[k]), l, Of(l, A \cup {k}, b))
  <2>1. IsSummary(p.builds[b], l, Of(l, A, b))
    BY <1>2 DEF IsProjection
  <2>2. Of(l, A, b) \in SUBSET DOMAIN l /\ k \notin Of(l, A, b) /\ \A i \in Of(l, A, b) : l[i].build = l[k].build /\ i < k
    BY DEF Of
  <2>3. IsSummary(H!Summarise(p.builds[b], l[k]), l, Of(l, A, b) \cup {k})
    BY <2>1, <2>2, SummaryStep
  <2> QED BY <1>4, <2>3
<1>6. new.builds \in [Builds -> Summaries] /\ \A c \in Builds : IsSummary(new.builds[c], l, Of(l, A \cup {k}, c))
  <2>1. H!Summarise(p.builds[b], l[k]) \in Summaries
    BY <1>5 DEF IsSummary
  <2>2. p.builds \in [Builds -> Summaries]
    BY DEF IsProjection
  <2>3. new.builds \in [Builds -> Summaries] /\ new.builds[b] = H!Summarise(p.builds[b], l[k])
        /\ \A c \in Builds \ {b} : new.builds[c] = p.builds[c]
    BY <1>2, <1>3, <2>1, <2>2
  <2>4. ASSUME NEW c \in Builds PROVE IsSummary(new.builds[c], l, Of(l, A \cup {k}, c))
    <3>1. CASE c = b
      BY <1>5, <2>3, <3>1
    <3>2. CASE c # b
      BY <1>4, <2>3, <3>2 DEF IsProjection
    <3> QED BY <3>1, <3>2
  <2> QED BY <2>3, <2>4
<1>7. IsHistory(new.history, Ended(l, A \cup {k}))
  <2>1. IsHistory(p.history, Ended(l, A))
    BY DEF IsProjection
  <2>2. CASE l[k].type \in Ends
    <3>1. Ended(l, A \cup {k}) = Ended(l, A) \cup {b}
      BY <2>2 DEF Ended
    <3>2. b \notin Ended(l, A)
      <4>1. SUFFICES ASSUME NEW i \in A, l[i].type \in Ends, l[i].build = b PROVE FALSE
        BY DEF Ended
      <4>2. Rank[l[i].type] < Rank[l[k].type]
        BY <4>1 DEF InOrder
      <4>3. Rank[l[i].type] = 3 /\ Rank[l[k].type] = 3
        BY <2>2, <4>1 DEF Rank, Ends, H!EventTypes
      <4> QED BY <4>2, <4>3
    <3>3. IsHistory(H!AddToHistory(p.history, b), Ended(l, A) \cup {b})
      BY <2>1, <3>2, HistoryStep, RecordsAssumption
    <3> QED BY <1>3, <2>2, <3>1, <3>3
  <2>3. CASE l[k].type \notin Ends
    <3>1. Ended(l, A \cup {k}) = Ended(l, A)
      BY <2>3 DEF Ended
    <3> QED BY <1>3, <2>1, <2>3, <3>1
  <2> QED BY <2>2, <2>3
<1> QED BY <1>6, <1>7 DEF IsProjection, new

(* Induction over the log is by its least counterexample. *)
LEMMA Least ==
  ASSUME NEW T \in SUBSET Nat, T # {}
  PROVE  \E m \in T : \A n \in T : m <= n
<1>1. PICK m \in T : \A n \in T : ~(<<n, m>> \in OpToRel(<, Nat))
  BY NatLessThanWellFounded, WFMin
<1>2. \A n \in T : ~(n < m)
  BY <1>1 DEF OpToRel
<1> QED BY <1>2

(* A new projection stands for no event. *)
LEMMA EmptyProjection == ASSUME NEW l PROVE IsProjection(H!Empty.builds, H!Empty.history, l, {})
<1>1. H!Empty.builds = [b \in Builds |-> H!NoSummary] /\ H!Empty.history = <<>>
  BY DEF H!Empty
<1>2. H!NoSummary \in Summaries /\ H!NoSummary.status = "none" /\ H!NoSummary.report = FALSE
  BY DEF H!NoSummary, Summaries
<1>3. \A b \in Builds : Of(l, {}, b) = {}
  BY DEF Of
<1>4. IsSummary(H!NoSummary, l, {})
  BY <1>2 DEF IsSummary
<1>5. Ended(l, {}) = {}
  BY DEF Ended
<1>6. IsHistory(<<>>, {})
  <2>1. IsFiniteSet({}) /\ Cardinality({}) = 0
    BY FS_EmptySet
  <2>2. <<>> \in Seq({}) /\ Len(<<>>) = 0
    OBVIOUS
  <2> QED BY <2>1, <2>2, RecordsAssumption DEF IsHistory
<1> HIDE DEF H!NoSummary
<1> QED BY <1>1, <1>2, <1>3, <1>4, <1>5, <1>6 DEF IsProjection

(* A replay exists and stands for the events that it does not leave out: both by induction over the log. *)
LEMMA ReplayIsProjection ==
  ASSUME NEW l \in Seq(Events), InOrder(l), NEW left
  PROVE  IsProjection(H!Replay(l, left).builds, H!Replay(l, left).history, l, AppliedPlaces(l, left))
<1> DEFINE N == Len(l)
           Step(f, n) == IF n = 0 THEN H!Empty
                         ELSE IF l[n] \in left THEN f[n - 1] ELSE H!ApplyEvent(f[n - 1], l[n])
           Solves(f, m) == f = [n \in 0..m |-> Step(f, n)]
<1>0. N \in Nat /\ DOMAIN l = 1..N
  OBVIOUS
<1>1. \E f : Solves(f, N)
  <2> DEFINE T == {m \in 0..N : ~ \E f : Solves(f, m)}
  <2>1. SUFFICES ASSUME T # {} PROVE FALSE
    BY <1>0
  <2>7. T \in SUBSET Nat
    BY <1>0
  <2>2. PICK m \in T : \A n \in T : m <= n
    <3> HIDE DEF T
    <3> QED BY <2>1, <2>7, Least
  <2>3. m \in 0..N /\ ~ \E f : Solves(f, m)
    BY <2>2
  <2>4. CASE m = 0
    <3> DEFINE f == [n \in 0..0 |-> H!Empty]
    <3>1. Solves(f, 0)
      OBVIOUS
    <3> HIDE DEF f, Solves
    <3> QED BY <2>3, <2>4, <3>1
  <2>5. CASE m # 0
    <3>1. m - 1 \in 0..N /\ m - 1 \notin T
      <4> HIDE DEF T
      <4> QED BY <1>0, <2>2, <2>3, <2>5
    <3>2. PICK f : Solves(f, m - 1)
      BY <3>1
    <3> DEFINE g == [n \in 0..m |-> IF n = m THEN Step(f, m) ELSE f[n]]
    <3>3. ASSUME NEW n \in 0..m PROVE g[n] = Step(g, n)
      <4>1. CASE n = m
        <5>1. g[n - 1] = f[n - 1]
          BY <1>0, <2>3, <2>5, <4>1
        <5>2. g[n] = Step(f, n)
          BY <4>1
        <5> HIDE DEF g
        <5> QED BY <5>1, <5>2
      <4>2. CASE n # m
        <5>1. n \in 0..(m - 1) /\ g[n] = f[n]
          BY <1>0, <2>3, <3>3, <4>2
        <5>2. f[n] = Step(f, n)
          BY <3>2, <5>1
        <5>3. n # 0 => g[n - 1] = f[n - 1]
          BY <1>0, <2>3, <3>3, <4>2
        <5> HIDE DEF g
        <5> QED BY <5>1, <5>2, <5>3
      <4> QED BY <4>1, <4>2
    <3>4. Solves(g, m)
      <4>1. g = [n \in 0..m |-> g[n]]
        OBVIOUS
      <4> HIDE DEF g, Step
      <4> QED BY <3>3, <4>1
    <3> HIDE DEF g, Solves
    <3> QED BY <2>3, <3>4
  <2> QED BY <2>4, <2>5
<1> DEFINE r == CHOOSE f : Solves(f, N)
<1>2. Solves(r, N)
  BY <1>1
<1>3. H!Replay(l, left) = r[N]
  BY DEF H!Replay
<1> DEFINE A(n) == {i \in 1..n : l[i] \notin left}
           Good(n) == IsProjection(r[n].builds, r[n].history, l, A(n))
<1> HIDE DEF r
<1>4. Good(N)
  <2> DEFINE T == {m \in 0..N : ~Good(m)}
  <2> HIDE DEF Good
  <2>1. SUFFICES ASSUME T # {} PROVE FALSE
    BY <1>0
  <2>7. T \in SUBSET Nat
    BY <1>0
  <2>2. PICK m \in T : \A n \in T : m <= n
    <3> HIDE DEF T
    <3> QED BY <2>1, <2>7, Least
  <2>3. m \in 0..N /\ ~Good(m)
    BY <2>2
  <2>4. r[m] = Step(r, m)
    BY <1>2, <2>3
  <2>5. CASE m = 0
    <3>1. A(0) = {} /\ r[0] = H!Empty
      BY <2>4, <2>5
    <3> QED BY <2>3, <2>5, <3>1, EmptyProjection DEF Good
  <2>6. CASE m # 0
    <3>1. m - 1 \in 0..N /\ m - 1 \notin T /\ m \in DOMAIN l
      <4> HIDE DEF T
      <4> QED BY <1>0, <2>2, <2>3, <2>6
    <3>2. IsProjection(r[m - 1].builds, r[m - 1].history, l, A(m - 1))
      BY <3>1 DEF Good
    <3>3. CASE l[m] \in left
      <4>1. A(m) = A(m - 1)
        BY <1>0, <2>3, <2>6, <3>3
      <4>2. r[m] = r[m - 1]
        BY <2>4, <2>6, <3>3
      <4> QED BY <2>3, <3>2, <4>1, <4>2 DEF Good
    <3>4. CASE l[m] \notin left
      <4>1. A(m) = A(m - 1) \cup {m}
        BY <1>0, <2>3, <2>6, <3>4
      <4>2. r[m] = H!ApplyEvent(r[m - 1], l[m])
        BY <2>4, <2>6, <3>4
      <4>3. A(m - 1) \in SUBSET DOMAIN l /\ m \notin A(m - 1) /\ \A i \in A(m - 1) : i < m
        BY <1>0, <2>3, <2>6
      <4> HIDE DEF A
      <4>4. IsProjection(H!ApplyEvent(r[m - 1], l[m]).builds, H!ApplyEvent(r[m - 1], l[m]).history, l, A(m - 1) \cup {m})
        BY <3>1, <3>2, <4>3, ProjectionStep
      <4> QED BY <2>3, <4>1, <4>2, <4>4 DEF Good
    <3> QED BY <3>3, <3>4
  <2> QED BY <2>5, <2>6
<1>5. A(N) = AppliedPlaces(l, left)
  BY <1>0 DEF AppliedPlaces
<1> QED BY <1>3, <1>4, <1>5

(* A projection does not depend on the rest of the log. *)
LEMMA ProjectionTransfer ==
  ASSUME NEW l, NEW m, NEW A, \A i \in A : m[i] = l[i], NEW bs, NEW h, IsProjection(bs, h, l, A)
  PROVE  IsProjection(bs, h, m, A)
<1>1. Ended(m, A) = Ended(l, A)
  BY DEF Ended
<1>2. ASSUME NEW b \in Builds PROVE IsSummary(bs[b], m, Of(m, A, b))
  <2>1. Of(m, A, b) = Of(l, A, b) /\ Of(l, A, b) \subseteq A
    BY DEF Of
  <2>2. IsSummary(bs[b], l, Of(l, A, b))
    BY <1>2 DEF IsProjection
  <2>3. \A i \in Of(l, A, b) : m[i] = l[i]
    BY <2>1
  <2> DEFINE B == Of(l, A, b)
  <2> HIDE DEF B
  <2>4. IsSummary(bs[b], m, B)
    BY <2>2, <2>3 DEF IsSummary, B
  <2> QED BY <2>1, <2>4 DEF B
<1> QED BY <1>1, <1>2 DEF IsProjection

(* Two summaries that stand for the same events are the same. *)
LEMMA SummaryIsUnique ==
  ASSUME NEW l, NEW A, A \subseteq Nat, NEW s, NEW t, IsSummary(s, l, A), IsSummary(t, l, A)
  PROVE  s = t
<1>1. CASE A = {}
  BY <1>1 DEF IsSummary
<1>2. CASE A # {}
  <2>1. PICK i \in A : \A j \in A : i <= j
    BY <1>2, Least
  <2>2. s.startedAt = t.startedAt
    BY <2>1 DEF IsSummary
  <2>3. s \in Summaries /\ t \in Summaries
    BY DEF IsSummary
  <2>4. s.status = t.status
    <3>1. s.status \in {"none", "running", "completed", "failed"} /\ t.status \in {"none", "running", "completed", "failed"}
      BY <2>3 DEF Summaries
    <3> QED BY <3>1 DEF IsSummary
  <2>5. s.report = t.report
    <3>1. s.report \in BOOLEAN /\ t.report \in BOOLEAN
      BY <2>3 DEF Summaries
    <3> QED BY <3>1, Zenon DEF IsSummary
  <2> QED BY <2>2, <2>3, <2>4, <2>5 DEF Summaries
<1> QED BY <1>1, <1>2

(* Two projections of the same events have the same summaries, histories of the same length, and the same
   finished builds unless some were cut off. *)
LEMMA ProjectionsAgree ==
  ASSUME NEW l, NEW A, A \subseteq Nat, NEW bs, NEW h, IsProjection(bs, h, l, A),
         NEW cs, NEW g, IsProjection(cs, g, l, A)
  PROVE  /\ bs = cs /\ Len(h) = Len(g)
         /\ Cardinality(Ended(l, A)) <= MaxHistory => H!Range(h) = H!Range(g)
<1>1. ASSUME NEW b \in Builds PROVE bs[b] = cs[b]
  <2>1. Of(l, A, b) \subseteq Nat /\ IsSummary(bs[b], l, Of(l, A, b)) /\ IsSummary(cs[b], l, Of(l, A, b))
    BY <1>1 DEF IsProjection, Of
  <2> QED BY <2>1, SummaryIsUnique
<1>2. bs = cs
  BY <1>1 DEF IsProjection
<1> DEFINE F == Ended(l, A)
<1> HIDE DEF F
<1>3. IsHistory(h, F) /\ IsHistory(g, F)
  BY DEF IsProjection, F
<1>4. Len(h) = Len(g)
  BY <1>3 DEF IsHistory
<1>5. H!Range(h) \subseteq F /\ H!Range(g) \subseteq F
  BY <1>3 DEF IsHistory, H!Range
<1>6. Cardinality(F) <= MaxHistory => H!Range(h) = H!Range(g)
  BY <1>3, <1>5 DEF IsHistory
<1> QED BY <1>2, <1>4, <1>6 DEF F

(* Sorting permutes a history. *)
LEMMA SortedHistory ==
  ASSUME NEW p, NEW F, IsHistory(p.history, F), NEW h \in H!SortHistory(p)
  PROVE  IsHistory(h, F)
<1> DEFINE D == DOMAIN p.history
           q == p.history
<1>1. PICK o \in H!Bijection(D, D) : h = [i \in D |-> q[o[i]]]
  BY DEF H!SortHistory
<1>2. o \in [D -> D] /\ \A t \in D : \E i \in D : o[i] = t
  BY DEF H!Bijection, H!Injection, H!Surjection
<1>3. q \in Seq(F) /\ D = 1..Len(q) /\ Len(q) \in Nat
  BY DEF IsHistory
<1>4. h \in Seq(F) /\ Len(h) = Len(q)
  <2>1. ASSUME NEW i \in 1..Len(q) PROVE h[i] \in F
    <3>1. o[i] \in 1..Len(q) /\ h[i] = q[o[i]]
      BY <1>1, <1>2, <1>3
    <3> HIDE DEF q
    <3> QED BY <1>3, <3>1
  <2>2. h = [i \in 1..Len(q) |-> h[i]]
    BY <1>1, <1>3
  <2>3. [i \in 1..Len(q) |-> h[i]] \in Seq(F) /\ Len([i \in 1..Len(q) |-> h[i]]) = Len(q)
    BY <1>3, <2>1
  <2> QED BY <2>2, <2>3
<1>5. H!Range(q) \subseteq H!Range(h)
  BY <1>1, <1>2 DEF H!Range
<1> QED BY <1>4, <1>5 DEF IsHistory

(* The ranks, and the step a worker takes from each event. *)
LEMMA RankFacts ==
  /\ Rank["idle"] = 0 /\ Rank["BuildStarted"] = 1 /\ Rank["BuildReportGenerated"] = 2
  /\ Rank["BuildCompleted"] = 3 /\ Rank["BuildFailed"] = 3 /\ Rank["done"] = 4
  /\ \A t \in H!EventTypes \cup {"idle", "done"} : Rank[t] \in 0..4
BY DEF Rank, H!EventTypes, Ends

(* A worker only goes on, and it is done after an end. *)
LEMMA FollowingFacts ==
  ASSUME NEW t \in H!EventTypes, NEW then \in H!Following(t)
  PROVE  then \in H!EventTypes \cup {"done"} /\ Rank[t] < Rank[then] /\ (then = "done" => t \in Ends)
BY RankFacts DEF H!EventTypes, H!Following, Ends

(* An event in hand is not none. *)
LEMMA OneIsNotEmpty == \A x : <<x>> # <<>>
OBVIOUS

(* The instance's cardinality is that of FiniteSets. *)
LEMMA SameCardinality == ASSUME NEW X PROVE H!Cardinality(X) = Cardinality(X)
BY Zenon DEF H!Cardinality, Cardinality

(* Which places of the log have been applied. *)
LEMMA Places ==
  ASSUME HistoryTypes
  PROVE  AppliedPlaces(log, H!Unapplied) = {i \in DOMAIN log : unapplied[log[i].build] # <<log[i]>>}
BY DEF AppliedPlaces, H!Unapplied, H!Range

(* What a log entry is. *)
LEMMA LogFacts ==
  ASSUME HistoryTypes
  PROVE  /\ DOMAIN log = 1..Len(log) /\ Len(log) \in Nat
         /\ \A i \in DOMAIN log : log[i] \in Events /\ log[i].build \in Builds
                                  /\ log[i].type \in H!EventTypes /\ Rank[log[i].type] \in 1..3
<1>1. log \in Seq(Events)
  BY DEF HistoryTypes
<1>2. \A i \in DOMAIN log : log[i] \in Events
  BY <1>1
<1>3. ASSUME NEW i \in DOMAIN log PROVE log[i].build \in Builds /\ log[i].type \in H!EventTypes
  BY <1>2 DEF Events
<1> QED BY <1>1, <1>2, <1>3, RankFacts DEF H!EventTypes

(* No events, no builds. *)
LEMMA HistoryInit == H!Init => HistoryInv
<1> SUFFICES ASSUME H!Init PROVE HistoryInv
  OBVIOUS
<1>1. log = <<>> /\ DOMAIN log = {}
  BY DEF H!Init
<1>2. HistoryTypes
  BY DEF H!Init, HistoryTypes
<1>3. InOrder(log) /\ UnappliedIsLast /\ DoneIsLogged /\ StoppedIsQuiet
  BY <1>1 DEF H!Init, InOrder, UnappliedIsLast, DoneIsLogged, StoppedIsQuiet
<1>4. AppliedPlaces(log, H!Unapplied) = {}
  BY <1>1 DEF AppliedPlaces
<1>5. builds = H!Empty.builds /\ history = H!Empty.history
  BY DEF H!Init, H!Empty
<1> QED BY <1>2, <1>3, <1>4, <1>5, EmptyProjection DEF HistoryInv

(* A build begins, an event is lost, the clock ticks: the log and the projection stay. *)
LEMMA QuietSteps ==
  ASSUME HistoryInv, NEW b \in Builds, NEW then \in H!EventTypes \cup {"done"},
         H!BuildBegins(b) \/ H!AppendFails(b, then) \/ H!Tick \/ UNCHANGED historyVars
  PROVE  HistoryInv'
<1> USE DEF HistoryInv
<1>1. UNCHANGED <<log, unapplied, rebuilt, builds, history>>
  BY DEF H!BuildBegins, H!AppendFails, H!Tick, historyVars
<1>2. rebuilt' => IsProjection(builds, history, log, AppliedPlaces(log, H!Unapplied))'
  BY <1>1 DEF AppliedPlaces, H!Unapplied
<1>3. CASE next' = next /\ missing' = missing /\ clock' \in Nat
  BY <1>1, <1>2, <1>3 DEF HistoryTypes, UnappliedIsLast, DoneIsLogged, StoppedIsQuiet
<1>4. ASSUME NEW t \in H!EventTypes, next' = [next EXCEPT ![b] = t] \/ next' = [next EXCEPT ![b] = "done"],
             Rank[next[b]] < Rank[next'[b]], unapplied[b] = <<>>, rebuilt = TRUE, clock' = clock,
             missing \subseteq missing', missing' \subseteq Builds, next'[b] = "done" => b \in missing'
      PROVE  HistoryInv'
  <2>1. HistoryTypes' 
    BY <1>1, <1>4 DEF HistoryTypes
  <2>2. UnappliedIsLast'
    <3>1. ASSUME NEW c \in Builds, unapplied'[c] # <<>>
          PROVE  \E i \in DOMAIN log' : unapplied'[c] = <<log'[i]>> /\ log'[i].build = c /\ log'[i].type = next'[c]
      <4>1. c # b /\ next'[c] = next[c]
        BY <1>1, <1>4, <3>1 DEF HistoryTypes
      <4> QED BY <1>1, <3>1, <4>1 DEF UnappliedIsLast
    <3>2. ASSUME NEW i \in DOMAIN log'
          PROVE  /\ Rank[log'[i].type] <= Rank[next'[log'[i].build]]
                 /\ Rank[log'[i].type] = Rank[next'[log'[i].build]] => unapplied'[log'[i].build] = <<log'[i]>>
      <4>1. log' = log /\ i \in DOMAIN log /\ log[i].build \in Builds /\ Rank[log[i].type] \in 1..3
        BY <1>1, <3>2, LogFacts
      <4>2. CASE log[i].build = b
        <5>1. Rank[next[b]] \in 0..4 /\ Rank[next'[b]] \in 0..4
          BY <1>4, <2>1, RankFacts DEF HistoryTypes
        <5> QED BY <1>4, <4>1, <4>2, <5>1 DEF UnappliedIsLast
      <4>3. CASE log[i].build # b
        <5>1. next'[log[i].build] = next[log[i].build]
          BY <1>4, <4>1, <4>3 DEF HistoryTypes
        <5> QED BY <1>1, <4>1, <5>1 DEF UnappliedIsLast
      <4> QED BY <4>2, <4>3
    <3> QED BY <3>1, <3>2 DEF UnappliedIsLast
  <2>3. DoneIsLogged'
    BY <1>1, <1>4 DEF DoneIsLogged, HistoryTypes
  <2>4. StoppedIsQuiet' /\ InOrder(log')
    BY <1>1, <1>4 DEF StoppedIsQuiet
  <2> QED BY <1>1, <1>2, <2>1, <2>2, <2>3, <2>4
<1>5. CASE H!BuildBegins(b)
  <2>1. next' = [next EXCEPT ![b] = "BuildStarted"] /\ next[b] = "idle" /\ rebuilt /\ UNCHANGED <<clock, missing>>
    BY <1>5 DEF H!BuildBegins
  <2>2. next'[b] = "BuildStarted" /\ "BuildStarted" \in H!EventTypes /\ rebuilt = TRUE /\ missing \subseteq Builds
    BY <2>1 DEF HistoryTypes, H!EventTypes
  <2>3. unapplied[b] = <<>>
    <3>1. SUFFICES ASSUME NEW i \in DOMAIN log, log[i].type = "idle" PROVE FALSE
      BY <2>1 DEF UnappliedIsLast
    <3> QED BY <3>1, LogFacts DEF H!EventTypes
  <2>4. Rank[next[b]] < Rank[next'[b]]
    BY <2>1, <2>2, RankFacts
  <2>5. missing \subseteq missing' /\ missing' \subseteq Builds /\ clock' = clock /\ next'[b] # "done"
    BY <2>1, <2>2
  <2> QED BY <1>4, <2>1, <2>2, <2>3, <2>4, <2>5
<1>6. CASE H!AppendFails(b, then)
  <2>1. /\ next[b] \in H!EventTypes /\ unapplied[b] = <<>> /\ then \in H!Following(next[b])
        /\ next' = [next EXCEPT ![b] = then] /\ missing' = missing \cup {b} /\ clock' = clock
    BY <1>6 DEF H!AppendFails
  <2>2. rebuilt = TRUE
    BY <2>1 DEF HistoryTypes, StoppedIsQuiet, H!EventTypes
  <2>3. then \in H!EventTypes \cup {"done"} /\ Rank[next[b]] < Rank[then] /\ next'[b] = then
    BY <2>1, FollowingFacts DEF HistoryTypes
  <2>4. missing' \subseteq Builds
    BY <2>1 DEF HistoryTypes
  <2> QED BY <1>4, <2>1, <2>2, <2>3, <2>4
<1>7. CASE H!Tick
  <2>1. UNCHANGED <<next, missing>> /\ clock' = clock + 1
    BY <1>7 DEF H!Tick
  <2> QED BY <1>3, <2>1 DEF HistoryTypes
<1>8. CASE UNCHANGED historyVars
  BY <1>3, <1>8 DEF historyVars, HistoryTypes
<1> QED BY <1>5, <1>6, <1>7, <1>8

(* An appended event is the last of its build, and waits. *)
LEMMA AppendStep == ASSUME HistoryInv, NEW b \in Builds, H!Append1(b) PROVE HistoryInv'
<1> USE DEF HistoryInv
<1> DEFINE e == H!Event(b, next[b], clock)
           n == Len(log)
<1>1. /\ next[b] \in H!EventTypes /\ unapplied[b] = <<>>
      /\ log' = Append(log, e) /\ unapplied' = [unapplied EXCEPT ![b] = <<e>>]
      /\ UNCHANGED <<clock, builds, history, next, missing, rebuilt>>
  BY DEF H!Append1
<1>2. e \in Events /\ e.build = b /\ e.type = next[b]
  BY <1>1 DEF HistoryTypes, H!Event, Events
<1> HIDE DEF e
<1>3. log \in Seq(Events) /\ n \in Nat /\ DOMAIN log = 1..n
  BY LogFacts DEF HistoryTypes
<1>4. /\ log' \in Seq(Events) /\ DOMAIN log' = 1..(n + 1) /\ log'[n + 1] = e
      /\ \A i \in DOMAIN log : log'[i] = log[i]
  BY <1>1, <1>2, <1>3
<1>5. \A i \in DOMAIN log : /\ log[i] \in Events /\ log[i].build \in Builds
                             /\ Rank[log[i].type] \in 1..3 /\ log[i].type \in H!EventTypes
  BY LogFacts
<1>6. unapplied'[b] = <<e>> /\ \A c \in Builds \ {b} : unapplied'[c] = unapplied[c]
  BY <1>1 DEF HistoryTypes
<1>7. Rank[next[b]] \in 1..3
  BY <1>1, RankFacts DEF H!EventTypes
<1>8. \A i \in DOMAIN log : log[i].build = b => Rank[log[i].type] < Rank[next[b]]
  <2>1. SUFFICES ASSUME NEW i \in DOMAIN log, log[i].build = b PROVE Rank[log[i].type] < Rank[next[b]]
    OBVIOUS
  <2>2. Rank[log[i].type] <= Rank[next[b]] /\ (Rank[log[i].type] = Rank[next[b]] => <<>> = <<log[i]>>)
    BY <1>1, <2>1 DEF UnappliedIsLast
  <2> QED BY <1>5, <1>7, <2>1, <2>2, OneIsNotEmpty
<1>9. HistoryTypes'
  <2>1. unapplied' \in [Builds -> {<<>>} \cup {<<x>> : x \in Events}]
    BY <1>1, <1>2 DEF HistoryTypes
  <2> QED BY <1>1, <1>4, <2>1 DEF HistoryTypes
<1>10. InOrder(log')
  <2>1. SUFFICES ASSUME NEW i \in 1..(n + 1), NEW j \in 1..(n + 1), i < j, log'[i].build = log'[j].build
                 PROVE  Rank[log'[i].type] < Rank[log'[j].type]
    BY <1>4 DEF InOrder
  <2>2. i \in DOMAIN log
    BY <1>3, <2>1
  <2>3. CASE j = n + 1
    BY <1>2, <1>4, <1>8, <2>1, <2>2, <2>3
  <2>4. CASE j # n + 1
    <3>1. j \in DOMAIN log
      BY <1>3, <2>4
    <3> QED BY <1>4, <2>1, <2>2, <3>1 DEF InOrder
  <2> QED BY <2>3, <2>4
<1>11. UnappliedIsLast'
  <2>1. ASSUME NEW c \in Builds, unapplied'[c] # <<>>
        PROVE  \E i \in DOMAIN log' : unapplied'[c] = <<log'[i]>> /\ log'[i].build = c /\ log'[i].type = next'[c]
    <3>1. CASE c = b
      <4>1. n + 1 \in DOMAIN log'
        BY <1>3, <1>4
      <4> QED BY <1>1, <1>2, <1>4, <1>6, <3>1, <4>1
    <3>2. CASE c # b
      <4>1. PICK i \in DOMAIN log : unapplied[c] = <<log[i]>> /\ log[i].build = c /\ log[i].type = next[c]
        BY <1>6, <2>1, <3>2 DEF UnappliedIsLast
      <4>2. i \in DOMAIN log' /\ log'[i] = log[i]
        BY <1>3, <1>4
      <4> QED BY <1>1, <1>6, <3>2, <4>1, <4>2
    <3> QED BY <3>1, <3>2
  <2>2. ASSUME NEW i \in DOMAIN log'
        PROVE  /\ Rank[log'[i].type] <= Rank[next'[log'[i].build]]
               /\ Rank[log'[i].type] = Rank[next'[log'[i].build]] => unapplied'[log'[i].build] = <<log'[i]>>
    <3>1. CASE i = n + 1
      BY <1>1, <1>2, <1>4, <1>6, <1>7, <3>1
    <3>2. CASE i # n + 1
      <4>1. i \in DOMAIN log /\ log'[i] = log[i]
        BY <1>3, <1>4, <2>2, <3>2
      <4>2. CASE log[i].build = b
        BY <1>1, <1>5, <1>7, <1>8, <4>1, <4>2
      <4>3. CASE log[i].build # b
        BY <1>1, <1>5, <1>6, <4>1, <4>3 DEF UnappliedIsLast
      <4> QED BY <4>2, <4>3
    <3> QED BY <3>1, <3>2
  <2> QED BY <2>1, <2>2 DEF UnappliedIsLast
<1>12. DoneIsLogged'
  <2>1. ASSUME NEW c \in Builds \ missing, next[c] = "done"
        PROVE  \E i \in DOMAIN log' : log'[i].build = c /\ log'[i].type \in Ends
    <3>1. PICK i \in DOMAIN log : log[i].build = c /\ log[i].type \in Ends
      BY <2>1 DEF DoneIsLogged
    <3>2. i \in DOMAIN log' /\ log'[i] = log[i]
      BY <1>3, <1>4
    <3> QED BY <3>1, <3>2
  <2> QED BY <1>1, <2>1 DEF DoneIsLogged
<1>13. rebuilt = TRUE
  BY <1>1 DEF HistoryTypes, StoppedIsQuiet, H!EventTypes
<1>14. AppliedPlaces(log, H!Unapplied)' = AppliedPlaces(log, H!Unapplied)
  <2> DEFINE A == {i \in DOMAIN log : unapplied[log[i].build] # <<log[i]>>}
             B == {i \in DOMAIN log' : unapplied'[log'[i].build] # <<log'[i]>>}
  <2>1. AppliedPlaces(log, H!Unapplied) = A
    BY Places
  <2>2. AppliedPlaces(log, H!Unapplied)' = B
    BY <1>9 DEF AppliedPlaces, H!Unapplied, H!Range
  <2>3. ASSUME NEW i \in DOMAIN log PROVE unapplied[log[i].build] # <<log[i]>> <=> unapplied'[log'[i].build] # <<log'[i]>>
    <3>1. CASE log[i].build = b
      <4>1. log[i] # e
        BY <1>2, <1>5, <1>7, <1>8, <3>1
      <4> QED BY <1>1, <1>4, <1>6, <3>1, <4>1
    <3>2. CASE log[i].build # b
      BY <1>4, <1>5, <1>6, <3>2
    <3> QED BY <3>1, <3>2
  <2>4. n + 1 \notin B
    BY <1>2, <1>4, <1>6
  <2>6. \A i \in DOMAIN log' : i \in DOMAIN log \/ i = n + 1
    BY <1>3, <1>4
  <2>7. DOMAIN log \subseteq DOMAIN log' /\ n + 1 \in DOMAIN log'
    BY <1>3, <1>4
  <2>8. A \subseteq B
    BY <2>3, <2>7
  <2>9. B \subseteq A
    BY <2>3, <2>4, <2>6
  <2>5. A = B
    BY <2>8, <2>9
  <2> QED BY <2>1, <2>2, <2>5
<1>15. IsProjection(builds, history, log', AppliedPlaces(log, H!Unapplied))
  <2>1. \A i \in AppliedPlaces(log, H!Unapplied) : log'[i] = log[i]
    BY <1>4 DEF AppliedPlaces
  <2> QED BY <1>13, <2>1, ProjectionTransfer
<1>16. IsProjection(builds, history, log, AppliedPlaces(log, H!Unapplied))'
  BY <1>1, <1>14, <1>15
<1>17. StoppedIsQuiet'
  BY <1>1, <1>13 DEF StoppedIsQuiet
<1> QED BY <1>9, <1>10, <1>11, <1>12, <1>16, <1>17

(* The second half of EmitEvent, whatever was appended and applied in between. *)
LEMMA ApplyStep ==
  ASSUME HistoryInv, NEW b \in Builds, NEW then, H!Apply(b, then)
  PROVE  HistoryInv'
<1> USE DEF HistoryInv
<1>1. /\ unapplied[b] # <<>> /\ then \in H!Following(next[b])
      /\ unapplied' = [unapplied EXCEPT ![b] = <<>>] /\ next' = [next EXCEPT ![b] = then]
      /\ UNCHANGED <<clock, log, missing, rebuilt>>
      /\ builds' = H!ApplyEvent([builds |-> builds, history |-> history], unapplied[b][1]).builds
      /\ history' = H!ApplyEvent([builds |-> builds, history |-> history], unapplied[b][1]).history
  BY DEF H!Apply
<1>2. PICK k \in DOMAIN log : unapplied[b] = <<log[k]>> /\ log[k].build = b /\ log[k].type = next[b]
  BY <1>1 DEF UnappliedIsLast
<1>3. \A i \in DOMAIN log : /\ log[i] \in Events /\ log[i].build \in Builds
                             /\ Rank[log[i].type] \in 1..3 /\ log[i].type \in H!EventTypes
  BY LogFacts
<1>4. then \in H!EventTypes \cup {"done"} /\ Rank[next[b]] < Rank[then] /\ (then = "done" => next[b] \in Ends)
  BY <1>1, <1>2, <1>3, FollowingFacts
<1>5. rebuilt = TRUE /\ rebuilt' = TRUE
  BY <1>1 DEF HistoryTypes, StoppedIsQuiet
<1>6. /\ unapplied'[b] = <<>> /\ next'[b] = then
      /\ \A c \in Builds \ {b} : unapplied'[c] = unapplied[c] /\ next'[c] = next[c]
  BY <1>1 DEF HistoryTypes
<1>7. HistoryTypes'
  BY <1>1, <1>4 DEF HistoryTypes
<1>8. UnappliedIsLast'
  <2>1. ASSUME NEW c \in Builds, unapplied'[c] # <<>>
        PROVE  \E i \in DOMAIN log' : unapplied'[c] = <<log'[i]>> /\ log'[i].build = c /\ log'[i].type = next'[c]
    <3>1. c # b
      BY <1>6, <2>1
    <3> QED BY <1>1, <1>6, <2>1, <3>1 DEF UnappliedIsLast
  <2>2. ASSUME NEW i \in DOMAIN log
        PROVE  /\ Rank[log[i].type] <= Rank[next'[log[i].build]]
               /\ Rank[log[i].type] = Rank[next'[log[i].build]] => unapplied'[log[i].build] = <<log[i]>>
    <3>1. CASE log[i].build = b
      <4>1. Rank[then] \in 0..4 /\ Rank[next[b]] \in 0..4 /\ Rank[log[i].type] <= Rank[next[b]]
        BY <1>2, <1>3, <1>4, <3>1, RankFacts DEF UnappliedIsLast
      <4> QED BY <1>3, <1>4, <1>6, <3>1, <4>1
    <3>2. CASE log[i].build # b
      BY <1>3, <1>6, <3>2 DEF UnappliedIsLast
    <3> QED BY <3>1, <3>2
  <2> QED BY <1>1, <2>1, <2>2, SMTT(40) DEF UnappliedIsLast
<1>9. DoneIsLogged'
  <2>1. ASSUME NEW c \in Builds \ missing, next'[c] = "done"
        PROVE  \E i \in DOMAIN log : log[i].build = c /\ log[i].type \in Ends
    <3>1. CASE c = b
      BY <1>2, <1>4, <1>6, <2>1, <3>1
    <3>2. CASE c # b
      BY <1>6, <2>1, <3>2 DEF DoneIsLogged
    <3> QED BY <3>1, <3>2
  <2> QED BY <1>1, <2>1 DEF DoneIsLogged
<1> DEFINE A == AppliedPlaces(log, H!Unapplied)
<1>10. A = {i \in DOMAIN log : unapplied[log[i].build] # <<log[i]>>}
  BY Places
<1>11. AppliedPlaces(log, H!Unapplied)' = {i \in DOMAIN log : unapplied'[log[i].build] # <<log[i]>>}
  BY <1>1 DEF AppliedPlaces, H!Unapplied, H!Range
<1> HIDE DEF A
<1>12. \A i \in DOMAIN log : i # k /\ log[i].build = b => i < k /\ log[i] # log[k]
  <2>1. SUFFICES ASSUME NEW i \in DOMAIN log, i # k, log[i].build = b PROVE i < k /\ log[i] # log[k]
    OBVIOUS
  <2>2. i \in Nat /\ k \in Nat
    BY LogFacts
  <2>3. Rank[log[i].type] # Rank[log[k].type]
    BY <1>2, <1>3, <2>1, <2>2 DEF InOrder
  <2>4. Rank[log[i].type] <= Rank[log[k].type]
    BY <1>2, <2>1 DEF UnappliedIsLast
  <2>5. k < i => Rank[log[k].type] < Rank[log[i].type]
    BY <1>2, <2>1 DEF InOrder
  <2> QED BY <1>3, <2>1, <2>2, <2>3, <2>4, <2>5
<1>13. AppliedPlaces(log, H!Unapplied)' = A \cup {k} /\ k \notin A /\ A \in SUBSET DOMAIN log
  <2>1. ASSUME NEW i \in DOMAIN log PROVE unapplied'[log[i].build] # <<log[i]>> <=> (unapplied[log[i].build] # <<log[i]>> \/ i = k)
    <3>1. CASE log[i].build = b
      BY <1>2, <1>6, <1>12, <3>1
    <3>2. CASE log[i].build # b
      BY <1>2, <1>3, <1>6, <3>2
    <3> QED BY <3>1, <3>2
  <2>2. k \notin A
    BY <1>2, <1>10
  <2> QED BY <1>10, <1>11, <2>1, <2>2
<1>14. \A i \in A : log[i].build = log[k].build => i < k
  BY <1>2, <1>12, <1>13
<1> DEFINE p == [builds |-> builds, history |-> history]
<1>15. IsProjection(p.builds, p.history, log, A)
  BY <1>5 DEF A
<1>16. log \in Seq(Events) /\ unapplied[b][1] = log[k]
  BY <1>2 DEF HistoryTypes
<1>17. builds' = H!ApplyEvent(p, log[k]).builds /\ history' = H!ApplyEvent(p, log[k]).history
  BY <1>1, <1>16
<1> HIDE DEF p
<1>18. IsProjection(H!ApplyEvent(p, log[k]).builds, H!ApplyEvent(p, log[k]).history, log, A \cup {k})
  BY <1>13, <1>14, <1>15, <1>16, ProjectionStep
<1>19. IsProjection(builds, history, log, AppliedPlaces(log, H!Unapplied))'
  BY <1>1, <1>13, <1>17, <1>18
<1>20. StoppedIsQuiet' /\ InOrder(log')
  BY <1>1, <1>5 DEF StoppedIsQuiet
<1> QED BY <1>7, <1>8, <1>9, <1>19, <1>20

(* A crash leaves the log. *)
LEMMA CrashesStep == ASSUME HistoryInv, H!Crash PROVE HistoryInv'
<1> USE DEF HistoryInv
<1>1. /\ rebuilt' = FALSE /\ missing' = missing \cup H!Running /\ UNCHANGED <<clock, log>>
      /\ next' = [c \in Builds |-> IF c \in H!Running THEN "done" ELSE next[c]]
      /\ unapplied' = [c \in Builds |-> <<>>]
  BY DEF H!Crash
<1>2. \A c \in Builds : next'[c] \in {"idle", "done"} /\ (next'[c] = next[c] \/ c \in missing')
  BY <1>1 DEF H!Running
<1>3. HistoryTypes'
  BY <1>1, <1>2 DEF HistoryTypes, H!Running
<1>4. UnappliedIsLast'
  <2>1. ASSUME NEW i \in DOMAIN log PROVE Rank[log[i].type] < Rank[next'[log[i].build]]
    <3>1. log[i].build \in Builds /\ Rank[log[i].type] \in 1..3
      BY LogFacts
    <3>2. CASE next'[log[i].build] = "done"
      BY <3>1, <3>2, RankFacts
    <3>3. CASE next'[log[i].build] # "done"
      <4>1. next[log[i].build] = "idle"
        BY <1>1, <1>2, <3>1, <3>3
      <4> QED BY <3>1, <4>1, RankFacts DEF UnappliedIsLast
    <3> QED BY <3>2, <3>3
  <2>2. ASSUME NEW i \in DOMAIN log PROVE Rank[log[i].type] \in Int /\ Rank[next'[log[i].build]] \in Int
    BY <1>3, LogFacts, RankFacts DEF HistoryTypes
  <2> QED BY <1>1, <2>1, <2>2 DEF UnappliedIsLast
<1>5. DoneIsLogged'
  BY <1>1, <1>2 DEF DoneIsLogged
<1>6. StoppedIsQuiet'
  BY <1>1, <1>2 DEF StoppedIsQuiet
<1> QED BY <1>1, <1>3, <1>4, <1>5, <1>6

(* Rebuild replays all of it. *)
LEMMA RebuildStep == ASSUME HistoryInv, H!Rebuild PROVE HistoryInv'
<1> USE DEF HistoryInv
<1> DEFINE p == H!Replay(log, {})
<1>1. /\ rebuilt' = TRUE /\ ~rebuilt /\ builds' = p.builds /\ history' \in H!SortHistory(p)
      /\ UNCHANGED <<clock, log, next, unapplied, missing>>
  BY DEF H!Rebuild
<1> HIDE DEF p
<1>2. AppliedPlaces(log, H!Unapplied) = AppliedPlaces(log, {})
  <2>1. \A i \in DOMAIN log : unapplied[log[i].build] # <<log[i]>>
    BY <1>1, LogFacts, OneIsNotEmpty DEF StoppedIsQuiet
  <2>2. AppliedPlaces(log, H!Unapplied) = DOMAIN log
    BY <2>1, Places
  <2> QED BY <2>2 DEF AppliedPlaces
<1>3. IsProjection(p.builds, p.history, log, AppliedPlaces(log, {}))
  BY ReplayIsProjection DEF HistoryTypes, p
<1>4. IsProjection(p.builds, history', log, AppliedPlaces(log, {}))
  BY <1>1, <1>3, SortedHistory DEF IsProjection
<1>5. AppliedPlaces(log, H!Unapplied)' = AppliedPlaces(log, H!Unapplied)
  BY <1>1 DEF AppliedPlaces, H!Unapplied
<1>6. IsProjection(builds, history, log, AppliedPlaces(log, H!Unapplied))'
  BY <1>1, <1>2, <1>4, <1>5
<1> QED BY <1>1, <1>6 DEF HistoryTypes, UnappliedIsLast, DoneIsLogged, StoppedIsQuiet

(* What the invariant says of the replay and of builds shown as running. *)
LEMMA HistoryImplies == ASSUME HistoryInv PROVE H!ProjectionIsReplay /\ H!RunningIsRun
<1>1. SUFFICES ASSUME rebuilt
               PROVE  /\ builds = H!Replay(log, H!Unapplied).builds
                      /\ Len(history) = Len(H!Replay(log, H!Unapplied).history)
                      /\ Cardinality(H!Finished) <= MaxHistory
                           => H!Range(history) = H!Range(H!Replay(log, H!Unapplied).history)
                      /\ \A b \in Builds : builds[b].status = "running" => b \in H!Running \cup missing
  BY SameCardinality, Zenon DEF H!ProjectionIsReplay, H!RunningIsRun
<1> USE DEF HistoryInv
<1> DEFINE A == AppliedPlaces(log, H!Unapplied)
           p == H!Replay(log, H!Unapplied)
<1>2. A \subseteq DOMAIN log /\ A \subseteq Nat
  BY LogFacts DEF AppliedPlaces
<1>3. IsProjection(builds, history, log, A)
  BY <1>1
<1>4. IsProjection(p.builds, p.history, log, A)
  BY ReplayIsProjection DEF HistoryTypes
<1>5. H!Finished = Ended(log, A)
  <2>1. ASSUME NEW b \in Builds
        PROVE  builds[b].status \in {"completed", "failed"} <=> \E i \in A : log[i].build = b /\ log[i].type \in Ends
    <3>1. IsSummary(builds[b], log, Of(log, A, b))
      BY <1>3 DEF IsProjection
    <3> QED BY <3>1 DEF IsSummary, Of, Ends
  <2>2. \A i \in A : log[i].build \in Builds
    BY <1>2, LogFacts
  <2> HIDE DEF A
  <2> QED BY <2>1, <2>2 DEF H!Finished, Ended
<1>6. ASSUME NEW b \in Builds, builds[b].status = "running", b \notin H!Running, b \notin missing PROVE FALSE
  <2>1. IsSummary(builds[b], log, Of(log, A, b))
    BY <1>3, <1>6 DEF IsProjection
  <2>2. PICK i \in A : log[i].build = b
    BY <1>6, <2>1 DEF IsSummary, Of
  <2>3. next[b] # "idle"
    <3>1. i \in DOMAIN log /\ Rank[log[i].type] \in 1..3 /\ Rank[log[i].type] <= Rank[next[b]]
      BY <1>2, <2>2, LogFacts DEF UnappliedIsLast
    <3> QED BY <3>1, RankFacts
  <2>4. next[b] = "done"
    BY <1>6, <2>3 DEF H!Running, HistoryTypes
  <2>5. PICK k \in DOMAIN log : log[k].build = b /\ log[k].type \in Ends
    BY <1>6, <2>4 DEF DoneIsLogged
  <2>6. unapplied[b] = <<>>
    <3>1. \A j \in DOMAIN log : log[j].type # "done"
      BY LogFacts DEF H!EventTypes
    <3> QED BY <2>4, <3>1 DEF UnappliedIsLast
  <2>7. k \in A
    BY <2>5, <2>6, Places, OneIsNotEmpty
  <2>8. k \in Of(log, A, b)
    BY <2>5, <2>7 DEF Of
  <2> HIDE DEF A
  <2> QED BY <1>6, <2>1, <2>5, <2>8 DEF IsSummary, Ends
<1> HIDE DEF A, p
<1>7. /\ builds = p.builds /\ Len(history) = Len(p.history)
      /\ Cardinality(Ended(log, A)) <= MaxHistory => H!Range(history) = H!Range(p.history)
  BY <1>2, <1>3, <1>4, ProjectionsAgree, ZenonT(60)
<1> QED BY <1>5, <1>6, <1>7 DEF p

(* Every step of BuildHistory. *)
LEMMA HistoryNext == ASSUME HistoryInv, H!Next \/ UNCHANGED historyVars PROVE HistoryInv'
<1>1. ASSUME NEW b \in Builds, H!BuildBegins(b) \/ H!Append1(b) PROVE HistoryInv'
  <2>1. "done" \in H!EventTypes \cup {"done"}
    OBVIOUS
  <2> QED BY <1>1, <2>1, QuietSteps, AppendStep
<1>2. ASSUME NEW b \in Builds, NEW then \in H!EventTypes \cup {"done"}, H!AppendFails(b, then) \/ H!Apply(b, then)
      PROVE  HistoryInv'
  BY <1>2, QuietSteps, ApplyStep
<1>3. CASE H!Crash
  BY <1>3, CrashesStep
<1>4. CASE H!Rebuild
  BY <1>4, RebuildStep
<1>5. CASE H!Tick \/ UNCHANGED historyVars
  <2>1. UNCHANGED <<log, unapplied, rebuilt, builds, history, next, missing>> /\ (clock \in Nat => clock' \in Nat)
    BY <1>5 DEF H!Tick, historyVars
  <2>2. (rebuilt => IsProjection(builds, history, log, AppliedPlaces(log, H!Unapplied)))'
    BY <2>1 DEF HistoryInv, AppliedPlaces, H!Unapplied
  <2> QED BY <2>1, <2>2 DEF HistoryInv, HistoryTypes, UnappliedIsLast, DoneIsLogged, StoppedIsQuiet
<1> QED BY <1>1, <1>2, <1>3, <1>4, <1>5 DEF H!Next

(* For any builds, workers and history size, and any number of crashes and failed appends: the build history
   in memory is what a replay of the event log gives (EmitEvent's Append and Apply, Rebuild), and a build it
   shows as running is being run or has lost its end. *)
THEOREM HistoryIsReplayed == Spec => []HistoryIsReplay
<1> DEFINE Inv == part = "history" => HistoryInv
<1>1. Init => Inv
  BY HistoryInit DEF Init
<1>2. Inv /\ [Next]_vars => Inv'
  <2>1. SUFFICES ASSUME Inv, [Next]_vars, part' = "history" PROVE HistoryInv'
    OBVIOUS
  <2>2. part = "history" /\ (H!Next \/ UNCHANGED historyVars)
    BY <2>1 DEF Next, vars
  <2> QED BY <2>1, <2>2, HistoryNext
<1>3. Inv => HistoryIsReplay
  BY HistoryImplies DEF HistoryIsReplay
<1> QED BY <1>1, <1>2, <1>3, PTL DEF Spec

=============================================================================
