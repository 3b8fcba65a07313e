---------------------------- MODULE Configuration ----------------------------
(***************************************************************************)
(* The configuration file from its text to the daemon that runs on it:        *)
(* config.LoadWithResult parses, normalises, completes and validates it in    *)
(* that order, NewDaemonWithConfigFile builds the components from the result,  *)
(* Snapshot is what the skip rules compare, and the queue's retry policy      *)
(* spaces its attempts.  `init` writes the example file.                      *)
(*                                                                            *)
(* A file says of every setting whether it is written (None: it is not) and   *)
(* how.  A word is [word, exact]: exact is FALSE when it is written with      *)
(* capitals or spaces around it, the word "" that is not exact being a blank. *)
(* A duration is [text, t, padded] with text "none", "blank", "bad" or        *)
(* "time".  A path is [clean, exact].  A list entry is [name, padded], the    *)
(* name 0 being blank; names are ordered as strings are.                      *)
(***************************************************************************)
EXTENDS Integers, Sequences, FiniteSets, TLC

CONSTANTS
  None,        \* not written; nil
  Rejected,    \* what loading returns with an error
  MaxInt       \* the largest time.Duration

VARIABLES
  cfile,       \* the configuration file, None when there is none
  cloaded,     \* the loaded configuration, Rejected, or None before a load
  csnap,       \* the snapshot of an earlier load of the same file spelled otherwise
  cdaemon,     \* the components of the daemon as constructed, or None
  cretry       \* the retry the queue is at, and the pause before it

vars == <<cfile, cloaded, csnap, cdaemon, cretry>>

-----------------------------------------------------------------------------
(* Values as they are written. *)

Plain(w) == [word |-> w, exact |-> TRUE]
Unset == Plain("")
NoTime == [text |-> "none", t |-> 0, padded |-> FALSE]
For(t) == [text |-> "time", t |-> t, padded |-> FALSE]
Path(p) == [clean |-> p, exact |-> TRUE]
Clean(p) == [p EXCEPT !.exact = TRUE]
Or(x, default) == IF x = None THEN default ELSE x

\* Normalizer.Normalize: the value whose name it is up to case and spaces, or the
\* normaliser's default.
Normalize(valid, default, v) == Plain(IF v.word \in valid THEN v.word ELSE default)

Modes == {"auto", "always", "never"}
CloneStrategies == {"fresh", "update", "auto"}
Backoffs == {"fixed", "linear", "exponential"}
Strategies == {"branches_and_tags", "branches_only", "tags_only"}
Levels == {"debug", "info", "warn", "error"}
Formats == {"json", "text"}
ForgeTypes == {"github", "gitlab", "forgejo", "local"}
AuthTypes == {"token", "ssh", "basic", "none", ""}

\* time.ParseDuration does not trim, strings.TrimSpace before it does.
Parses(d) == d.text = "time" /\ ~d.padded
TrimSpace(d) == IF d.text = "blank" THEN NoTime ELSE [d EXCEPT !.padded = FALSE]

-----------------------------------------------------------------------------
(* Parsing. *)

\* BuildConfig.UnmarshalYAML: a missing setting is zero, and for three of them it is
\* remembered that they were written.
UnmarshalBuild(b) ==
  [b EXCEPT !.depth = Or(@, 0), !.deletions = Or(@, FALSE), !.hardReset = Or(@, FALSE)]
    @@ [depthSet |-> b.depth # None, deletionsSet |-> b.deletions # None, hardResetSet |-> b.hardReset # None]

\* The other settings: a missing number or Boolean is zero, a missing section or
\* pointer is nil.
UnmarshalDaemon(d) ==
  [d EXCEPT !.queue = Or(@, 0), !.builds = Or(@, 0), !.verify =
     IF @ = None THEN None
     ELSE [k \in DOMAIN @ |-> Or(@[k], IF k \in {"concurrent", "redirects"} THEN 0 ELSE FALSE)]]
Unmarshal(f) ==
  [f EXCEPT !.build = UnmarshalBuild([@ EXCEPT !.concurrency = Or(@, 0), !.retries = Or(@, 0), !.skip = Or(@, FALSE)]),
            !.daemon = IF @ = None THEN None ELSE UnmarshalDaemon(@),
            !.versioning = IF @ = None THEN None ELSE [@ EXCEPT !.enabled = Or(@, FALSE), !.keep = Or(@, 0)]]

-----------------------------------------------------------------------------
(* Normalising. *)

\* A known value in its canonical spelling, an unknown one replaced, a blank left.
NormalizeEnum(valid, default, v) ==
  IF v.word \in valid THEN Plain(v.word) ELSE IF v.word # "" THEN Plain(default) ELSE v

\* The back-off's normaliser has a default of its own, so that it is never empty.
NormalizeRetryBackoff(v) == Normalize(Backoffs, "fixed", v)

NormalizeBuildConfig(b) ==
  [b EXCEPT !.render = NormalizeEnum(Modes, "auto", @),
            !.namespace = NormalizeEnum(Modes, "auto", @),
            !.clone = NormalizeEnum(CloneStrategies, "fresh", @),
            !.concurrency = IF @ < 0 THEN 0 ELSE @,
            !.depth = IF @ < 0 THEN 0 ELSE @,
            !.backoff = NormalizeRetryBackoff(@)]

\* Both normalisers have defaults, so that an empty setting of a section that is there
\* gets the normaliser's and not the applier's.
NormalizeMonitoring(m) ==
  IF m = None THEN None
  ELSE [level |-> Normalize(Levels, "info", m.level), format |-> Normalize(Formats, "text", m.format)]

TrimStringSlice(s) ==
  [i \in DOMAIN SelectSeq(s, LAMBDA e : e.name # 0) |-> [SelectSeq(s, LAMBDA e : e.name # 0)[i] EXCEPT !.padded = FALSE]]

\* An unknown strategy is left for the validation.
NormalizeVersioning(v) ==
  IF v = None THEN None
  ELSE [v EXCEPT !.strategy = IF @.word \in Strategies THEN Plain(@.word) ELSE @,
                 !.keep = IF @ < 0 THEN 0 ELSE @,
                 !.branches = TrimStringSlice(@), !.tags = TrimStringSlice(@)]

NormalizeOutput(o) == [o EXCEPT !.dir = IF @ = None THEN None ELSE Clean(@)]

\* The insertion sort of normalizeStringSlice, and sort.Strings.
Ascending(s) == SortSeq(s, LAMBDA a, b : a.name < b.name)

\* normalizeStringSlice: trimmed, without blanks and duplicates, sorted.
NormalizeStringSlice(s) ==
  LET names == {s[i].name : i \in DOMAIN s} \ {0}
  IN Ascending([i \in 1..Cardinality(names) |->
                  [name |-> CHOOSE n \in names : Cardinality({m \in names : m < n}) = i - 1, padded |-> FALSE]])

NormalizeFiltering(f) ==
  IF f = None THEN None
  ELSE [k \in DOMAIN f |-> IF f[k] = None THEN None ELSE NormalizeStringSlice(f[k])]

NormalizeConfig(c) ==
  [c EXCEPT !.build = NormalizeBuildConfig(@), !.monitoring = NormalizeMonitoring(@),
            !.versioning = NormalizeVersioning(@), !.output = NormalizeOutput(@),
            !.filtering = NormalizeFiltering(@)]

-----------------------------------------------------------------------------
(* Completing. *)

\* An empty or unknown value is replaced.
Default(valid, default, v) == Plain(IF v.word \in valid THEN v.word ELSE default)

BuildDefaults(b) ==
  LET depth == IF b.depth < 0 THEN 0 ELSE b.depth
  IN [b EXCEPT !.concurrency = IF @ <= 0 THEN 4 ELSE @,
               !.render = Default(Modes, "auto", @),
               !.namespace = Default(Modes, "auto", @),
               !.depth = IF ~b.depthSet /\ depth = 0 THEN 1 ELSE depth,
               !.deletions = ~b.deletionsSet \/ @,
               !.hardReset = ~b.hardResetSet \/ @,
               !.clone = Default(CloneStrategies, "fresh", @),
               !.retries = IF @ <= 0 THEN 2 ELSE @,
               !.backoff = IF @ = Unset THEN Plain("linear") ELSE NormalizeRetryBackoff(@),
               !.initial = IF @ = NoTime THEN For(1) ELSE @,
               !.maxDelay = IF @ = NoTime THEN For(6) ELSE @]

\* The default directory "./site" is not in its cleaned form.
OutputDefaults(c) ==
  [c EXCEPT !.output.dir = IF @ = None THEN [clean |-> "site", exact |-> FALSE] ELSE @,
            !.build.workspace = IF c.output.base # None /\ @ = None THEN Path("base/workspace") ELSE @]

DebounceDefaults(d) ==
  [d EXCEPT !.quiet = IF @ = NoTime THEN For(2) ELSE @, !.maxDelay = IF @ = NoTime THEN For(4) ELSE @,
            !.immediate = Or(@, TRUE)]

\* A setting FALSE is taken for one not written.
VerificationDefaults(lv) ==
  IF lv = None THEN [enabled |-> TRUE, skipEdit |-> TRUE, follow |-> TRUE, concurrent |-> 10, redirects |-> 3]
  ELSE [enabled |-> TRUE, skipEdit |-> TRUE, follow |-> TRUE,
        concurrent |-> IF lv.concurrent = 0 THEN 10 ELSE lv.concurrent,
        redirects |-> IF lv.redirects = 0 THEN 3 ELSE lv.redirects]

DaemonDefaults(c) ==
  IF c.daemon = None THEN c
  ELSE [c EXCEPT !.build.render = IF @ \in {Unset, Plain("auto")} THEN Plain("always") ELSE @,
                 !.build.skip = TRUE,
                 !.daemon = [DebounceDefaults(@) EXCEPT
                    !.schedule = IF @ = "empty" THEN "ok" ELSE @,
                    !.onDiscovery = Or(@, TRUE),
                    !.builds = IF @ = 0 THEN 3 ELSE @,
                    !.queue = IF @ = 0 THEN 100 ELSE @,
                    !.outputDir = IF @ = None THEN c.output.dir ELSE @,
                    !.verify = VerificationDefaults(@)]]

\* A list of required paths that is there and empty stays empty; one of ignored files
\* does not.  The name 1 is the default path, 2 the default ignore file.
Entry(n) == <<[name |-> n, padded |-> FALSE]>>
FilteringDefaults(f) ==
  LET g == Or(f, [required |-> None, ignore |-> None, include |-> None, exclude |-> None])
  IN [g EXCEPT !.required = Or(@, Entry(1)), !.ignore = IF @ \in {None, <<>>} THEN Entry(2) ELSE @]

\* A strategy turns versioning on.
VersioningDefaults(v) ==
  LET w == Or(v, [enabled |-> FALSE, strategy |-> Unset, keep |-> 0, branches |-> <<>>, tags |-> <<>>])
  IN [w EXCEPT !.enabled = @ \/ w.strategy # Unset,
               !.strategy = IF @ = Unset THEN Plain("branches_and_tags")
                            ELSE IF @.word \in Strategies THEN Plain(@.word) ELSE @,
               !.keep = IF @ = 0 THEN 10 ELSE @]

MonitoringDefaults(m) ==
  LET n == Or(m, [level |-> Unset, format |-> Unset])
  IN [level |-> IF n.level = Unset THEN Plain("info") ELSE Normalize(Levels, "info", n.level),
      format |-> IF n.format = Unset THEN Plain("json") ELSE Normalize(Formats, "text", n.format)]

RepositoryDefaults(repos) ==
  [i \in DOMAIN repos |-> [repos[i] EXCEPT !.paths = IF @ = <<>> THEN Entry(1) ELSE @,
                                           !.branch = IF @ = "" THEN "main" ELSE @]]

\* Mutated form of ApplyDefaults: the daemon's applier before the output's.
ApplyDefaults_DaemonFirst(c) ==
  [OutputDefaults(DaemonDefaults([c EXCEPT !.build = BuildDefaults(@)]))
     EXCEPT !.filtering = FilteringDefaults(@), !.versioning = VersioningDefaults(@),
            !.monitoring = MonitoringDefaults(@), !.repositories = RepositoryDefaults(@)]

\* The appliers in their order: the output's before the daemon's, which takes the
\* directory from it.
ApplyDefaults(c) ==
  [DaemonDefaults(OutputDefaults([c EXCEPT !.build = BuildDefaults(@)]))
     EXCEPT !.filtering = FilteringDefaults(@), !.versioning = VersioningDefaults(@),
            !.monitoring = MonitoringDefaults(@), !.repositories = RepositoryDefaults(@)]

-----------------------------------------------------------------------------
(* Validating. *)

ValidForge(f) ==
  /\ f.type.word \in ForgeTypes
  /\ f.auth # None /\ f.auth \in AuthTypes
  /\ f.scopes \/ f.autoDiscover

ValidForges(c) ==
  /\ c.forges # <<>> \/ c.repositories # <<>>
  /\ \A i \in DOMAIN c.forges :
       /\ c.forges[i].name # "" /\ ValidForge(c.forges[i])
       /\ \A j \in 1..(i - 1) : c.forges[j].name # c.forges[i].name

ValidRepository(r) ==
  r.auth # None => r.auth \in AuthTypes /\ (r.auth = "basic" => r.password)

ValidBuild(b) ==
  /\ b.backoff.word \in Backoffs /\ b.clone.word \in CloneStrategies
  /\ Parses(b.initial) /\ Parses(b.maxDelay) /\ b.maxDelay.t >= b.initial.t
  /\ b.retries >= 0

\* maxDaemonBuildDebounceDuration
MaxDebounce == 6

ValidWindow(d) == d.text = "none" \/ (d.text = "time" /\ d.t \in 1..MaxDebounce)

\* A window that is blank is not looked at.
ValidDebounce(d) ==
  LET quiet == TrimSpace(d.quiet)
      max == TrimSpace(d.maxDelay)
  IN /\ ValidWindow(quiet) /\ ValidWindow(max)
     /\ quiet.text = "time" /\ max.text = "time" => max.t >= quiet.t

ValidDaemon(d) == d = None \/ (d.schedule = "ok" /\ ValidDebounce(d))

ValidPaths(c) ==
  c.daemon = None \/ c.daemon.outputDir = None \/ Clean(c.daemon.outputDir) = Clean(c.output.dir)

ValidVersioning(v) == v.strategy.word \in Strategies /\ v.strategy.exact

ValidateConfig(c) ==
  /\ ValidForges(c)
  /\ \A i \in DOMAIN c.repositories : ValidRepository(c.repositories[i])
  /\ ValidBuild(c.build) /\ ValidDaemon(c.daemon) /\ ValidPaths(c) /\ ValidVersioning(c.versioning)

\* The validation of a forge writes its type back in the canonical spelling.
Validated(c) == [c EXCEPT !.forges = [i \in DOMAIN @ |-> [@[i] EXCEPT !.type = Plain(@.word)]]]

Load(f) ==
  LET c == ApplyDefaults(NormalizeConfig(Unmarshal(f)))
  IN IF f.version = "2.0" /\ ValidateConfig(c) THEN Validated(c) ELSE Rejected

-----------------------------------------------------------------------------
(* What the rest of the program makes of it. *)

\* Config.Snapshot, the lists sorted.
Snapshot(c) ==
  [render |-> c.build.render, namespace |-> c.build.namespace, clone |-> c.build.clone, backoff |-> c.build.backoff,
   versioning |-> <<c.versioning.strategy, c.versioning.keep, Ascending(c.versioning.branches), Ascending(c.versioning.tags)>>,
   dir |-> c.output.dir,
   filtering |-> [k \in DOMAIN c.filtering |-> IF c.filtering[k] = None THEN <<>> ELSE Ascending(c.filtering[k])],
   monitoring |-> c.monitoring]

\* A delay that is not positive is replaced by the policy's own.
NewPolicy(mode, initial, max, retries) ==
  LET i == IF initial > 0 THEN initial ELSE 1
      m == IF max > 0 THEN max ELSE 6
  IN [mode |-> mode, initial |-> IF i > m THEN m ELSE i, max |-> m, retries |-> retries]

\* ConfigureRetry of the build queue.
ConfigureRetry(b) == NewPolicy(b.backoff.word, b.initial.t, b.maxDelay.t, b.retries)

\* Arithmetic of time.Duration, which wraps around.
Wrapped(x) == ((x + MaxInt + 1) % (2 * (MaxInt + 1))) - (MaxInt + 1)

\* Policy.Delay for the n-th retry: the product is compared after it has wrapped.
Growth(mode, n) == IF mode = "exponential" THEN 2 ^ (n - 1) ELSE n

Delay(p, n) ==
  LET d == Wrapped(p.initial * Growth(p.mode, n))
  IN IF p.mode = "fixed" THEN p.initial ELSE IF d > p.max THEN p.max ELSE d

\* getBuildDebounceDurations: a blank window is the default one.
DebounceWindow(d, default) == IF TrimSpace(d).text = "time" THEN d.t ELSE default

\* tokenFromConfig: the clients of the three forges want a token.
MakesClient(f) == f.type.word = "local" \/ f.auth = "token"

\* NewDaemonWithConfigFile: the forge clients, then the queue, then the verifier,
\* whose semaphore cannot have a negative size, if its NATS server answers, then the
\* debouncer.
NewDaemonWithConfigFile(c, natsUp) ==
  [state |-> IF \E i \in DOMAIN c.forges : ~MakesClient(c.forges[i]) THEN "refused"
             ELSE IF natsUp /\ c.daemon.verify.concurrent < 0 THEN "panicked" ELSE "made",
   queue |-> IF c.daemon.queue <= 0 THEN 100 ELSE c.daemon.queue,
   workers |-> IF c.daemon.builds <= 0 THEN 2 ELSE c.daemon.builds,
   policy |-> ConfigureRetry(c.build),
   slots |-> c.daemon.verify.concurrent,
   quiet |-> DebounceWindow(c.daemon.quiet, 2), maxDelay |-> DebounceWindow(c.daemon.maxDelay, 4)]

-----------------------------------------------------------------------------
(* The file that `init' writes. *)

Example ==
  [version |-> "2.0",
   build |-> [render |-> Unset, namespace |-> Unset, clone |-> Unset, backoff |-> Plain("linear"), concurrency |-> 4,
              depth |-> None, retries |-> 2, initial |-> For(1), maxDelay |-> For(6), deletions |-> None,
              hardReset |-> None, skip |-> None, workspace |-> None],
   output |-> [dir |-> [clean |-> "site", exact |-> FALSE], base |-> None],
   daemon |-> [schedule |-> "ok", queue |-> 100, builds |-> 3, onDiscovery |-> None,
               outputDir |-> [clean |-> "site", exact |-> FALSE], quiet |-> NoTime, maxDelay |-> NoTime, immediate |-> None,
               verify |-> [enabled |-> TRUE, skipEdit |-> TRUE, follow |-> TRUE, concurrent |-> 10, redirects |-> 3]],
   filtering |-> [required |-> Entry(1), ignore |-> Entry(2), include |-> <<>>, exclude |-> <<>>],
   versioning |-> [enabled |-> FALSE, strategy |-> Plain("branches_and_tags"), keep |-> 10,
                   branches |-> Entry(3) \o Entry(4), tags |-> Entry(5)],
   monitoring |-> [level |-> Plain("info"), format |-> Plain("json")],
   forges |-> <<[name |-> "github", type |-> Plain("github"), auth |-> "token", scopes |-> TRUE, autoDiscover |-> FALSE]>>,
   repositories |-> <<[auth |-> None, password |-> FALSE, paths |-> Entry(1), branch |-> "main"]>>]

-----------------------------------------------------------------------------
(* The same file written otherwise: other capitals and spaces, other ways to write
   the output directory, the lists in another order and with a blank entry. *)
Word(w) == IF w.word = "" THEN w ELSE [w EXCEPT !.exact = ~@]
Directory(p) == IF p = None THEN None ELSE [p EXCEPT !.exact = ~@]
Backwards(s) == [i \in DOMAIN s |-> s[Len(s) + 1 - i]]
List(s) == IF s \in {None, <<>>} THEN s ELSE Append(Backwards(s), [name |-> 0, padded |-> TRUE])
Respelled(f) ==
  [f EXCEPT !.build = [@ EXCEPT !.render = Word(@), !.namespace = Word(@), !.clone = Word(@), !.backoff = Word(@)],
            !.output.dir = Directory(@),
            !.daemon = IF @ = None THEN None ELSE [@ EXCEPT !.outputDir = Directory(@)],
            !.filtering = IF @ = None THEN None ELSE [k \in DOMAIN @ |-> List(@[k])],
            !.versioning = IF @ = None THEN None
                           ELSE [@ EXCEPT !.strategy = Word(@), !.branches = List(@), !.tags = List(@)],
            !.monitoring = IF @ = None THEN None ELSE [k \in DOMAIN @ |-> Word(@[k])],
            !.forges = [i \in DOMAIN @ |-> [@[i] EXCEPT !.type = Word(@)]]]

-----------------------------------------------------------------------------
Accepted == cloaded \notin {None, Rejected}
NoRetry == [n |-> 0, pause |-> 0]

InitWith(files) ==
  /\ cfile \in files \cup {None}
  /\ cloaded = None /\ csnap = None /\ cdaemon = None /\ cretry = NoRetry

\* The init command: an existing file is kept unless it is forced.
InitCommand(force) ==
  /\ cloaded = None /\ csnap = None
  /\ cfile = None \/ force
  /\ cfile' = Example
  /\ UNCHANGED <<cloaded, csnap, cdaemon, cretry>>

LoadWithResult ==
  /\ cfile # None /\ cloaded = None
  /\ cloaded' = Load(cfile)
  /\ UNCHANGED <<cfile, csnap, cdaemon, cretry>>

\* The author writes the same file otherwise; the program is run again.
Respell ==
  /\ Accepted /\ csnap = None /\ cdaemon = None
  /\ csnap' = Snapshot(cloaded)
  /\ cfile' = Respelled(cfile) /\ cloaded' = None
  /\ UNCHANGED <<cdaemon, cretry>>

NewDaemon(natsUp) ==
  /\ Accepted /\ cloaded.daemon # None /\ cdaemon = None
  /\ cdaemon' = NewDaemonWithConfigFile(cloaded, natsUp)
  /\ UNCHANGED <<cfile, cloaded, csnap, cretry>>

\* A build of the queue fails again and is retried after a pause.
Retry ==
  /\ cdaemon # None /\ cdaemon.state = "made"
  /\ cretry.n < cdaemon.policy.retries
  /\ cretry' = [n |-> cretry.n + 1, pause |-> Delay(cdaemon.policy, cretry.n + 1)]
  /\ UNCHANGED <<cfile, cloaded, csnap, cdaemon>>

Next ==
  \/ \E force \in BOOLEAN : InitCommand(force)
  \/ LoadWithResult
  \/ Respell
  \/ \E natsUp \in BOOLEAN : NewDaemon(natsUp)
  \/ Retry

-----------------------------------------------------------------------------
(* Properties *)

\* A daemon made from an accepted configuration has what its parts assume: room and
\* workers in the queue, slots to verify links in, a quiet window that is positive
\* and no longer than the longest delay.  Known exceptions, which the validation
\* does not look at: a forge that is not authenticated by a token (the daemon
\* refuses to start), a negative max_concurrent (its construction panics) and a
\* blank quiet window or longest delay beside a shorter or longer one.
AcceptedIsUsable ==
  cdaemon # None =>
    /\ cdaemon.state = "refused" => \E i \in DOMAIN cloaded.forges : cloaded.forges[i].auth # "token"
    /\ cdaemon.state = "panicked" => cdaemon.slots < 0
    /\ cdaemon.queue > 0 /\ cdaemon.workers > 0 /\ cdaemon.quiet > 0 /\ cdaemon.maxDelay > 0
    /\ "blank" \notin {cloaded.daemon.quiet.text, cloaded.daemon.maxDelay.text} => cdaemon.quiet <= cdaemon.maxDelay
    /\ cloaded.build.concurrency > 0
    /\ Clean(cloaded.daemon.outputDir) = Clean(cloaded.output.dir)

\* The pauses of the queue never become shorter, and stay within the largest delay,
\* as long as their product is a time.Duration at all.
Fits(p, n) == p.initial * Growth(p.mode, n) <= MaxInt
PausesGrow ==
  cretry'.n > cretry.n /\ Fits(cdaemon.policy, cretry'.n) =>
    /\ cretry'.pause \in 1..cdaemon.policy.max
    /\ cretry'.pause >= cretry.pause

\* The same settings written in another way are accepted too and have the same
\* snapshot: the site is not built again for them.
SpellingKeepsSnapshot ==
  csnap # None => cloaded # Rejected /\ (Accepted => Snapshot(cloaded) = csnap)

\* Loading is stable: what it returns, written out and loaded, is accepted and
\* returned as it is.  Known exceptions: the default directory, which is not in its
\* cleaned form, and a strategy that was not written, which when written turns
\* versioning on.
Written(c) == [c EXCEPT !.build = [k \in DOMAIN Example.build |-> c.build[k]]]
LoadIsStable ==
  Accepted =>
    LET again == Load(Written(cloaded))
    IN /\ again # Rejected
       /\ [again EXCEPT !.output.dir = Clean(@), !.versioning.enabled = TRUE, !.build = [@ EXCEPT !.depthSet = TRUE, !.deletionsSet = TRUE, !.hardResetSet = TRUE]]
          = [cloaded EXCEPT !.output.dir = Clean(@), !.versioning.enabled = TRUE, !.build = [@ EXCEPT !.depthSet = TRUE, !.deletionsSet = TRUE, !.hardResetSet = TRUE]]

\* What the author wrote is what the program uses, also where it is zero or FALSE.
\* Known exceptions: no retries at all, versioning turned off beside a strategy,
\* skipping turned off or rendering left to chance for a daemon, and the link
\* verifier's switches turned off.
Chosen(written, used) == written # None => used = written
ExplicitIsKept ==
  Accepted =>
    LET f == cfile.build
        b == cloaded.build
    IN /\ f.depth # None /\ f.depth >= 0 => b.depth = f.depth
       /\ Chosen(f.deletions, b.deletions) /\ Chosen(f.hardReset, b.hardReset)
       /\ f.retries # None /\ f.retries > 0 => b.retries = f.retries
       /\ f.concurrency # None /\ f.concurrency > 0 => b.concurrency = f.concurrency
       /\ f.render.word \in Modes => b.render.word = f.render.word \/ (f.render.word = "auto" /\ cfile.daemon # None)
       /\ f.backoff.word \in Backoffs => b.backoff.word = f.backoff.word
       /\ f.clone.word \in CloneStrategies => b.clone.word = f.clone.word
       /\ cfile.daemon # None =>
            /\ Chosen(cfile.daemon.onDiscovery, cloaded.daemon.onDiscovery)
            /\ Chosen(cfile.daemon.immediate, cloaded.daemon.immediate)
       /\ cfile.filtering # None /\ cfile.filtering.required # None =>
            {cloaded.filtering.required[i].name : i \in DOMAIN cloaded.filtering.required}
            = {cfile.filtering.required[i].name : i \in DOMAIN cfile.filtering.required} \ {0}

\* The file that init writes is one the program accepts and starts a daemon from.
ExampleWorks ==
  cfile = Example => cloaded # Rejected /\ (cdaemon # None => cdaemon.state = "made")
==============================================================================
