------------------------------- MODULE Sources -------------------------------
(***************************************************************************)
(* Where documentation comes from: the discovery of repositories, the        *)
(* webhooks that report a push, and the working copy of one repository.  A   *)
(* behaviour is one of a single part, chosen at the start; the variables of  *)
(* the others stay Off.                                                      *)
(***************************************************************************)
EXTENDS Integers, Sequences, FiniteSets

CONSTANTS
  Off, None, Unknown,
  Runs, Loop, Forges, Type, Configured, Repos, ForgeOf, PageSize, Required, Setups, MaxChanges,   \* discovery
  Deliveries, Main, Other, Secret, BaseURL, Pushed, Host, Path, MaxTicks, MaxResults,   \* webhooks
  Commits, Parent, First, Pins, MaxRetries, Depth, MaxPushes, MaxKills, MaxErrors   \* working copy

\* A page holds something, a repository is on one of the forges, and no
\* discovery result is not a result; a full name is a sequence of segments; no
\* commit and a failure are not commits.
ASSUME SourcesAssumption ==
  /\ PageSize \in Nat \ {0} /\ IsFiniteSet(Repos) /\ ForgeOf \in [Repos -> Forges]
  /\ \A S \in SUBSET Repos : S # Unknown
  /\ \A s \in Setups : s.forges \subseteq Forges /\ s.runs \subseteq Runs
  /\ Path \in [Pushed -> Seq(STRING)]
  /\ First \in Commits /\ Commits \cap {None, "failed"} = {} /\ None # "failed"

VARIABLES part,
  setup, listing, docs, run, cache, tracked, removals, changes, faults, restarts, removed, excused, raced, leftover,
  mode, known, msg, at, ticks, match, discovering, results,
  hardReset, remote, dir, objects, branch, tracking, head, pc, plan, attempt, result, seen, pushes, errors, kills

discoveryVars == <<setup, listing, docs, run, cache, tracked, removals, changes, faults, restarts, removed, excused, raced, leftover>>
webhookVars == <<mode, known, msg, at, ticks, match, discovering, results>>
gitVars == <<hardReset, remote, dir, objects, branch, tracking, head, pc, plan, attempt, result, seen, pushes, errors, kills>>
vars == <<part, discoveryVars, webhookVars, gitVars>>

D == INSTANCE ForgeDiscovery
W == INSTANCE Webhooks WITH Kind <- Type, Repos <- Pushed
G == INSTANCE GitClient WITH faults <- errors, MaxFaults <- MaxErrors

DiscoveryOff ==
  /\ setup = Off /\ listing = Off /\ docs = Off /\ run = Off /\ cache = Off /\ tracked = Off /\ removals = Off /\ changes = Off
  /\ faults = Off /\ restarts = Off /\ removed = Off /\ excused = Off /\ raced = Off /\ leftover = Off
WebhookOff ==
  /\ mode = Off /\ known = Off /\ msg = Off /\ at = Off /\ ticks = Off /\ match = Off /\ discovering = Off /\ results = Off
GitOff ==
  /\ hardReset = Off /\ remote = Off /\ dir = Off /\ objects = Off /\ branch = Off /\ tracking = Off /\ head = Off
  /\ pc = Off /\ plan = Off /\ attempt = Off /\ result = Off /\ seen = Off /\ pushes = Off /\ errors = Off
  /\ kills = Off

Init ==
  \/ part = "discovery" /\ D!Init /\ WebhookOff /\ GitOff
  \/ part = "webhook" /\ W!Init /\ DiscoveryOff /\ GitOff
  \/ part = "git" /\ G!Init /\ DiscoveryOff /\ WebhookOff

Next ==
  \/ part = "discovery" /\ D!Next /\ UNCHANGED <<part, webhookVars, gitVars>>
  \/ part = "webhook" /\ W!Next /\ UNCHANGED <<part, discoveryVars, gitVars>>
  \/ part = "git" /\ G!Next /\ UNCHANGED <<part, discoveryVars, webhookVars>>

Spec ==
  /\ Init /\ [][Next]_vars
  /\ WF_vars(part = "discovery" /\ D!RunStep(Loop) /\ UNCHANGED <<part, webhookVars, gitVars>>)
  /\ WF_vars(part = "discovery" /\ D!HandleRepoRemoved /\ UNCHANGED <<part, webhookVars, gitVars>>)
  /\ \A d \in Deliveries : WF_vars(part = "webhook" /\ W!Step(d) /\ UNCHANGED <<part, discoveryVars, gitVars>>)
  /\ WF_vars(part = "git" /\ G!FetchStep /\ UNCHANGED <<part, discoveryVars, webhookVars>>)

\* A repository that stayed where it was is never reported as removed, however runs
\* overlap, and runs in sequence leave the state tracking what the last one found
\* (ForgeDiscovery).
RemovalIsReal == part = "discovery" => D!PresentIsNotRemoved /\ D!TrackedIsFound

\* Discovery settles on every repository that has documentation, whatever
\* overlapping runs and late removals did before (ForgeDiscovery).
WantedIsTracked == <>[](part = "discovery" => D!Wanted \subseteq tracked)

\* A webhook that was accepted is decided, whenever discovery ends: it updates the
\* repository it is about, or is dropped when that one is not known (Webhooks).
WebhookIsDecided ==
  /\ [](part = "webhook" => W!UpdateIsSenders)
  /\ [][part = "webhook" => \A d \in Deliveries : W!UnmatchedIsUnknown(d)]_vars
  /\ \A d \in Deliveries : (part = "webhook" /\ at[d] = "published") ~> (part = "webhook" /\ at[d] \in W!Ended)

\* A fetch ends, with whatever faults and retries, and one that succeeds leaves the
\* pinned commit or a head the remote had meanwhile; without hard reset the branch
\* only moves forward, and with it a fetch without faults succeeds (GitClient).
FetchedIsCurrent ==
  /\ [](part = "git" => G!FetchedIsCurrent /\ G!ResetAlwaysUpdates)
  /\ [][part = "git" => G!BranchMovesForward]_vars
  /\ (part = "git" /\ pc # "idle") ~> (part = "git" /\ pc = "idle")

=============================================================================
