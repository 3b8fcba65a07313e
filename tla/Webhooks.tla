------------------------------- MODULE Webhooks -------------------------------
(***************************************************************************)
(* Forge webhooks from the HTTP request to the request for an update of one *)
(* repository (server/handlers/webhook.go, the forges' ValidateWebhook and   *)
(* ParseWebhookEvent, daemon/webhook_received_consumer.go), with the retry   *)
(* of an event that arrives before discovery knows any repository.           *)
(***************************************************************************)
EXTENDS Integers, Sequences, FiniteSets, SequencesExt

CONSTANTS
  Deliveries,   \* webhook requests, each handled by a goroutine of its own
  Forges,
  Kind,         \* Kind[f]: "github", "gitlab" or "forgejo"
  Secret,       \* the forges with a webhook secret in the configuration
  BaseURL,      \* the forges with a base URL in the configuration
  Repos,
  Host,         \* Host[r]: the forge in the repository's clone URL
  Path,         \* Path[r]: its full name, as the sequence of its segments
  Main, Other,  \* a repository's default branch, and another
  MaxResults,   \* bound on the discovery results
  MaxTicks,     \* ticks of the retry until it gives up (500 ms in 2 minutes)
  None

VARIABLES
  mode,      \* "static": repositories are configured; "forge": discovered
  known,     \* the repositories of the configuration or the last discovery
  msg,       \* msg[d]: what the forge sent
  at,        \* at[d]: where the delivery is, or how it ended
  ticks,     \* ticks[d]: how often the retry looked in vain
  match,     \* match[d]: the repository whose update was requested
  discovering, \* a discovery has been started
  results      \* discovery results so far

vars == <<mode, known, msg, at, ticks, match, discovering, results>>

Ended == {"rejected", "ignored", "unmatched", "branch", "irrelevant", "requested", "gave up"}

\* A tag push is "tag" here, a system hook about a push "system"; "bare" is a
\* correct SHA-1 without its prefix.
Messages == [repo : Repos, signature : {"valid", "bare", "wrong"}, branch : {Main, Other},
             event : {"push", "tag", "system", "repository"}, files : {"docs", "other"}]

Init ==
  /\ mode \in {"static", "forge"}
  /\ known \in IF mode = "forge" THEN {{}} ELSE {R \in SUBSET Repos : R # {}}
  /\ msg = [d \in Deliveries |-> None] /\ at = [d \in Deliveries |-> "new"]
  /\ ticks = [d \in Deliveries |-> 0] /\ match = [d \in Deliveries |-> None]
  /\ discovering = FALSE /\ results = 0

-----------------------------------------------------------------------------
(* The HTTP handler.                                                       *)

\* ValidateWebhook of each client.
GitHubValid(m) == m.signature = "valid"
GitLabValid(m) == m.signature = "valid"
ForgejoValid(m) == m.signature \in {"valid", "bare"}

\* validateWebhookSignature: without a configured secret everything passes.
Validates(m) ==
  LET f == Host[m.repo]
  IN  \/ f \notin Secret
      \/ Kind[f] = "github" /\ GitHubValid(m)
      \/ Kind[f] = "gitlab" /\ GitLabValid(m)
      \/ Kind[f] = "forgejo" /\ ForgejoValid(m)

\* parsePushEvent: the changed files are those of the commits.  parseTagPushEvent
\* has none, parseRepositoryEvent neither branch nor files.
PushEvent(m) == [branch |-> m.branch, files |-> m.files]
TagEvent(m) == [branch |-> m.branch, files |-> "none"]
RepositoryEvent == [branch |-> None, files |-> "none"]

\* ParseWebhookEvent of each client; an event that is not supported leaves none.
\* For GitHub and Forgejo the push of a tag is a push of refs/tags/...
GitHubEvent(m) == CASE m.event \in {"push", "tag"} -> PushEvent(m)
                    [] m.event = "repository" -> RepositoryEvent
                    [] OTHER -> None
GitLabEvent(m) == CASE m.event \in {"push", "system"} -> PushEvent(m)
                    [] m.event = "tag" -> TagEvent(m)
                    [] OTHER -> RepositoryEvent
ForgejoEvent(m) == CASE m.event \in {"push", "tag"} -> PushEvent(m)
                     [] m.event = "repository" -> RepositoryEvent
                     [] OTHER -> None
Event(m) == CASE Kind[Host[m.repo]] = "github" -> GitHubEvent(m)
              [] Kind[Host[m.repo]] = "gitlab" -> GitLabEvent(m)
              [] OTHER -> ForgejoEvent(m)

\* The event's branch: normalizeGitBranchRef cuts refs/heads/ and refs/tags/.
Branch(m) == Event(m).branch

\* handleForgeWebhookWithValidation, triggerBuildFromEvent and
\* TriggerWebhookBuild, which publishes the event.
Deliver(d, m) ==
  /\ at[d] = "new" /\ msg' = [msg EXCEPT ![d] = m]
  /\ at' = [at EXCEPT ![d] = IF ~Validates(m) THEN "rejected" ELSE IF Event(m) = None THEN "ignored" ELSE "published"]
  /\ UNCHANGED <<known, ticks, match, discovering, mode, results>>

-----------------------------------------------------------------------------
(* The consumer.                                                           *)

\* matchWebhookRepo: the host counts if the forge's base URL is configured.
SameHost(f, r) == f \notin BaseURL \/ Host[r] = f

\* repoMatchesFullName, matchesRepoURL: the URL ends with the full name.
MatchesFullName(r, path) == IsSuffix(path, Path[r])

\* With configured repositories the branch takes part in the match.
Matches(m) == {r \in known : /\ SameHost(Host[m.repo], r) /\ MatchesFullName(r, Path[m.repo])
                             /\ mode = "forge" \/ Branch(m) \in {None, Main}}

\* collectChangedFiles, hasDocsRelevantChange: no files is no reason to ignore.
Relevant(m) == Event(m).files \in {"docs", "none"}

\* handleWebhookReceived with repositories known: the first match in the order
\* of the list, which discovery leaves open.
Consume(d) ==
  /\ at[d] = "published" /\ known # {}
  /\ LET m == msg[d]
     IN  \/ /\ Matches(m) = {} /\ at' = [at EXCEPT ![d] = "unmatched"] /\ UNCHANGED match
         \/ \E r \in Matches(m) :
              IF Branch(m) \notin {None, Main} THEN at' = [at EXCEPT ![d] = "branch"] /\ UNCHANGED match
              ELSE IF ~Relevant(m) THEN at' = [at EXCEPT ![d] = "irrelevant"] /\ UNCHANGED match
              ELSE at' = [at EXCEPT ![d] = "requested"] /\ match' = [match EXCEPT ![d] = r]
  /\ UNCHANGED <<known, msg, ticks, discovering, mode, results>>

\* handleWebhookWithNoRepos: a discovery and the retry are started.
ConsumeUnknown(d) ==
  /\ at[d] = "published" /\ known = {}
  /\ at' = [at EXCEPT ![d] = "waiting"] /\ ticks' = [ticks EXCEPT ![d] = 0] /\ discovering' = TRUE
  /\ UNCHANGED <<known, msg, match, mode, results>>

\* retryWebhookAfterDiscovery: published again once something is known.
Tick(d) ==
  /\ at[d] = "waiting" /\ ticks[d] < MaxTicks
  /\ IF known = {} THEN ticks' = [ticks EXCEPT ![d] = @ + 1] /\ UNCHANGED at
                   ELSE at' = [at EXCEPT ![d] = "published"] /\ UNCHANGED ticks
  /\ UNCHANGED <<known, msg, match, discovering, mode, results>>

\* Mutated form of GiveUp: the retry has no timer.
GiveUp_Never(d) == FALSE /\ UNCHANGED vars

\* The timer of the retry; it may win over a tick that is due with it.
GiveUp(d) ==
  /\ at[d] = "waiting" /\ ticks[d] >= MaxTicks - 1
  /\ at' = [at EXCEPT ![d] = "gave up"]
  /\ UNCHANGED <<known, msg, ticks, match, discovering, mode, results>>

\* A discovery run ends with this result, empty if every forge failed.
Discovered(R) ==
  /\ discovering /\ known' = R /\ discovering' = FALSE
  /\ results < MaxResults /\ results' = results + 1
  /\ UNCHANGED <<msg, at, ticks, match, mode>>

\* The periodic discovery.
DiscoveryTick ==
  /\ mode = "forge" /\ ~discovering /\ discovering' = TRUE
  /\ UNCHANGED <<known, msg, at, ticks, match, mode, results>>

Step(d) == Consume(d) \/ ConsumeUnknown(d) \/ Tick(d) \/ GiveUp(d)

Next ==
  \/ \E d \in Deliveries : Step(d) \/ \E m \in Messages : Deliver(d, m)
  \/ \E R \in SUBSET Repos : Discovered(R)
  \/ DiscoveryTick

\* The consumer and the retry are goroutines that are always ready.
Spec == Init /\ [][Next]_vars /\ \A d \in Deliveries : WF_vars(Step(d))

-----------------------------------------------------------------------------
(* Properties.                                                             *)

\* Two known repositories of one path, or one path within another's.
Ambiguous(f) == \E r, s \in Repos : r # s /\ Host[r] = f /\ Host[s] = f /\ IsSuffix(Path[r], Path[s])

\* The update requested is of the repository the forge reported, known or not
\* when the request came, if its forge has a base URL and no repository's path
\* ends in another's; and a forge with a secret signed it.
UpdateIsSenders ==
  \A d \in Deliveries : at[d] = "requested" =>
     /\ Host[msg[d].repo] \in Secret => msg[d].signature # "wrong"
     /\ (Host[msg[d].repo] \in BaseURL /\ ~Ambiguous(Host[msg[d].repo])) => match[d] = msg[d].repo

\* An event is dropped as unmatched only while repositories are known and the
\* sender, with its default branch, is not one of them; before that it waits.
UnmatchedIsUnknown(d) ==
  (at'[d] = "unmatched" /\ at[d] # "unmatched") =>
     known # {} /\ (msg[d].repo \notin known \/ Branch(msg[d]) \notin {None, Main})

=============================================================================
