------------------------------- MODULE Serving -------------------------------
(***************************************************************************)
(* What readers see of a site: the documentation server while a build is     *)
(* promoted, live reload, the local preview, and the verification of links   *)
(* after a build.  A behaviour is one of a single part, chosen at the start; *)
(* the variables of the others stay Off.                                     *)
(***************************************************************************)
EXTENDS Integers, Sequences, FiniteSets

CONSTANTS
  Off, None,
  Tabs, MaxConns, ChanCap, MaxReloads,          \* live reload
  Segments, SitePages, MaxBuilds, MaxFaults, MaxKills,   \* serving: a page is a sequence of segments
  MaxEdits, MaxFailures, Temp,                  \* preview
  DocPages, HTML, Form, VerifyExternalOnly, SkipEditLinks, MaxConcurrent,   \* links
  CacheTTL, CacheTTLFailures, Behaviours, MaxTime, MaxEvents

ASSUME ServingAssumption ==
  /\ {MaxConns, MaxReloads, MaxBuilds, MaxFaults, MaxKills, MaxTime, MaxEvents} \subseteq Nat
  /\ {ChanCap, MaxConcurrent, CacheTTL, CacheTTLFailures} \subseteq Nat \ {0}
  /\ None \notin Nat
  /\ SitePages \subseteq Seq(Segments) /\ <<>> \in SitePages
  /\ Behaviours \subseteq {"ok", "gone", "headless", "busy", "private", "nomethod", "down", "slow"}
  /\ VerifyExternalOnly \in BOOLEAN /\ SkipEditLinks \in BOOLEAN

VARIABLES part,
  site, closed, lastHash, clients, conn, closes, sending, closing, tab,
  out, prev, stage, at, cleaning, built, failures, kills, req, seen,
  main, docs, exists, watched, fsEvents, armed, request, chanClosed, builder, ctxDone, panicked, shown, tempOut,
  lastError, hasGoodBuild, badBuilds, unseen,
  now, world, swapping, html, server, connected, cache, hashes, running, cancelled, meta, todo, page, left, worker,
  slots, reported, answers, checked, cut, events

reloadVars == <<site, closed, lastHash, clients, conn, closes, sending, closing, tab>>
servingVars == <<out, prev, stage, at, cleaning, built, failures, kills, req, seen>>
previewVars == <<main, docs, exists, watched, fsEvents, armed, request, chanClosed, builder, ctxDone, panicked, shown,
                 tempOut, lastError, hasGoodBuild, badBuilds, unseen>>
linkVars == <<now, world, swapping, html, server, connected, cache, hashes, running, cancelled, meta, todo, page, left,
              worker, slots, reported, answers, checked, cut, events>>
vars == <<part, reloadVars, servingVars, previewVars, linkVars>>

L == INSTANCE LiveReload WITH Conns <- 1..MaxConns, MaxBuilds <- MaxReloads
S == INSTANCE SiteServing WITH Pages <- SitePages
P == INSTANCE Preview WITH events <- fsEvents, worker <- builder, out <- tempOut, failures <- badBuilds
V == INSTANCE LinkVerify WITH Pages <- DocPages

ReloadOff ==
  /\ site = Off /\ closed = Off /\ lastHash = Off /\ clients = Off /\ conn = Off /\ closes = Off /\ sending = Off
  /\ closing = Off /\ tab = Off
ServingOff ==
  /\ out = Off /\ prev = Off /\ stage = Off /\ at = Off /\ cleaning = Off /\ built = Off /\ failures = Off
  /\ kills = Off /\ req = Off /\ seen = Off
PreviewOff ==
  /\ main = Off /\ docs = Off /\ exists = Off /\ watched = Off /\ fsEvents = Off /\ armed = Off /\ request = Off
  /\ chanClosed = Off /\ builder = Off /\ ctxDone = Off /\ panicked = Off /\ shown = Off /\ tempOut = Off
  /\ lastError = Off /\ hasGoodBuild = Off /\ badBuilds = Off /\ unseen = Off
LinksOff ==
  /\ now = Off /\ world = Off /\ swapping = Off /\ html = Off /\ server = Off /\ connected = Off /\ cache = Off
  /\ hashes = Off /\ running = Off /\ cancelled = Off /\ meta = Off /\ todo = Off /\ page = Off /\ left = Off
  /\ worker = Off /\ slots = Off /\ reported = Off /\ answers = Off /\ checked = Off /\ cut = Off /\ events = Off

Init ==
  \/ part = "reload" /\ L!Init /\ ServingOff /\ PreviewOff /\ LinksOff
  \/ part = "serving" /\ S!Init /\ ReloadOff /\ PreviewOff /\ LinksOff
  \/ part = "preview" /\ P!Init /\ ReloadOff /\ ServingOff /\ LinksOff
  \/ part = "links" /\ V!Init /\ ReloadOff /\ ServingOff /\ PreviewOff

NotReload == <<part, servingVars, previewVars, linkVars>>
NotServing == <<part, reloadVars, previewVars, linkVars>>
NotPreview == <<part, reloadVars, servingVars, linkVars>>
NotLinks == <<part, reloadVars, servingVars, previewVars>>

Next ==
  \/ part = "reload" /\ L!Next /\ UNCHANGED NotReload
  \/ part = "serving" /\ S!Next /\ UNCHANGED NotServing
  \/ part = "preview" /\ P!Next /\ UNCHANGED NotPreview
  \/ part = "links" /\ V!Next /\ UNCHANGED NotLinks

Spec ==
  /\ Init /\ [][Next]_vars
  /\ \A c \in 1..MaxConns : WF_vars(part = "reload" /\ L!Handler(c) /\ UNCHANGED NotReload)
  /\ WF_vars(part = "reload" /\ L!HubStep /\ UNCHANGED NotReload)
  /\ WF_vars(part = "preview" /\ P!MainStep /\ UNCHANGED NotPreview)
  /\ WF_vars(part = "preview" /\ P!Fire /\ UNCHANGED NotPreview)
  /\ WF_vars(part = "preview" /\ P!WorkerStep /\ UNCHANGED NotPreview)
  /\ WF_vars(part = "links" /\ V!RunStep /\ UNCHANGED NotLinks)

\* A connected page shows the latest build that was broadcast; no channel is closed
\* twice, which would panic, by the handler, a broadcast and the shutdown of the hub
\* together; and the shutdown ends every connection that was taken (LiveReload).
ConnectedShowsLatest ==
  /\ [](part = "reload" => L!ConnectedShowsLatest /\ L!ClosedOnce)
  /\ (part = "reload" /\ closing # {})
       ~> (part = "reload" /\ closing = {} /\ \A c \in 1..MaxConns : closes[c] > 0 => conn[c].pc = "gone")

\* A request during which nothing is promoted gets the current site, or is sent to
\* a page that is there (SiteServing).
CalmIsCurrent == part = "serving" => S!CalmIsCurrent /\ S!RedirectIsFound

\* Requests never go back to an older build, and only the removal of a backup loses
\* the last copy of the site: no rename, failed rename or kill does (SiteServing).
SiteIsKept == [][part = "serving" => S!NeverGoesBack /\ S!OnlyRemovalLosesSite]_vars

\* An edit made after the watcher was set up is shown, unless a build fails or
\* the preview stops: also one made while a build runs, or in a new directory
\* before the watcher has been told of it.  After Ctrl-C the preview ends, whatever
\* the timer and the worker are doing; a timer that fires after the channel was
\* closed ends it with a panic (Preview).
EditIsShown ==
  /\ \A d \in {"root", "sub"} : (part = "preview" /\ P!Edited(d)) ~> (part = "preview" /\ P!Shown(d))
  /\ (part = "preview" /\ ctxDone) ~> (part = "preview" /\ (main = "exit" \/ panicked))

\* Only dead links are reported (LinkVerify).
NoFalseAlarm == part = "links" => V!NoFalseAlarm

\* A verification ends, no goroutine waits for a slot for ever, and by then every
\* link was checked recently (LinkVerify).
LinksAreChecked ==
  /\ [][part = "links" => V!RecentWhenDone]_vars
  /\ (part = "links" /\ running) ~> (part = "links" /\ ~running)

=============================================================================
