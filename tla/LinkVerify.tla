------------------------------ MODULE LinkVerify ------------------------------
(***************************************************************************)
(* Link verification after a build (internal/linkverify, started by          *)
(* internal/daemon/daemon_postbuild.go).  A run starts one goroutine per     *)
(* page, which is skipped when its content hash is the cached one, and one   *)
(* goroutine per link, at most MaxConcurrent at a time.  Results and page    *)
(* hashes are cached in a NATS key-value bucket whose entries expire; the    *)
(* server may be away, which is never an error.  A tick of the clock is      *)
(* longer than a check.                                                      *)
(***************************************************************************)
EXTENDS Integers, FiniteSets

CONSTANTS
  Pages, HTML,                \* page -> its elements, with tag and URL
  Form,                       \* URL -> what it looks like
  VerifyExternalOnly, SkipEditLinks, MaxConcurrent,
  CacheTTL, CacheTTLFailures, \* configured, in ticks
  Behaviours,                 \* how a linked server may answer
  MaxTime, MaxEvents,   \* bounds: ticks; changes, promotions, outages and cancellations
  None

VARIABLES
  now, world,        \* the clock; link -> how its server answers, or whether its file is there
  swapping,          \* a promotion is replacing the output directory
  html,              \* page -> its content
  server, connected, \* the NATS server is up; the client is connected
  cache, hashes,     \* the bucket: link -> its last result, page -> its content hash
  running, cancelled, meta, todo, page, left, worker, slots,   \* the run
  reported, answers, checked,   \* history
  cut, events        \* a run has been cancelled; what has happened around the runs

vars == <<now, world, swapping, html, server, connected, cache, hashes, running, cancelled, meta, todo, page, left,
          worker, slots, reported, answers, checked, cut, events>>

(* The links of a page *)

ExtractLinks(p) == {e.url : e \in {x \in HTML[p] : x.tag \in {"a", "img", "script", "link", "video", "audio", "source"}}}

\* Whatever has no host of its own, and the site's own host.
IsInternalLink(u) == Form[u] \in {"anchor", "mailto", "data", "relative", "site"}
FilterLinks(urls) == {u \in urls : IsInternalLink(u) => ~VerifyExternalOnly}

\* Neither an anchor nor a special protocol, nor a feed or an index that Hugo may
\* not have been asked for.
ShouldVerifyLink(u) == Form[u] \notin {"anchor", "mailto", "data", "optional"}
IsEditLink(u) == Form[u] = "edit"

LinksOf == [p \in Pages |->
  {u \in FilterLinks(ExtractLinks(p)) : ShouldVerifyLink(u) /\ ~(SkipEditLinks /\ IsEditLink(u))}]
Links == UNION {LinksOf[p] : p \in Pages}
Internal == {l \in Links : IsInternalLink(l)}

Worker == {w \in Pages \X Links : w[2] \in LinksOf[w[1]]}
env == <<now, world, swapping, html, server, answers, cut, events>>
work == <<running, cancelled, meta, todo, page, left, worker, slots>>

Init ==
  /\ now = 0 /\ world = [l \in Links |-> "ok"] /\ swapping = FALSE /\ html = [p \in Pages |-> 1]
  /\ server = TRUE /\ connected = TRUE
  /\ cache = [l \in Links |-> None] /\ hashes = [p \in Pages |-> None]
  /\ running = FALSE /\ cancelled = FALSE /\ todo = {} /\ meta = [p \in Pages |-> 1] /\ page = [p \in Pages |-> "idle"]
  /\ left = [p \in Pages |-> {}] /\ worker = [w \in Worker |-> [pc |-> "idle", prior |-> 0, ok |-> TRUE]]
  /\ slots = MaxConcurrent
  /\ reported = {} /\ answers = {} /\ checked = [l \in Links |-> 0]
  /\ cut = FALSE /\ events = 0

(* The bucket *)

\* Entries live as long as the longer of the two lifetimes.
CacheBucketTTL == IF CacheTTLFailures > CacheTTL THEN CacheTTLFailures ELSE CacheTTL

\* The client is connected, connects now, or the operation fails: without a
\* server, while another goroutine is connecting, and when the run was cancelled.
EnsureConnected(ok) ==
  \/ ok /\ ~cancelled /\ (connected \/ server) /\ connected' = TRUE
  \/ ~ok /\ (~connected \/ cancelled) /\ UNCHANGED connected

\* An entry that has not expired.
Kept(entry) == entry # None /\ now - entry.at < CacheBucketTTL

GetCachedResult(l, ok) == IF ok /\ Kept(cache[l]) THEN cache[l] ELSE None
GetPageHash(p, ok) == IF ok /\ Kept(hashes[p]) THEN hashes[p].hash ELSE None

\* A valid link is believed for CacheTTL, a broken one for CacheTTLFailures.
IsCacheValid(entry) == entry # None /\ now - entry.at < (IF entry.valid THEN CacheTTL ELSE CacheTTLFailures)

SetCachedResult(l, ok, valid, fails) ==
  cache' = IF ok THEN [cache EXCEPT ![l] = [valid |-> valid, at |-> now, fails |-> fails]] ELSE cache
SetPageHash(p, ok) == hashes' = IF ok THEN [hashes EXCEPT ![p] = [hash |-> meta[p], at |-> now]] ELSE hashes

\* An event that cannot be published is lost.
PublishBrokenLink(l, ok) == reported' = IF ok THEN reported \cup {l} ELSE reported
HandleBrokenLink(l, ok) == PublishBrokenLink(l, ok)

(* One check *)

\* The answers to HEAD and GET.
Head(b) == CASE b = "ok" -> 200 [] b = "gone" -> 404 [] b = "headless" -> 404 [] b = "busy" -> 429
             [] b = "private" -> 401 [] b = "nomethod" -> 405 [] b = "down" -> 500 [] b = "slow" -> 0
Get(b) == IF b = "headless" THEN 200 ELSE Head(b)

\* The switch has one case per status and no fallthrough: 401 and 403 match an
\* empty case, and only 405 is taken for an authorization error.
IsAuthError(status) == CASE status = 401 -> FALSE [] status = 403 -> FALSE [] status = 405 -> TRUE [] OTHER -> FALSE
IsRateLimited(status) == status = 429
IsTimeoutError(status) == status = 0

\* Whether the request is an error: a failed request, here a timeout, or a status
\* of 400 and above that is no authorization error.
DoExternalRequest(status) == ~IsAuthError(status) /\ (status = 0 \/ status >= 400)

\* Mutated form of CheckExternalLink: HEAD decides.
CheckExternalLink_HeadOnly(b) ==
  LET s == Head(b) IN ~DoExternalRequest(s) \/ IsTimeoutError(s) \/ IsRateLimited(s)

\* HEAD first; a timeout or a rate limit is no broken link; after 404 and 400
\* GET decides in the same way.
CheckExternalLink(b) ==
  LET good(s) == ~DoExternalRequest(s) \/ IsTimeoutError(s) \/ IsRateLimited(s) IN
  good(Head(b)) \/ (Head(b) \in {400, 404} /\ good(Get(b)))

\* A link to the site is a file of the output directory, as it is now.
CheckInternalLink(l) == world[l] = "ok" /\ ~swapping

CheckLink(l) == IF IsInternalLink(l) THEN CheckInternalLink(l) ELSE CheckExternalLink(world[l])

(* A run *)

\* One run at a time; the pages and their hashes are those of now.
VerifyPages ==
  /\ ~running /\ running' = TRUE /\ cancelled' = FALSE /\ todo' = Pages /\ meta' = html
  /\ UNCHANGED <<env, connected, cache, hashes, page, left, worker, slots, reported, checked>>

StartPage(p) ==
  /\ p \in todo /\ ~cancelled /\ todo' = todo \ {p} /\ page' = [page EXCEPT ![p] = "look"]
  /\ UNCHANGED <<env, connected, cache, hashes, running, cancelled, meta, left, worker, slots, reported, checked>>

\* A page whose content is the one verified before is skipped.
VerifyPage(p) ==
  /\ page[p] = "look"
  /\ \E ok \in BOOLEAN : EnsureConnected(ok) /\ LET same == GetPageHash(p, ok) = meta[p] IN
       /\ page' = [page EXCEPT ![p] = IF same THEN "done" ELSE "links"]
       /\ left' = [left EXCEPT ![p] = IF same THEN {} ELSE LinksOf[p]]
  /\ UNCHANGED <<env, cache, hashes, running, cancelled, meta, todo, worker, slots, reported, checked>>

\* A link waits for a slot before its goroutine starts; a page that waits when the
\* run is cancelled starts that link still.
StartLink(p, l) ==
  /\ page[p] = "slot" \/ (page[p] = "links" /\ ~cancelled)
  /\ l \in left[p] /\ slots > 0 /\ slots' = slots - 1
  /\ page' = [page EXCEPT ![p] = "links"]
  /\ left' = [left EXCEPT ![p] = @ \ {l}]
  /\ worker' = [worker EXCEPT ![<<p, l>>] = [pc |-> "read", prior |-> 0, ok |-> TRUE]]
  /\ UNCHANGED <<env, connected, cache, hashes, running, cancelled, meta, todo, reported, checked>>

\* The page is done when its links have been started, and its hash is cached; a
\* cancelled run leaves it as it was.
PageEnds(p) ==
  /\ page[p] = "links" /\ page' = [page EXCEPT ![p] = "done"] /\ left' = [left EXCEPT ![p] = {}]
  /\ \/ left[p] = {} /\ \E ok \in BOOLEAN : EnsureConnected(ok) /\ SetPageHash(p, ok)
     \/ left[p] # {} /\ cancelled /\ UNCHANGED <<connected, hashes>>
  /\ UNCHANGED <<env, cache, running, cancelled, meta, todo, worker, slots, reported, checked>>

\* Mutated form of Finish: the slot is given back by workers that checked only.
Finish_KeepsSlot(w) ==
  /\ worker' = [worker EXCEPT ![w] = [@ EXCEPT !.pc = "idle"]]
  /\ slots' = IF worker[w].pc = "write" THEN slots + 1 ELSE slots

\* A goroutine that ends gives its slot back.
Finish(w) == worker' = [worker EXCEPT ![w] = [@ EXCEPT !.pc = "idle"]] /\ slots' = slots + 1

\* A result that is still believed ends the goroutine, with an event when it is
\* a broken one.
ReadCache(w) ==
  /\ worker[w].pc = "read"
  /\ \E ok \in BOOLEAN : EnsureConnected(ok) /\ LET e == GetCachedResult(w[2], ok) IN
       \/ IsCacheValid(e) /\ Finish(w)
          /\ IF e.valid THEN UNCHANGED reported ELSE HandleBrokenLink(w[2], ok)
       \/ ~IsCacheValid(e) /\ worker' = [worker EXCEPT ![w] = [pc |-> "check", prior |-> IF e = None THEN 0 ELSE e.fails, ok |-> TRUE]]
          /\ UNCHANGED <<slots, reported>>
  /\ UNCHANGED <<env, cache, hashes, running, cancelled, meta, todo, page, left, checked>>

\* The check, the failure count and the event.
VerifyLink(w) ==
  /\ worker[w].pc = "check"
  /\ LET good == CheckLink(w[2]) IN
     /\ worker' = [worker EXCEPT ![w] = [pc |-> "write", prior |-> IF good THEN 0 ELSE @.prior + 1, ok |-> good]]
     /\ \E ok \in BOOLEAN : EnsureConnected(ok) /\ IF good THEN UNCHANGED reported ELSE HandleBrokenLink(w[2], ok)
  /\ checked' = IF cancelled THEN checked ELSE [checked EXCEPT ![w[2]] = now]
  /\ UNCHANGED <<env, cache, hashes, running, cancelled, meta, todo, page, left, slots>>

WriteCache(w) ==
  /\ worker[w].pc = "write"
  /\ \E ok \in BOOLEAN : EnsureConnected(ok) /\ SetCachedResult(w[2], ok, worker[w].ok, worker[w].prior)
  /\ Finish(w)
  /\ UNCHANGED <<env, hashes, running, cancelled, meta, todo, page, left, reported, checked>>

\* The wait group covers the pages and their links.
RunEnds ==
  /\ running /\ (todo = {} \/ cancelled) /\ \A p \in Pages : page[p] \in {"idle", "done"}
  /\ \A w \in DOMAIN worker : worker[w].pc = "idle"
  /\ running' = FALSE /\ todo' = {} /\ page' = [p \in Pages |-> "idle"]
  /\ UNCHANGED <<env, connected, cache, hashes, cancelled, meta, left, worker, slots, reported, checked>>

(* What happens around it *)

Tick ==
  /\ now < MaxTime /\ ~running /\ now' = now + 1
  /\ UNCHANGED <<world, swapping, html, server, connected, cache, hashes, work, reported, answers, checked, cut, events>>

\* A linked server changes its ways, or a file of the site goes.
Change(l) ==
  /\ events < MaxEvents /\ events' = events + 1
  /\ \E b \in IF IsInternalLink(l) THEN {"ok", "gone"} ELSE Behaviours : b # world[l] /\ world' = [world EXCEPT ![l] = b]
  /\ answers' = answers \cup {<<l, world'[l]>>}
  /\ UNCHANGED <<now, swapping, html, server, connected, cache, hashes, work, reported, checked, cut>>

\* Another build replaces the output while links are checked.
Swap ==
  /\ events < MaxEvents /\ events' = events + 1 /\ ~swapping /\ swapping' = TRUE
  /\ answers' = answers \cup {<<l, "gone">> : l \in Internal}
  /\ UNCHANGED <<now, world, html, server, connected, cache, hashes, work, reported, checked, cut>>
Swapped ==
  /\ swapping /\ swapping' = FALSE /\ \E p \in Pages : html' = [html EXCEPT ![p] = 3 - @]
  /\ UNCHANGED <<now, world, server, connected, cache, hashes, work, reported, answers, checked, cut, events>>

Outage ==
  /\ server /\ events < MaxEvents /\ events' = events + 1 /\ server' = FALSE /\ connected' = FALSE
  /\ UNCHANGED <<now, world, swapping, html, cache, hashes, work, reported, answers, checked, cut>>
Recovery ==
  /\ ~server /\ server' = TRUE
  /\ UNCHANGED <<now, world, swapping, html, connected, cache, hashes, work, reported, answers, checked, cut, events>>

\* The daemon stops, or the thirty minutes are over: some of the pages that have
\* links left have looked before that and wait for a slot.
Cancel ==
  /\ running /\ ~cancelled /\ events < MaxEvents /\ events' = events + 1 /\ cut' = TRUE /\ cancelled' = TRUE
  /\ \E waiting \in SUBSET {p \in Pages : page[p] = "links" /\ left[p] # {} /\ slots = 0} :
       page' = [p \in Pages |-> IF p \in waiting THEN "slot" ELSE page[p]]
  /\ UNCHANGED <<now, world, swapping, html, server, connected, cache, hashes, running, meta, todo, left, worker,
                 slots, reported, answers, checked>>

RunStep ==
  \/ (\E p \in Pages : StartPage(p) \/ VerifyPage(p) \/ PageEnds(p) \/ \E l \in left[p] : StartLink(p, l))
  \/ (\E w \in DOMAIN worker : ReadCache(w) \/ VerifyLink(w) \/ WriteCache(w))
  \/ RunEnds

Next ==
  \/ VerifyPages \/ RunStep \/ Tick \/ Swap \/ Swapped \/ Outage \/ Recovery \/ Cancel
  \/ \E l \in DOMAIN world : Change(l)

\* An event names a link that has been dead: a timeout, a rate limit, a server
\* that knows no HEAD, an outage of NATS or a cancelled run make no broken link.  A
\* link into the site is dead while a promotion replaces the output, and one
\* behind a login is taken for dead.
NoFalseAlarm == \A l \in reported : \E b \in {"gone", "down", "private"} : <<l, b>> \in answers

\* When a run ends every link has been checked, in it or not longer ago than a
\* result may be believed after its page was last looked at: neither slots, nor
\* the skipped pages, nor outages of the cache leave a link out.
Longest == IF CacheTTLFailures > CacheTTL THEN CacheTTLFailures ELSE CacheTTL
RecentWhenDone ==
  (running /\ ~running' /\ ~cut) => \A l \in Links : now - checked[l] <= 2 * Longest - 2

=============================================================================
