------------------------------ MODULE LiveReload ------------------------------
(***************************************************************************)
(* The live-reload hub (internal/daemon/livereload.go) and the script that   *)
(* a served page runs (internal/server/httpserver/http_server_livereload.go).*)
(* A browser tab loads a page, opens a connection and reloads when a hash    *)
(* other than the first one it was sent arrives.  The hub keeps one entry    *)
(* per connection, with a bounded channel; a broadcast takes a snapshot of   *)
(* the entries under the lock and sends outside it, and drops the entry      *)
(* whose channel is full.  There is one broadcaster, the rebuild worker of   *)
(* the preview.  A hash is the number of the build it announces, 0 is the    *)
(* empty hash.                                                               *)
(***************************************************************************)
EXTENDS Integers, Sequences, FiniteSets

CONSTANTS
  Tabs, Conns,   \* browser tabs; connections 1..n, each used once
  ChanCap,       \* capacity of a connection's channel (8 in the code)
  MaxBuilds,     \* bound on the builds
  None

VARIABLES
  site,       \* the build that is served
  closed, lastHash, clients,   \* LiveReloadHub
  conn,       \* connection -> where its handler is, its channel, what it read on registering
  closes,     \* connection -> how often its done channel has been closed
  sending,    \* the broadcast under way: its hash and the entries still to send to
  closing,    \* entries that Shutdown has taken and not yet closed
  tab         \* tab -> the build of its page, its connection, the hash it knows

vars == <<site, closed, lastHash, clients, conn, closes, sending, closing, tab>>
hub == <<closed, lastHash, clients>>

Quiet == [hash |-> 0, todo |-> {}]

Init ==
  /\ site = 1 /\ closed = FALSE /\ lastHash = 0 /\ clients = {}
  /\ conn = [c \in Conns |-> [pc |-> "free", ch |-> <<>>, current |-> 0]]
  /\ closes = [c \in Conns |-> 0] /\ sending = Quiet /\ closing = {}
  /\ tab = [t \in Tabs |-> [page |-> 1, conn |-> None, current |-> 0, late |-> FALSE]]

TabOf(c) == {t \in Tabs : tab[t].conn = c}
Goto(c, pc) == [conn EXCEPT ![c].pc = pc]

\* The tab's script opens its connection; the handler first looks at closed.
\* A refused request is an error for the script, which tries again later.
ServeHTTP(t, c) ==
  /\ tab[t].conn = None /\ conn[c].pc = "free" /\ \A d \in Conns : d < c => conn[d].pc # "free"
  /\ conn' = Goto(c, IF closed THEN "gone" ELSE "checked")
  /\ tab' = [tab EXCEPT ![t].conn = IF closed THEN None ELSE c]
  /\ UNCHANGED <<site, hub, closes, sending, closing>>

\* The entry and the hash to greet with, under one lock.  closed is not looked
\* at again: an entry may arrive after Shutdown.
Register(c) ==
  /\ conn[c].pc = "checked"
  /\ conn' = [conn EXCEPT ![c].pc = "registered", ![c].current = lastHash]
  /\ clients' = clients \cup {c}
  /\ UNCHANGED <<site, closed, lastHash, closes, sending, closing, tab>>

\* The script: the first hash is remembered, another one reloads the page, which
\* ends the connection.  A page older than its first hash stays as it is ("late").
OnMessage(t, h) ==
  [tab EXCEPT ![t] =
     IF @.current = 0 THEN [@ EXCEPT !.current = h, !.late = tab[t].page < h]
     ELSE IF h # @.current THEN [page |-> site, conn |-> None, current |-> 0, late |-> FALSE]
     ELSE @]

\* What a write reaches: nobody when the tab has closed the connection.
Write(c, h) == IF TabOf(c) = {} \/ h = 0 THEN tab ELSE OnMessage(CHOOSE t \in TabOf(c) : TRUE, h)

\* The greeting.  When it cannot be written the handler returns at once and its
\* entry stays in the hub.
Greet(c) ==
  /\ conn[c].pc = "registered"
  /\ \/ conn' = Goto(c, "loop") /\ tab' = Write(c, conn[c].current)
     \/ TabOf(c) = {} /\ conn' = Goto(c, "gone") /\ UNCHANGED tab
  /\ UNCHANGED <<site, hub, closes, sending, closing>>

\* The handler's loop receives a hash and writes it; a failed write is ignored.
Receive(c) ==
  /\ conn[c].pc = "loop" /\ conn[c].ch # <<>>
  /\ conn' = [conn EXCEPT ![c].ch = Tail(@)] /\ tab' = Write(c, Head(conn[c].ch))
  /\ UNCHANGED <<site, hub, closes, sending, closing>>

\* Take an entry out and close its done channel, if it is still there.
RemoveClient(c) ==
  /\ clients' = clients \ {c}
  /\ closes' = IF c \in clients THEN [closes EXCEPT ![c] = @ + 1] ELSE closes

\* Mutated form of Leave: the loop does not select on done.
Leave_OnlyRequest(c) ==
  /\ conn[c].pc = "loop" /\ TabOf(c) = {}
  /\ conn' = Goto(c, "gone") /\ RemoveClient(c)
  /\ UNCHANGED <<site, closed, lastHash, sending, closing, tab>>

\* The request has been cancelled by its tab, or done has been closed.  The
\* tab of a connection that the hub ends sees an error.
Leave(c) ==
  /\ conn[c].pc = "loop" /\ (TabOf(c) = {} \/ closes[c] > 0)
  /\ conn' = Goto(c, "gone") /\ RemoveClient(c)
  /\ tab' = [t \in Tabs |-> IF tab[t].conn = c THEN [tab[t] EXCEPT !.conn = None, !.current = 0] ELSE tab[t]]
  /\ UNCHANGED <<site, closed, lastHash, sending, closing>>

\* The rebuild worker has built the site again, and announces it.  The first
\* build is made before the server starts and is not announced.
Build ==
  /\ sending = Quiet /\ (site = 1 \/ lastHash = site \/ closed) /\ site < MaxBuilds /\ site' = site + 1
  /\ UNCHANGED <<hub, conn, closes, sending, closing, tab>>

Broadcast ==
  /\ sending = Quiet /\ site > 1 /\ ~closed /\ site # lastHash
  /\ lastHash' = site /\ sending' = IF clients = {} THEN Quiet ELSE [hash |-> site, todo |-> clients]
  /\ UNCHANGED <<site, closed, clients, conn, closes, closing, tab>>

\* One send of a broadcast, outside the lock.
Send(c) ==
  /\ c \in sending.todo
  /\ sending' = IF sending.todo = {c} THEN Quiet ELSE [sending EXCEPT !.todo = @ \ {c}]
  /\ \/ /\ Len(conn[c].ch) < ChanCap
        /\ conn' = [conn EXCEPT ![c].ch = Append(@, sending.hash)] /\ UNCHANGED <<clients, closes>>
     \/ /\ Len(conn[c].ch) = ChanCap
        /\ RemoveClient(c) /\ UNCHANGED conn
  /\ UNCHANGED <<site, closed, lastHash, closing, tab>>

\* Shutdown takes the entries under the lock and closes them outside it.
Shutdown ==
  /\ ~closed /\ closed' = TRUE /\ closing' = clients /\ clients' = {}
  /\ UNCHANGED <<site, lastHash, conn, closes, sending, tab>>

CloseDone(c) ==
  /\ c \in closing /\ closing' = closing \ {c} /\ closes' = [closes EXCEPT ![c] = @ + 1]
  /\ UNCHANGED <<site, hub, conn, sending, tab>>

\* The tab is closed, or moves to another page.
CloseTab(t) ==
  /\ tab[t].conn # None
  /\ tab' = [tab EXCEPT ![t] = [page |-> site, conn |-> None, current |-> 0, late |-> FALSE]]
  /\ UNCHANGED <<site, hub, conn, closes, sending, closing>>

\* The steps of a connection's handler and of Shutdown, which the Go scheduler
\* runs to the end.
Handler(c) == Register(c) \/ Greet(c) \/ Receive(c) \/ Leave(c)
HubStep == \E c \in Conns : Send(c) \/ CloseDone(c)

Next ==
  \/ \E t \in Tabs, c \in Conns : ServeHTTP(t, c)
  \/ \E c \in Conns : Handler(c)
  \/ Build \/ Broadcast \/ HubStep \/ Shutdown
  \/ \E t \in Tabs : CloseTab(t)

\* No done channel is closed twice, which would panic: removeClient, a broadcast
\* that drops an entry and Shutdown may all end the same connection.
ClosedOnce == \A c \in Conns : closes[c] + (IF c \in closing THEN 1 ELSE 0) <= 1

\* A tab that is connected and has read all it was sent shows the build that was
\* last announced, unless its page was older than the first hash it was sent:
\* registration and broadcast cannot miss each other, and a client that is too
\* slow is disconnected rather than left with an old hash.
ConnectedShowsLatest ==
  (sending = Quiet /\ ~closed /\ lastHash # 0) =>
    \A t \in Tabs : LET c == tab[t].conn IN
      (c # None /\ conn[c].pc = "loop" /\ conn[c].ch = <<>> /\ closes[c] = 0) =>
        tab[t].page >= lastHash \/ tab[t].late

=============================================================================
