-------------------------- MODULE BuildCoalescing ---------------------------
(***************************************************************************)
(* What the build debouncer promises, without the timers, the polling and   *)
(* the steps of its loop: requests are taken in the order in which they     *)
(* came; they join the one batch that waits, or open it; a batch leaves as  *)
(* one BuildNow, in one step, with the job of its last request and, for     *)
(* every repository, the commit that was pinned last.                       *)
(*                                                                         *)
(* When a batch leaves is not said here: BuildDebouncer says it, and        *)
(* implements this specification (BuildDebouncer, Coalesces).               *)
(***************************************************************************)
EXTENDS Sequences

CONSTANTS JobIDs, NoJob, Repos, Commits, NoCommit

VARIABLES
  asked,      \* requests on their way to the debouncer
  batch,      \* the batch that waits: {} or {b}
  last,       \* the job of the batch that left last
  sent,       \* BuildNow events on their way to the queue
  listening   \* somebody receives BuildNow events

vars == <<asked, batch, last, sent, listening>>

Pins == [Repos -> Commits \cup {NoCommit}]
Requests == [job : JobIDs \cup {NoJob}, immediate : BOOLEAN, snapshot : Pins]

Init ==
  /\ asked = <<>> /\ batch = {} /\ last = NoJob
  /\ sent = <<>> /\ listening = FALSE

\* The commits a batch is built at after one more request: what it pins, and
\* for the other repositories what the batch had before.
Joined(r) ==
  {c \in Commits : \/ Head(asked).snapshot[r] = c
                   \/ Head(asked).snapshot[r] = NoCommit /\ \E b \in batch : b.snapshot[r] = c}

\* A request asks for the batch that has just left, and no other waits.
Again == Head(asked).job # NoJob /\ Head(asked).job = last /\ batch = {}

Take ==
  /\ asked # <<>> /\ asked' = Tail(asked)
  /\ IF Again
     THEN UNCHANGED batch
     ELSE \E b \in [job : {Head(asked).job}, snapshot : Pins] :
            /\ \A r \in Repos : Joined(r) = {b.snapshot[r]} \ {NoCommit}
            /\ batch' = {b}
  /\ UNCHANGED <<last, sent, listening>>

\* With nobody listening the bus delivers a BuildNow to nobody.
Leave ==
  /\ \E b \in batch : last' = b.job /\ sent' = IF listening THEN Append(sent, b) ELSE sent
  /\ batch' = {}
  /\ UNCHANGED <<asked, listening>>

-----------------------------------------------------------------------------
(* The environment.                                                        *)

Ask(req) == asked' = Append(asked, req) /\ UNCHANGED <<batch, last, sent, listening>>

Listen == ~listening /\ listening' = TRUE /\ UNCHANGED <<asked, batch, last, sent>>

Build == sent # <<>> /\ sent' = Tail(sent) /\ UNCHANGED <<asked, batch, last, listening>>

Next ==
  \/ Take \/ Leave
  \/ \E req \in Requests : Ask(req)
  \/ Listen \/ Build

Spec == Init /\ [][Next]_vars
=============================================================================
