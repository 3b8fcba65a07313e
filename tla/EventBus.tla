------------------------------ MODULE EventBus ------------------------------
(***************************************************************************)
(* The typed in-process bus of internal/daemon/events/bus.go.  Publish holds *)
(* the read lock while it delivers, so that unsubscribe and Close, which     *)
(* close channels, cannot run into a send.  A blocked Publish gives up when  *)
(* its context ends (orchestration_publish.go: two seconds).                 *)
(*                                                                         *)
(* A critical section under the write lock does not block and is one step;   *)
(* a goroutine that has called Lock is in writers and, as with Go's RWMutex,  *)
(* keeps new readers out.                                                    *)
(***************************************************************************)
EXTENDS Naturals, Sequences, FiniteSets

CONSTANTS
  Publishers,  \* goroutines that call Publish, any number of times
  Subscribers, \* goroutines that call Subscribe once and consume the channel
  Closer,      \* the goroutine that calls Close
  Types,       \* event types
  Accepts,     \* Accepts[s]: the event types subscriber s's type parameter matches
  Buffer       \* capacity of a subscription channel

ASSUME BusAssumption ==
  /\ Accepts \in [Subscribers -> SUBSET Types]
  /\ Buffer \in Nat \ {0}
  /\ Closer \notin Subscribers

VARIABLES
  isClosed,
  subs,      \* registered subscribers (b.subs)
  chan,      \* chan[s]: "none", "open" or "closed"
  buf,       \* buf[s]: the events in s's channel
  readers,   \* publishers that hold the read lock
  writers,   \* goroutines waiting for the write lock
  sub,       \* sub[s]: where subscriber s is
  pub,       \* pub[p]: where publisher p is
  evt,       \* evt[p]: the type of the event p publishes
  todo,      \* todo[p]: subscribers p has still to deliver to
  closer,    \* where Close is
  toClose    \* the subscribers Close collected

bus   == <<isClosed, subs, chan, buf>>
locks == <<readers, writers>>
pubs  == <<pub, evt, todo>>
vars  == <<bus, locks, sub, pubs, closer, toClose>>

Init ==
  /\ isClosed = FALSE /\ subs = {} /\ readers = {} /\ writers = {}
  /\ chan = [s \in Subscribers |-> "none"]
  /\ buf = [s \in Subscribers |-> <<>>]
  /\ sub = [s \in Subscribers |-> "start"]
  /\ pub = [p \in Publishers |-> "idle"]
  /\ evt \in [Publishers -> Types]
  /\ todo = [p \in Publishers |-> {}]
  /\ closer = "open" /\ toClose = {}

-----------------------------------------------------------------------------
(* Subscribe, the consumer's receives, and unsubscribe.                    *)

\* The channel is made; with the bus closed it is closed and handed out with an
\* unsubscribe that does nothing, and the consumer's loop ends at once.
SubscribeCheck(s) ==
  /\ sub[s] = "start"
  /\ IF isClosed
     THEN /\ chan' = [chan EXCEPT ![s] = "closed"]
          /\ sub' = [sub EXCEPT ![s] = "gone"]
          /\ UNCHANGED writers
     ELSE /\ chan' = [chan EXCEPT ![s] = "open"]
          /\ sub' = [sub EXCEPT ![s] = "subscribing"]
          /\ writers' = writers \cup {s}
  /\ UNCHANGED <<isClosed, subs, buf, readers, pubs, closer, toClose>>

\* Mutated form of SubscribeRegister: no second look at isClosed.
SubscribeRegister_NoRecheck(s) ==
  /\ sub[s] = "subscribing" /\ readers = {}
  /\ writers' = writers \ {s}
  /\ sub' = [sub EXCEPT ![s] = "active"]
  /\ subs' = subs \cup {s}
  /\ UNCHANGED <<chan, isClosed, buf, readers, pubs, closer, toClose>>

\* Under the write lock: look again, register.
SubscribeRegister(s) ==
  /\ sub[s] = "subscribing" /\ readers = {}
  /\ writers' = writers \ {s}
  /\ IF isClosed
     THEN /\ chan' = [chan EXCEPT ![s] = "closed"]
          /\ sub' = [sub EXCEPT ![s] = "gone"]
          /\ UNCHANGED subs
     ELSE /\ subs' = subs \cup {s}
          /\ sub' = [sub EXCEPT ![s] = "active"]
          /\ UNCHANGED chan
  /\ UNCHANGED <<isClosed, buf, readers, pubs, closer, toClose>>

Consume(s) ==
  /\ sub[s] = "active" /\ buf[s] # <<>>
  /\ buf' = [buf EXCEPT ![s] = Tail(@)]
  /\ UNCHANGED <<isClosed, subs, chan, locks, sub, pubs, closer, toClose>>

\* The consumer's loop ends: its context is done, or its channel is closed
\* and drained; the deferred unsubscribe asks for the write lock.
ConsumerReturns(s) ==
  /\ sub[s] = "active"
  /\ sub' = [sub EXCEPT ![s] = "unsubscribing"]
  /\ writers' = writers \cup {s}
  /\ UNCHANGED <<bus, readers, pubs, closer, toClose>>

\* Mutated form of Unsubscribe: the channel is closed without waiting for readers.
Unsubscribe_NoLock(s) ==
  /\ sub[s] = "unsubscribing"
  /\ writers' = writers \ {s}
  /\ subs' = subs \ {s}
  /\ chan' = [chan EXCEPT ![s] = "closed"]
  /\ sub' = [sub EXCEPT ![s] = "gone"]
  /\ UNCHANGED <<isClosed, buf, readers, pubs, closer, toClose>>

Unsubscribe(s) ==
  /\ sub[s] = "unsubscribing" /\ readers = {}
  /\ writers' = writers \ {s}
  /\ subs' = subs \ {s}
  /\ chan' = [chan EXCEPT ![s] = "closed"]
  /\ sub' = [sub EXCEPT ![s] = "gone"]
  /\ UNCHANGED <<isClosed, buf, readers, pubs, closer, toClose>>

-----------------------------------------------------------------------------
(* Publish.                                                                *)

\* The check of isClosed, made before the read lock is taken.
PublishCheck(p, type) ==
  /\ pub[p] = "idle" /\ ~isClosed
  /\ pub' = [pub EXCEPT ![p] = "locking"]
  /\ evt' = [evt EXCEPT ![p] = type]
  /\ UNCHANGED <<bus, locks, sub, todo, closer, toClose>>

PublishLock(p) ==
  /\ pub[p] = "locking" /\ writers = {}
  /\ readers' = readers \cup {p}
  /\ pub' = [pub EXCEPT ![p] = "sending"]
  /\ todo' = [todo EXCEPT ![p] = {s \in subs : evt[p] \in Accepts[s]}]
  /\ UNCHANGED <<bus, writers, sub, evt, closer, toClose>>

\* Delivery to one subscriber, in the map's arbitrary order.
Send(p, s) ==
  /\ pub[p] = "sending" /\ s \in todo[p]
  /\ Len(buf[s]) < Buffer
  /\ buf' = [buf EXCEPT ![s] = Append(@, evt[p])]
  /\ todo' = [todo EXCEPT ![p] = @ \ {s}]
  /\ UNCHANGED <<isClosed, subs, chan, locks, sub, pub, evt, closer, toClose>>

\* Everything delivered: the deferred RUnlock.
PublishReturns(p) ==
  /\ pub[p] = "sending" /\ todo[p] = {}
  /\ readers' = readers \ {p}
  /\ pub' = [pub EXCEPT ![p] = "idle"]
  /\ UNCHANGED <<bus, writers, sub, evt, todo, closer, toClose>>

\* Mutated form of PublishCanceled: an error path that keeps the read lock.
PublishCanceled_KeepsLock(p) ==
  /\ pub[p] = "sending" /\ todo[p] # {}
  /\ pub' = [pub EXCEPT ![p] = "idle"]
  /\ todo' = [todo EXCEPT ![p] = {}]
  /\ UNCHANGED <<bus, locks, sub, evt, closer, toClose>>

\* The context ended during a send; the remaining subscribers get nothing.
PublishCanceled(p) ==
  /\ pub[p] = "sending" /\ todo[p] # {}
  /\ readers' = readers \ {p}
  /\ pub' = [pub EXCEPT ![p] = "idle"]
  /\ todo' = [todo EXCEPT ![p] = {}]
  /\ UNCHANGED <<bus, writers, sub, evt, closer, toClose>>

-----------------------------------------------------------------------------
(* Close.                                                                  *)

CloseStart ==
  /\ closer = "open"
  /\ isClosed' = TRUE /\ closer' = "locking" /\ writers' = writers \cup {Closer}
  /\ UNCHANGED <<subs, chan, buf, readers, sub, pubs, toClose>>

CloseCollect ==
  /\ closer = "locking" /\ readers = {}
  /\ writers' = writers \ {Closer}
  /\ toClose' = subs /\ subs' = {} /\ closer' = "closing"
  /\ UNCHANGED <<isClosed, chan, buf, readers, sub, pubs>>

\* The channels are closed after the lock has been released.
CloseChannel(s) ==
  /\ closer = "closing" /\ s \in toClose
  /\ chan' = [chan EXCEPT ![s] = "closed"]
  /\ toClose' = toClose \ {s}
  /\ UNCHANGED <<isClosed, subs, buf, locks, sub, pubs, closer>>

CloseReturns ==
  /\ closer = "closing" /\ toClose = {}
  /\ closer' = "closed"
  /\ UNCHANGED <<bus, locks, sub, pubs, toClose>>

-----------------------------------------------------------------------------
SubscriberStep(s) ==
  SubscribeCheck(s) \/ SubscribeRegister(s) \/ Consume(s) \/ ConsumerReturns(s) \/ Unsubscribe(s)

CloseStep == CloseCollect \/ CloseReturns \/ \E s \in Subscribers : CloseChannel(s)

Next ==
  \/ \E s \in Subscribers : SubscriberStep(s)
  \/ \E p \in Publishers :
       \/ \E type \in Types : PublishCheck(p, type)
       \/ PublishLock(p) \/ PublishReturns(p) \/ PublishCanceled(p)
       \/ \E s \in Subscribers : Send(p, s)
  \/ CloseStart \/ CloseStep

Spec == Init /\ [][Next]_vars

\* A publication that has begun goes on (its context ends it when blocked), a
\* goroutine waiting for the write lock gets it when it is free, Close runs to
\* its end.  Nobody has to publish, consume, unsubscribe or close.
Fairness ==
  /\ \A p \in Publishers :
       /\ WF_vars(PublishReturns(p) \/ PublishCanceled(p))
       /\ WF_vars(PublishLock(p))
  /\ \A s \in Subscribers : WF_vars(SubscribeRegister(s) \/ Unsubscribe(s))
  /\ WF_vars(CloseStep)

FairSpec == Spec /\ Fairness

-----------------------------------------------------------------------------
(* Properties.                                                             *)

\* The bus's maps, channels and locks and the goroutines' positions stay in
\* their ranges, and no channel holds more than its capacity.
TypeOK ==
  /\ isClosed \in BOOLEAN /\ subs \subseteq Subscribers /\ toClose \subseteq Subscribers
  /\ chan \in [Subscribers -> {"none", "open", "closed"}]
  /\ buf \in [Subscribers -> Seq(Types)]
  /\ \A s \in Subscribers : Len(buf[s]) <= Buffer
  /\ readers \subseteq Publishers /\ writers \subseteq Subscribers \cup {Closer}
  /\ sub \in [Subscribers -> {"start", "subscribing", "active", "unsubscribing", "gone"}]
  /\ pub \in [Publishers -> {"idle", "locking", "sending"}]
  /\ evt \in [Publishers -> Types]
  /\ todo \in [Publishers -> SUBSET Subscribers]
  /\ closer \in {"open", "locking", "closing", "closed"}

\* No publisher is about to send on a closed channel, which would panic:
\* "unsubscribe/Close ... cannot race with channel sends" (bus.go, Publish).
NoSendOnClosed ==
  \A p \in Publishers : \A s \in todo[p] : chan[s] = "open"

\* Once Close has returned every subscription ever handed out is closed, also
\* one whose Subscribe ran concurrently: its consumer's loop will end.
CloseClosesAll ==
  closer = "closed" =>
    \A s \in Subscribers : sub[s] \notin {"start", "subscribing"} => chan[s] = "closed"

\* A publication ends, a subscriber that unsubscribes gets out and Close
\* returns: a full channel whose consumer waits for the write lock does not
\* lock up the bus.
NobodyStuck ==
  /\ \A p \in Publishers : pub[p] # "idle" ~> pub[p] = "idle"
  /\ \A s \in Subscribers : sub[s] = "unsubscribing" ~> sub[s] = "gone"
  /\ closer = "locking" ~> closer = "closed"
=============================================================================
