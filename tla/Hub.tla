---------------------------------- MODULE Hub ----------------------------------
(* The event hub (events.go): handlers publish, dashboards subscribe.  A     *)
(* subscriber is a channel with room for Buffer messages and the goroutine   *)
(* that copies it to its client.  The mutex is held while a message is       *)
(* handed to one channel after the other, in the order of a Go map: any.     *)
EXTENDS Integers, Sequences, FiniteSets, SequencesExt

CONSTANTS
    Handlers,       \* goroutines that serve a request; each publishes one event
    Subscribers,    \* goroutines that serve GET /api/brain/events
    Buffer,         \* messages a channel holds
    Free            \* the mutex of nobody

ASSUME HubAssumption == Buffer \in Nat \ {0} /\ Free \notin Handlers

VARIABLES
    mu,             \* who holds hub.mu: a publisher or Free
    subs,           \* the subscribers in hub.subs
    chan,           \* chan[s]: messages in the channel of s
    pub,            \* pub[h]: where handler h is in publish
    left,           \* left[h]: subscribers its loop has still to come to
    told,           \* told[s]: messages the client of s has got (history)
    order           \* the events in the order of their publication (history)

hubVars == <<mu, subs, chan, pub, left, told, order>>

HubInit ==
    /\ mu = Free /\ subs = {}
    /\ chan = [s \in Subscribers |-> <<>>]
    /\ pub = [h \in Handlers |-> "none"]
    /\ left = [h \in Handlers |-> {}]
    /\ told = [s \in Subscribers |-> <<>>]
    /\ order = <<>>

-----------------------------------------------------------------------------
(* publish                                                                  *)

\* Mutant: the lock is not waited for.
LockAnyway(h) ==
    /\ pub[h] = "lock"
    /\ mu' = h /\ left' = [left EXCEPT ![h] = subs]
    /\ order' = Append(order, h)
    /\ pub' = [pub EXCEPT ![h] = "send"]
    /\ UNCHANGED <<subs, chan, told>>

PublishLock(h) ==
    /\ pub[h] = "lock" /\ mu = Free
    /\ mu' = h /\ left' = [left EXCEPT ![h] = subs]
    /\ order' = Append(order, h)
    /\ pub' = [pub EXCEPT ![h] = "send"]
    /\ UNCHANGED <<subs, chan, told>>

\* Mutant: the send waits for room.
SendWaits(h) ==
    /\ pub[h] = "send"
    /\ \E s \in left[h] :
          /\ Len(chan[s]) < Buffer
          /\ chan' = [chan EXCEPT ![s] = Append(@, h)]
          /\ left' = [left EXCEPT ![h] = @ \ {s}]
    /\ UNCHANGED <<mu, subs, pub, told, order>>

\* A message goes into a channel that has room, and is dropped otherwise.
PublishSend(h) ==
    /\ pub[h] = "send"
    /\ \E s \in left[h] :
          /\ chan' = IF Len(chan[s]) < Buffer THEN [chan EXCEPT ![s] = Append(@, h)] ELSE chan
          /\ left' = [left EXCEPT ![h] = @ \ {s}]
    /\ UNCHANGED <<mu, subs, pub, told, order>>

\* Mutant: the lock is kept.
UnlockNothing(h) ==
    /\ pub[h] = "send" /\ left[h] = {}
    /\ pub' = [pub EXCEPT ![h] = "done"]
    /\ UNCHANGED <<mu, subs, chan, left, told, order>>

PublishUnlock(h) ==
    /\ pub[h] = "send" /\ left[h] = {}
    /\ mu' = Free
    /\ pub' = [pub EXCEPT ![h] = "done"]
    /\ UNCHANGED <<subs, chan, left, told, order>>

-----------------------------------------------------------------------------
(* Events                                                                   *)

\* A client connects, for the first time or again: a channel of its own.
Subscribe(s) ==
    /\ s \notin subs /\ mu = Free
    /\ subs' = subs \cup {s}
    /\ UNCHANGED <<mu, chan, pub, left, told, order>>

Receive(s) ==
    /\ s \in subs /\ chan[s] # <<>>
    /\ told' = [told EXCEPT ![s] = Append(@, Head(chan[s]))]
    /\ chan' = [chan EXCEPT ![s] = Tail(@)]
    /\ UNCHANGED <<mu, subs, pub, left, order>>

\* The client is gone; what is left in the channel is lost with it.
Unsubscribe(s) ==
    /\ s \in subs /\ mu = Free
    /\ subs' = subs \ {s}
    /\ chan' = [chan EXCEPT ![s] = <<>>] /\ told' = [told EXCEPT ![s] = <<>>]
    /\ UNCHANGED <<mu, pub, left, order>>

Publish(h) == PublishLock(h) \/ PublishSend(h) \/ PublishUnlock(h)

Dashboard(s) == Subscribe(s) \/ Receive(s) \/ Unsubscribe(s)

-----------------------------------------------------------------------------
(* Properties.                                                              *)

HubTypeOK ==
    /\ mu \in Handlers \cup {Free} /\ subs \subseteq Subscribers
    /\ pub \in [Handlers -> {"none", "lock", "send", "done"}]
    /\ left \in [Handlers -> SUBSET Subscribers]
    /\ chan \in [Subscribers -> Seq(Handlers)] /\ told \in [Subscribers -> Seq(Handlers)]
    /\ \A s \in Subscribers : Len(chan[s]) <= Buffer
    /\ order \in Seq(Handlers)
    /\ \A h \in Handlers : pub[h] = "send" <=> mu = h

\* The events of a connection: those its client has and those it will get.
Stream(s) == told[s] \o chan[s]

\* events.go:33-41: publishers that overlap, and channels that are full, may
\* cost a dashboard an event, but all dashboards see those they see in the one
\* order in which they were published, and none of them twice.
OneOrder ==
    \A s \in Subscribers : \A m, n \in DOMAIN Stream(s) :
        m < n => /\ Stream(s)[m] # Stream(s)[n]
                 /\ \E i, j \in DOMAIN order :
                       i < j /\ order[i] = Stream(s)[m] /\ order[j] = Stream(s)[n]
=============================================================================
