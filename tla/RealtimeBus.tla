---------------------------- MODULE RealtimeBus ----------------------------
(***************************************************************************)
(* The process-local publish/subscribe bus (realtime/bus.py): publishers   *)
(* on any thread, one event loop on which every consumer runs.  A          *)
(* publication numbers its event and takes the subscriber list under the   *)
(* bus lock, then offers the event to one subscription after another with  *)
(* no lock held between the offers.  Each subscription has a lock, a       *)
(* bounded queue and a wake-up that may be scheduled only once at a time.  *)
(* One topic: topics share nothing but the event counter.                  *)
(***************************************************************************)
EXTENDS Naturals, Sequences, SequencesExt

CONSTANTS
    Publishers,         \* threads that publish
    Subscriptions,      \* subscription objects, each used once
    Streams,            \* those read by the SSE endpoint, which reads with a timeout
    Capacity,           \* queue_capacity
    OverflowThreshold,  \* overflow_threshold
    MaxEvents           \* bound on the events published

Nobody == "nobody"   \* no subscription

ASSUME BusAssumption ==
    /\ Nobody \notin Subscriptions
    /\ Capacity \in Nat \ {0} /\ OverflowThreshold \in Nat \ {0}
    /\ MaxEvents \in Nat /\ Streams \subseteq Subscriptions

VARIABLES
    busClosed,   \* RealtimeBus._closed
    nextId,      \* RealtimeBus._next_event_id
    registered,  \* RealtimeBus._subscriptions, of this topic
    closing,     \* what RealtimeBus.close has still to close
    pub,         \* per publisher: event in hand, subscribers to offer it to, one it must unregister
    sub,         \* per subscription: the object's fields, and where its consumer is
    offered      \* history: the events each subscription accepted while open

busVars == <<busClosed, nextId, registered, closing, pub, sub, offered>>

NoEvent == 0
Idle == [event |-> NoEvent, todo |-> {}, evicting |-> Nobody]

(* RealtimeSubscription.__init__; "unborn" until the consumer subscribes. *)
NewSubscription ==
    [items |-> <<>>, closed |-> FALSE, wakeScheduled |-> FALSE, callback |-> FALSE, overflows |-> 0,
     wake |-> FALSE, consumer |-> "unborn"]

BusInit ==
    /\ busClosed = FALSE /\ nextId = 1 /\ registered = {} /\ closing = {}
    /\ pub = [p \in Publishers |-> Idle]
    /\ sub = [s \in Subscriptions |-> NewSubscription]
    /\ offered = [s \in Subscriptions |-> <<>>]

MaySubscribe == ~busClosed

Subscribe(s) ==
    /\ sub[s].consumer = "unborn" /\ MaySubscribe
    /\ sub' = [sub EXCEPT ![s].consumer = "ready"]
    /\ registered' = registered \cup {s}
    /\ UNCHANGED <<busClosed, nextId, closing, pub, offered>>

(* The locked part of publish: number the event, take the subscriber list. *)
Publish(p) ==
    /\ pub[p] = Idle /\ ~busClosed /\ nextId <= MaxEvents
    /\ nextId' = nextId + 1
    /\ pub' = [pub EXCEPT ![p] = [Idle EXCEPT !.event = nextId, !.todo = registered]]
    /\ UNCHANGED <<busClosed, registered, closing, sub, offered>>

\* Mutant: a full queue refuses the newest event instead
QueuedUnlessFull(items, e) == IF Len(items) = Capacity THEN items ELSE Append(items, e)

(* deque(maxlen=capacity).append: a full queue loses its oldest event. *)
Queued(items, e) == Append(IF Len(items) = Capacity THEN Tail(items) ELSE items, e)

Overflows(r) == IF Len(r.items) = Capacity THEN r.overflows + 1 ELSE 0
Evicted(r) == Overflows(r) >= OverflowThreshold

(* _schedule_wake_locked: at most one _notify is in the loop's queue. *)
Scheduled(r) == [r EXCEPT !.wakeScheduled = TRUE, !.callback = @ \/ ~r.wakeScheduled]

(* The locked part of close. *)
Closed(r) == Scheduled([r EXCEPT !.closed = TRUE, !.items = <<>>])

(* The locked part of offer to an open subscription. *)
Accepts(r, e) ==
    LET filled == [r EXCEPT !.items = Queued(@, e), !.overflows = Overflows(r)]
    IN  IF Evicted(r) THEN Closed(filled) ELSE Scheduled(filled)

(* Whom the caller of offer or close must unregister once it has let the   *)
(* subscription's lock go.                                                 *)
ToUnregister(s) == s

Offer(p, s) ==
    /\ s \in pub[p].todo /\ pub[p].evicting = Nobody
    /\ LET r == sub[s] IN
       \/ /\ r.closed
          /\ pub' = [pub EXCEPT ![p].todo = @ \ {s}]
          /\ UNCHANGED <<sub, offered>>
       \/ /\ ~r.closed
          /\ sub' = [sub EXCEPT ![s] = Accepts(r, pub[p].event)]
          /\ offered' = [offered EXCEPT ![s] = Append(@, pub[p].event)]
          /\ pub' = [pub EXCEPT ![p].todo = @ \ {s},
                                ![p].evicting = IF Evicted(r) THEN ToUnregister(s) ELSE Nobody]
    /\ UNCHANGED <<busClosed, nextId, registered, closing>>

(* _on_close, that is RealtimeBus._remove, called by the evicting publisher. *)
Unregister(p) ==
    /\ pub[p].evicting # Nobody
    /\ registered' = registered \ {pub[p].evicting}
    /\ pub' = [pub EXCEPT ![p].evicting = Nobody]
    /\ UNCHANGED <<busClosed, nextId, closing, sub, offered>>

PublishReturns(p) ==
    /\ pub[p].event # NoEvent /\ pub[p].todo = {} /\ pub[p].evicting = Nobody
    /\ pub' = [pub EXCEPT ![p] = Idle]
    /\ UNCHANGED <<busClosed, nextId, registered, closing, sub, offered>>

\* Mutant: the flag is not cleared, so no later offer schedules a wake-up
NotifiedOnce(r) == [r EXCEPT !.callback = FALSE, !.wake = TRUE]

(* _notify, a callback on the loop: it clears the flag and sets the event. *)
Notified(r) == [r EXCEPT !.callback = FALSE, !.wakeScheduled = FALSE, !.wake = TRUE]

Notify(s) ==
    /\ sub[s].callback
    /\ sub' = [sub EXCEPT ![s] = Notified(sub[s])]
    /\ UNCHANGED <<busClosed, nextId, registered, closing, pub, offered>>

(* One turn of receive's loop under the subscription's lock.  A stream     *)
(* whose subscription was closed returns.                                  *)
Receive(s) ==
    /\ sub[s].consumer = "ready"
    /\ sub' = [sub EXCEPT ![s] =
                  IF sub[s].items # <<>> THEN [@ EXCEPT !.items = Tail(sub[s].items)]
                  ELSE IF sub[s].closed  THEN [@ EXCEPT !.consumer = "gone"]
                  ELSE [@ EXCEPT !.wake = FALSE, !.consumer = "waiting"]]
    /\ UNCHANGED <<busClosed, nextId, registered, closing, pub, offered>>

Wake(s) ==
    /\ sub[s].consumer = "waiting" /\ sub[s].wake
    /\ sub' = [sub EXCEPT ![s].consumer = "ready"]
    /\ UNCHANGED <<busClosed, nextId, registered, closing, pub, offered>>

(* asyncio.wait_for gives up on receive: stream_rfp_events sends a         *)
(* keep-alive and calls receive again.                                     *)
KeepAlive(s) ==
    /\ s \in Streams /\ sub[s].consumer = "waiting" /\ ~sub[s].wake
    /\ sub' = [sub EXCEPT ![s].consumer = "ready"]
    /\ UNCHANGED <<busClosed, nextId, registered, closing, pub, offered>>

(* The connection ends or its access token expires: __aexit__ calls close, *)
(* and the consumer unregisters unless the subscription was closed before. *)
Leave(s) ==
    /\ sub[s].consumer \in {"ready", "waiting"}
    /\ sub' = [sub EXCEPT ![s] = [Closed(@) EXCEPT !.consumer = IF sub[s].closed THEN "gone" ELSE "leaving"]]
    /\ UNCHANGED <<busClosed, nextId, registered, closing, pub, offered>>

Left(s) ==
    /\ sub[s].consumer = "leaving"
    /\ sub' = [sub EXCEPT ![s].consumer = "gone"]
    /\ registered' = registered \ {s}
    /\ UNCHANGED <<busClosed, nextId, closing, pub, offered>>

(* The locked part of RealtimeBus.close. *)
CloseBus ==
    /\ ~busClosed
    /\ busClosed' = TRUE /\ closing' = registered /\ registered' = {}
    /\ UNCHANGED <<nextId, pub, sub, offered>>

CloseNext(s) ==
    /\ s \in closing
    /\ closing' = closing \ {s}
    /\ sub' = [sub EXCEPT ![s] = Closed(@)]
    /\ UNCHANGED <<busClosed, nextId, registered, pub, offered>>

BusStep(P, S) ==
    \/ \E p \in P : Publish(p) \/ Unregister(p) \/ PublishReturns(p)
    \/ \E p \in P, s \in S : Offer(p, s)
    \/ \E s \in S :
          Subscribe(s) \/ Notify(s) \/ Receive(s) \/ Wake(s) \/ KeepAlive(s) \/ Leave(s) \/ Left(s) \/ CloseNext(s)
    \/ CloseBus

BusNext == BusStep(Publishers, Subscriptions)

BusSpec == BusInit /\ [][BusNext]_busVars

-----------------------------------------------------------------------------
(* A consumer asleep with something to see -- an event, or the news that   *)
(* it was closed -- always has a wake-up on its way, whichever thread      *)
(* offered or closed and however the offers met the loop (_wake_scheduled, *)
(* _notify and the clear in receive).                                      *)
WakeIsComing ==
    \A s \in Subscriptions :
        /\ sub[s].consumer = "waiting" /\ (sub[s].items # <<>> \/ sub[s].closed)
        => sub[s].wake \/ sub[s].callback

(* A slow consumer loses its oldest events, never the newest: the queue of *)
(* an open subscription is the end of what it was offered (offer).         *)
KeepsTheNewest ==
    \A s \in Subscriptions : ~sub[s].closed => IsSuffix(sub[s].items, offered[s])

(* No closed subscription is left in the bus's table unless someone is    *)
(* about to take it out: evicted subscribers do not pile up (_on_close, *)
(* _remove).                                                               *)
NoDeadSubscribers ==
    \A s \in registered :
        sub[s].closed => sub[s].consumer = "leaving" \/ \E p \in Publishers : pub[p].evicting = s

(* Closing the bus reaches everyone: a subscription still open after it is *)
(* one the closing thread has yet to reach, also when a consumer connects  *)
(* or a publisher offers while the bus is being closed (close, subscribe). *)
CloseReachesAll ==
    busClosed => \A s \in Subscriptions :
        sub[s].consumer # "unborn" /\ ~sub[s].closed => s \in closing

(* offer, _remove, close: a subscription in the table is open with the newest *)
(* of its events, or someone is about to take it out; none outlives the bus.  *)
SubscribersAreServed == KeepsTheNewest /\ NoDeadSubscribers /\ CloseReachesAll
=============================================================================
