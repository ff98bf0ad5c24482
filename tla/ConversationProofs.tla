------------------------- MODULE ConversationProofs -------------------------
(***************************************************************************)
(* Proofs about the bus and a chat session, for every set of publishers,   *)
(* subscriptions, sockets and turns, every queue capacity and eviction     *)
(* threshold.                                                              *)
(***************************************************************************)
EXTENDS MCConversation, Integers, FiniteSetTheorems, TLAPS

-----------------------------------------------------------------------------
(* The bus.  A wake-up is scheduled exactly while its callback waits in    *)
(* the loop's queue; whoever is to be taken out of the table is closed;    *)
(* and the table is the set of open subscriptions until the bus closes.    *)

SubRow == [items: Seq(Nat), closed: BOOLEAN, wakeScheduled: BOOLEAN, callback: BOOLEAN,
           overflows: Nat, wake: BOOLEAN,
           consumer: {"unborn", "ready", "waiting", "leaving", "gone"}]

\* s is the end of t.
EndOf(s, t) == Len(s) <= Len(t) /\ \A i \in 1..Len(s) : s[i] = t[Len(t) - Len(s) + i]

\* What one subscription's fields satisfy, given what it was offered.
SubOk(r, sent) ==
  /\ r \in SubRow /\ sent \in Seq(Nat)
  /\ r.wakeScheduled <=> r.callback
  /\ r.consumer = "waiting" /\ (r.items # <<>> \/ r.closed) => r.wake \/ r.callback
  /\ r.consumer = "leaving" => r.closed
  /\ ~r.closed => EndOf(r.items, sent)

BusTypes ==
  /\ busClosed \in BOOLEAN /\ nextId \in Nat /\ registered \subseteq Subscriptions
  /\ closing \subseteq Subscriptions
  /\ pub \in [Publishers -> [event: Nat, todo: SUBSET Subscriptions,
                             evicting: Subscriptions \cup {Nobody}]]
  /\ sub \in [Subscriptions -> SubRow] /\ offered \in [Subscriptions -> Seq(Nat)]

Tabled ==
  /\ IF busClosed THEN registered = {} ELSE closing = {}
  /\ \A s \in Subscriptions :
       sub[s].consumer # "unborn" /\ ~sub[s].closed => s \in registered \cup closing
  /\ \A p \in Publishers : pub[p].evicting # Nobody => sub[pub[p].evicting].closed

\* Nobody knows of a subscription before it is made.
Unborn ==
  \A s \in Subscriptions : sub[s].consumer = "unborn" =>
    ~sub[s].closed /\ s \notin registered \cup closing /\ \A p \in Publishers : s \notin pub[p].todo

BusInv ==
  /\ BusTypes /\ \A s \in Subscriptions : SubOk(sub[s], offered[s])
  /\ Tabled /\ Unborn /\ NoDeadSubscribers

\* The library's IsSuffix, position by position.
LEMMA SuffixIsEnd ==
  ASSUME NEW s \in Seq(Nat), NEW t \in Seq(Nat), EndOf(s, t)
  PROVE  IsSuffix(s, t)
  <1>. DEFINE m == Len(s)
              n == Len(t)
              a == Reverse(s)
              b == Reverse(t)
  <1>1. m \in Nat /\ n \in Nat /\ m <= n /\ \A i \in 1..m : s[i] = t[n - m + i]
    BY DEF EndOf
  <1>2. /\ a \in Seq(Nat) /\ Len(a) = m /\ \A i \in 1..m : a[i] = s[m - i + 1]
        /\ b \in Seq(Nat) /\ Len(b) = n /\ \A i \in 1..n : b[i] = t[n - i + 1]
    BY DEF Reverse
  <1>. HIDE DEF a, b, m, n
  <1>3. ASSUME NEW i \in 1..m
        PROVE  a[i] = b[i]
    <2>1. m - i + 1 \in 1..m /\ n - m + (m - i + 1) = n - i + 1 /\ i \in 1..n
      BY <1>1
    <2>2. s[m - i + 1] = t[n - m + (m - i + 1)]
      BY <1>1, <2>1
    <2>3. a[i] = s[m - i + 1] /\ b[i] = t[n - i + 1]
      BY <1>2, <2>1
    <2>. QED  BY <2>1, <2>2, <2>3
  <1>4. SubSeq(a, 1, m) = SubSeq(b, 1, m)
    BY <1>1, <1>2, <1>3
  <1>5. IsPrefix(a, b)
    BY <1>1, <1>2, <1>4 DEF IsPrefix
  <1>. QED  BY <1>5 DEF IsSuffix, a, b

\* An end stays one when its oldest event goes and when both get the same event.
LEMMA EndsGrow ==
  ASSUME NEW s \in Seq(Nat), NEW t \in Seq(Nat), NEW e \in Nat, EndOf(s, t)
  PROVE  /\ s # <<>> => Tail(s) \in Seq(Nat) /\ EndOf(Tail(s), t)
         /\ Append(s, e) \in Seq(Nat) /\ Append(t, e) \in Seq(Nat)
         /\ EndOf(Append(s, e), Append(t, e))
  <1>. USE DEF EndOf
  <1>1. ASSUME s # <<>>
        PROVE  Tail(s) \in Seq(Nat) /\ EndOf(Tail(s), t)
    BY <1>1
  <1>2. Append(s, e) \in Seq(Nat) /\ Append(t, e) \in Seq(Nat)
    OBVIOUS
  <1>3. EndOf(Append(s, e), Append(t, e))
    <2>. DEFINE a == Append(s, e)
                b == Append(t, e)
    <2>1. /\ Len(a) = Len(s) + 1 /\ \A i \in 1..Len(s) : a[i] = s[i]
          /\ a[Len(s) + 1] = e /\ Len(s) \in Nat
          /\ Len(b) = Len(t) + 1 /\ \A i \in 1..Len(t) : b[i] = t[i]
          /\ b[Len(t) + 1] = e /\ Len(t) \in Nat
      OBVIOUS
    <2>. HIDE DEF a, b
    <2>2. ASSUME NEW i \in 1..Len(a)
          PROVE  a[i] = b[Len(b) - Len(a) + i]
      <3>1. CASE i = Len(s) + 1
        BY <2>1, <3>1
      <3>2. CASE i \in 1..Len(s)
        <4>1. Len(b) - Len(a) + i = Len(t) - Len(s) + i /\ Len(t) - Len(s) + i \in 1..Len(t)
          BY <2>1, <3>2
        <4>. QED  BY <2>1, <3>2, <4>1
      <3>. QED  BY <2>1, <3>1, <3>2
    <2>3. EndOf(a, b)
      BY <2>1, <2>2
    <2>. QED  BY <2>3 DEF a, b
  <1>. QED  BY <1>1, <1>2, <1>3

\* Closing empties the queue and schedules a wake-up.
LEMMA ClosedOk ==
  ASSUME NEW r \in SubRow, NEW sent \in Seq(Nat), r.wakeScheduled <=> r.callback
  PROVE  SubOk(Closed(r), sent) /\ Closed(r).closed /\ Closed(r).consumer = r.consumer
  <1>. DEFINE x == [r EXCEPT !.closed = TRUE, !.items = <<>>]
              y == Scheduled(x)
  <1>1. /\ x \in SubRow /\ x.closed = TRUE /\ x.items = <<>> /\ x.consumer = r.consumer
        /\ x.wakeScheduled = r.wakeScheduled /\ x.callback = r.callback
    <2>1. <<>> \in Seq(Nat)
      OBVIOUS
    <2>2. PICK none : none = <<>>
      OBVIOUS
    <2>3. x = [r EXCEPT !.closed = TRUE, !.items = none]
      BY <2>2
    <2>. HIDE DEF x
    <2>. QED  BY <2>1, <2>2, <2>3 DEF SubRow
  <1>2. Closed(r) = y
    BY DEF Closed
  <1>. HIDE DEF x
  <1>3. /\ y \in SubRow /\ y.closed = x.closed /\ y.items = x.items /\ y.wakeScheduled = TRUE
        /\ y.callback = (x.callback \/ ~x.wakeScheduled) /\ y.consumer = x.consumer
    BY <1>1 DEF Scheduled, SubRow
  <1>. HIDE DEF y
  <1>. QED  BY <1>1, <1>2, <1>3 DEF SubOk

\* An accepted event is queued as the newest, or closes the subscription.
LEMMA AcceptsOk ==
  ASSUME NEW r, NEW sent, SubOk(r, sent), ~r.closed, NEW e \in Nat
  PROVE  /\ SubOk(Accepts(r, e), Append(sent, e)) /\ Accepts(r, e).consumer = r.consumer
         /\ Accepts(r, e).closed <=> Evicted(r)
  <1>. DEFINE items == IF Len(r.items) = Capacity THEN Tail(r.items) ELSE r.items
              filled == [r EXCEPT !.items = Queued(@, e), !.overflows = Overflows(r)]
  <1>1. r \in SubRow /\ r.items \in Seq(Nat) /\ sent \in Seq(Nat) /\ EndOf(r.items, sent)
    BY DEF SubOk, SubRow
  <1>2. items \in Seq(Nat) /\ EndOf(items, sent)
    <2>1. Len(r.items) = Capacity => r.items # <<>>
      BY <1>1, BusAssumption
    <2>. QED  BY <1>1, <2>1, EndsGrow
  <1>3. Queued(r.items, e) = Append(items, e)
    BY DEF Queued
  <1>. HIDE DEF items
  <1>4. /\ Queued(r.items, e) \in Seq(Nat) /\ Append(sent, e) \in Seq(Nat)
        /\ EndOf(Queued(r.items, e), Append(sent, e))
    BY <1>1, <1>2, <1>3, EndsGrow
  <1>5. Overflows(r) \in Nat
    BY <1>1 DEF Overflows, SubRow
  <1>6. /\ filled \in SubRow /\ filled.items = Queued(r.items, e) /\ filled.closed = r.closed
        /\ filled.wakeScheduled = r.wakeScheduled /\ filled.callback = r.callback
        /\ filled.consumer = r.consumer
    BY <1>1, <1>4, <1>5 DEF SubRow
  <1>7. filled.wakeScheduled <=> filled.callback
    BY <1>6 DEF SubOk
  <1>. HIDE DEF filled
  <1>8. CASE Evicted(r)
    BY <1>4, <1>6, <1>7, <1>8, ClosedOk DEF Accepts, filled
  <1>9. CASE ~Evicted(r)
    <2>. DEFINE y == Scheduled(filled)
    <2>1. /\ y \in SubRow /\ y.closed = filled.closed /\ y.items = filled.items
          /\ y.wakeScheduled = TRUE /\ y.callback = (filled.callback \/ ~filled.wakeScheduled)
          /\ y.consumer = filled.consumer
      BY <1>6 DEF Scheduled, SubRow
    <2>2. Accepts(r, e) = y
      BY <1>9 DEF Accepts, filled
    <2>. HIDE DEF y
    <2>3. SubOk(y, Append(sent, e))
      BY <1>4, <1>6, <1>7, <2>1 DEF SubOk
    <2>. QED  BY <1>6, <1>9, <2>1, <2>2, <2>3
  <1>. QED  BY <1>8, <1>9

\* A step that rewrites one subscription's fields.
LEMMA OneSub ==
  ASSUME BusInv, NEW s \in Subscriptions, NEW y, sub' = [sub EXCEPT ![s] = y],
         SubOk(y, offered'[s]), sub[s].closed => y.closed,
         offered' \in [Subscriptions -> Seq(Nat)],
         \A u \in Subscriptions \ {s} : offered'[u] = offered[u]
  PROVE  /\ sub' \in [Subscriptions -> SubRow] /\ sub'[s] = y
         /\ \A u \in Subscriptions \ {s} : sub'[u] = sub[u]
         /\ \A u \in Subscriptions : SubOk(sub[u], offered[u])' /\ (sub[u].closed => sub'[u].closed)
  <1>1. /\ sub' \in [Subscriptions -> SubRow] /\ sub'[s] = y
        /\ \A u \in Subscriptions \ {s} : sub'[u] = sub[u]
    BY DEF BusInv, BusTypes, SubOk
  <1>. QED  BY <1>1 DEF BusInv

\* A step of one consumer.
LEMMA ConsumerKeeps ==
  ASSUME BusInv, NEW s \in Subscriptions, NEW y, sub' = [sub EXCEPT ![s] = y],
         SubOk(y, offered[s]), sub[s].closed => y.closed,
         UNCHANGED <<busClosed, nextId, closing, pub, offered>>,
         registered' \in {registered, registered \ {s}, registered \cup {s}},
         busClosed => registered' = {},
         y.consumer = "unborn" =>
           sub[s].consumer = "unborn" /\ y.closed = sub[s].closed /\ registered' = registered,
         y.consumer # "unborn" /\ ~y.closed => s \in registered' \cup closing,
         s \in registered' /\ y.closed =>
           \/ y.consumer = "leaving"
           \/ s \in registered /\ sub[s].closed /\ sub[s].consumer # "leaving"
  PROVE  BusInv'
  <1>1. offered' \in [Subscriptions -> Seq(Nat)] /\ SubOk(y, offered'[s])
    BY DEF BusInv, BusTypes
  <1>2. /\ sub' \in [Subscriptions -> SubRow] /\ sub'[s] = y
        /\ \A u \in Subscriptions \ {s} : sub'[u] = sub[u]
        /\ \A u \in Subscriptions : SubOk(sub[u], offered[u])' /\ (sub[u].closed => sub'[u].closed)
    BY <1>1, OneSub
  <1>3. BusTypes'
    BY <1>1, <1>2 DEF BusInv, BusTypes
  <1>4. Tabled'
    <2>1. \A p \in Publishers : pub[p].evicting \in Subscriptions \cup {Nobody}
      BY DEF BusInv, BusTypes
    <2>. QED  BY <1>2, <2>1 DEF BusInv, Tabled
  <1>5. NoDeadSubscribers'
    BY <1>2 DEF BusInv, BusTypes, NoDeadSubscribers
  <1>6. Unborn'
    BY <1>2 DEF BusInv, Unborn
  <1>. QED  BY <1>2, <1>3, <1>4, <1>5, <1>6 DEF BusInv

\* Subscribing, the callback on the loop, a turn of receive, waking up, a
\* keep-alive and a consumer that leaves.
LEMMA ConsumerStep ==
  ASSUME BusInv, NEW s \in Subscriptions,
         \/ Subscribe(s) \/ Notify(s) \/ Receive(s) \/ Wake(s) \/ KeepAlive(s) \/ Leave(s) \/ Left(s)
  PROVE  BusInv'
  <1>. DEFINE r == sub[s]
  <1>0. /\ SubOk(r, offered[s]) /\ r \in SubRow /\ sub \in [Subscriptions -> SubRow]
        /\ offered[s] \in Seq(Nat)
        /\ busClosed => registered = {} /\ registered \ {s} = {}
        /\ r.consumer # "unborn" /\ ~r.closed => s \in registered \cup closing
        /\ s \in registered /\ r.closed => \/ r.consumer = "leaving"
                                           \/ \E p \in Publishers : pub[p].evicting = s
    BY DEF BusInv, BusTypes, Tabled, NoDeadSubscribers
  <1>1. CASE Subscribe(s)
    <2>. DEFINE y == [r EXCEPT !.consumer = "ready"]
    <2>1. sub' = [sub EXCEPT ![s] = y] /\ registered' = registered \cup {s} /\ ~busClosed
          /\ UNCHANGED <<busClosed, nextId, closing, pub, offered>> /\ r.consumer = "unborn"
      BY <1>0, <1>1 DEF Subscribe, MaySubscribe
    <2>2. /\ y \in SubRow /\ y.items = r.items /\ y.closed = r.closed /\ y.wake = r.wake
          /\ y.wakeScheduled = r.wakeScheduled /\ y.callback = r.callback /\ y.consumer = "ready"
      BY <1>0 DEF SubRow
    <2>. HIDE DEF y
    <2>3. SubOk(y, offered[s])
      BY <1>0, <2>2 DEF SubOk
    <2>4. ~y.closed
      BY <2>1, <2>2 DEF BusInv, Unborn
    <2>. QED  BY <1>0, <2>1, <2>2, <2>3, <2>4, ConsumerKeeps
  <1>2. CASE Notify(s)
    <2>. DEFINE y == Notified(r)
    <2>1. /\ sub' = [sub EXCEPT ![s] = y]
          /\ UNCHANGED <<busClosed, nextId, registered, closing, pub, offered>>
      BY <1>2 DEF Notify
    <2>2. /\ y \in SubRow /\ y.items = r.items /\ y.closed = r.closed /\ y.wake = TRUE
          /\ y.wakeScheduled = FALSE /\ y.callback = FALSE /\ y.consumer = r.consumer
      BY <1>0 DEF SubRow, Notified
    <2>. HIDE DEF y
    <2>3. SubOk(y, offered[s])
      BY <1>0, <2>2 DEF SubOk
    <2>. QED  BY <1>0, <2>1, <2>2, <2>3, ConsumerKeeps
  <1>3. CASE Receive(s)
    <2>0. /\ r.consumer = "ready" /\ r.items \in Seq(Nat)
          /\ UNCHANGED <<busClosed, nextId, registered, closing, pub, offered>>
      BY <1>0, <1>3 DEF Receive, SubRow
    <2>1. CASE r.items # <<>>
      <3>. DEFINE rest == Tail(r.items)
                  y == [r EXCEPT !.items = rest]
      <3>1. sub' = [sub EXCEPT ![s] = y]
        BY <1>0, <1>3, <2>1 DEF Receive
      <3>2. rest \in Seq(Nat) /\ (~r.closed => EndOf(rest, offered[s]))
        <4>1. ~r.closed => EndOf(r.items, offered[s])
          BY <1>0 DEF SubOk
        <4>2. 0 \in Nat
          OBVIOUS
        <4>. QED  BY <1>0, <2>0, <2>1, <4>1, <4>2, EndsGrow
      <3>. HIDE DEF rest
      <3>3. /\ y \in SubRow /\ y.items = rest /\ y.closed = r.closed /\ y.consumer = "ready"
            /\ y.wakeScheduled = r.wakeScheduled /\ y.callback = r.callback
        BY <1>0, <2>0, <3>2 DEF SubRow
      <3>. HIDE DEF y
      <3>4. SubOk(y, offered[s])
        BY <1>0, <3>2, <3>3 DEF SubOk
      <3>. QED  BY <1>0, <2>0, <3>1, <3>3, <3>4, ConsumerKeeps
    <2>2. CASE r.items = <<>> /\ r.closed
      <3>. DEFINE y == [r EXCEPT !.consumer = "gone"]
      <3>1. sub' = [sub EXCEPT ![s] = y]
        BY <1>0, <1>3, <2>2 DEF Receive
      <3>2. /\ y \in SubRow /\ y.closed = r.closed /\ y.consumer = "gone"
            /\ y.wakeScheduled = r.wakeScheduled /\ y.callback = r.callback
        BY <1>0 DEF SubRow
      <3>. HIDE DEF y
      <3>3. SubOk(y, offered[s])
        BY <1>0, <2>2, <3>2 DEF SubOk
      <3>. QED  BY <1>0, <2>0, <2>2, <3>1, <3>2, <3>3, ConsumerKeeps
    <2>3. CASE r.items = <<>> /\ ~r.closed
      <3>. DEFINE y == [r EXCEPT !.wake = FALSE, !.consumer = "waiting"]
      <3>1. sub' = [sub EXCEPT ![s] = y]
        BY <1>0, <1>3, <2>3 DEF Receive
      <3>2. /\ y \in SubRow /\ y.closed = r.closed /\ y.consumer = "waiting" /\ y.items = r.items
            /\ y.wakeScheduled = r.wakeScheduled /\ y.callback = r.callback
        BY <1>0 DEF SubRow
      <3>. HIDE DEF y
      <3>3. SubOk(y, offered[s])
        BY <1>0, <2>3, <3>2 DEF SubOk
      <3>. QED  BY <1>0, <2>0, <2>3, <3>1, <3>2, <3>3, ConsumerKeeps
    <2>. QED  BY <2>1, <2>2, <2>3
  <1>4. CASE Wake(s) \/ KeepAlive(s)
    <2>. DEFINE y == [r EXCEPT !.consumer = "ready"]
    <2>1. /\ sub' = [sub EXCEPT ![s] = y] /\ r.consumer = "waiting"
          /\ UNCHANGED <<busClosed, nextId, registered, closing, pub, offered>>
      BY <1>0, <1>4 DEF Wake, KeepAlive
    <2>2. /\ y \in SubRow /\ y.items = r.items /\ y.closed = r.closed /\ y.wake = r.wake
          /\ y.wakeScheduled = r.wakeScheduled /\ y.callback = r.callback /\ y.consumer = "ready"
      BY <1>0 DEF SubRow
    <2>. HIDE DEF y
    <2>3. SubOk(y, offered[s])
      BY <1>0, <2>2 DEF SubOk
    <2>. QED  BY <1>0, <2>1, <2>2, <2>3, ConsumerKeeps
  <1>5. CASE Leave(s)
    <2>. DEFINE x == Closed(r)
                to == IF r.closed THEN "gone" ELSE "leaving"
                y == [x EXCEPT !.consumer = to]
    <2>1. /\ sub' = [sub EXCEPT ![s] = y] /\ r.consumer \in {"ready", "waiting"}
          /\ UNCHANGED <<busClosed, nextId, registered, closing, pub, offered>>
      BY <1>0, <1>5 DEF Leave
    <2>2. SubOk(x, offered[s]) /\ x.closed
      BY <1>0, ClosedOk DEF SubOk
    <2>. HIDE DEF x
    <2>3. /\ y \in SubRow /\ y.closed = x.closed /\ y.consumer = to
          /\ y.wakeScheduled = x.wakeScheduled /\ y.callback = x.callback
      BY <2>2 DEF SubOk, SubRow
    <2>. HIDE DEF y
    <2>4. SubOk(y, offered[s])
      BY <2>2, <2>3 DEF SubOk
    <2>. QED  BY <1>0, <2>1, <2>2, <2>3, <2>4, ConsumerKeeps
  <1>6. CASE Left(s)
    <2>. DEFINE y == [r EXCEPT !.consumer = "gone"]
    <2>1. sub' = [sub EXCEPT ![s] = y] /\ r.consumer = "leaving" /\ registered' = registered \ {s}
          /\ UNCHANGED <<busClosed, nextId, closing, pub, offered>>
      BY <1>0, <1>6 DEF Left
    <2>2. /\ y \in SubRow /\ y.closed = r.closed /\ y.consumer = "gone" /\ r.closed
          /\ y.wakeScheduled = r.wakeScheduled /\ y.callback = r.callback
      BY <1>0, <2>1 DEF SubRow, SubOk
    <2>. HIDE DEF y
    <2>3. SubOk(y, offered[s])
      BY <1>0, <2>2 DEF SubOk
    <2>. QED  BY <1>0, <2>1, <2>2, <2>3, ConsumerKeeps
  <1>. QED  BY <1>1, <1>2, <1>3, <1>4, <1>5, <1>6

\* A publisher's own step: no subscription changes, and the table only loses
\* whom this publisher evicted.
LEMMA PublisherStep ==
  ASSUME BusInv, NEW p \in Publishers, Publish(p) \/ Unregister(p) \/ PublishReturns(p)
  PROVE  BusInv'
  <1>. DEFINE x == pub[p]
              PubRow == [event: Nat, todo: SUBSET Subscriptions,
                         evicting: Subscriptions \cup {Nobody}]
  <1>0. /\ pub \in [Publishers -> PubRow] /\ x \in PubRow /\ UNCHANGED <<busClosed, closing, sub, offered>>
        /\ Tabled /\ Unborn /\ NoDeadSubscribers /\ BusTypes
        /\ \A s \in Subscriptions : SubOk(sub[s], offered[s])
    BY DEF BusInv, BusTypes, Publish, Unregister, PublishReturns
  <1>1. PICK y \in PubRow :
          /\ pub' = [pub EXCEPT ![p] = y] /\ y.evicting = Nobody
          /\ y.todo \subseteq registered \cup x.todo
          /\ registered' = IF x.evicting = Nobody THEN registered ELSE registered \ {x.evicting}
    <2>1. CASE Publish(p)
      <3>. DEFINE y == [Idle EXCEPT !.event = nextId, !.todo = registered]
      <3>1. y \in PubRow /\ y.evicting = Nobody /\ y.todo = registered
        BY <1>0 DEF BusTypes, Idle
      <3>2. pub' = [pub EXCEPT ![p] = y] /\ registered' = registered /\ x.evicting = Nobody
        BY <2>1 DEF Publish, Idle
      <3>. QED  BY <3>1, <3>2
    <2>2. CASE Unregister(p)
      <3>. DEFINE y == [x EXCEPT !.evicting = Nobody]
      <3>1. y \in PubRow /\ y.evicting = Nobody /\ y.todo = x.todo
        BY <1>0
      <3>2. pub' = [pub EXCEPT ![p] = y] /\ registered' = registered \ {x.evicting} /\ x.evicting # Nobody
        BY <1>0, <2>2 DEF Unregister
      <3>. QED  BY <3>1, <3>2
    <2>3. CASE PublishReturns(p)
      <3>1. Idle \in PubRow /\ Idle.evicting = Nobody /\ Idle.todo = {}
        BY DEF Idle, NoEvent
      <3>2. pub' = [pub EXCEPT ![p] = Idle] /\ registered' = registered /\ x.evicting = Nobody
        BY <2>3 DEF PublishReturns
      <3>. QED  BY <3>1, <3>2
    <2>. QED  BY <2>1, <2>2, <2>3
  <1>2. nextId' \in Nat
    BY <1>0 DEF BusTypes, Publish, Unregister, PublishReturns
  <1>3. /\ pub' \in [Publishers -> PubRow] /\ pub'[p] = y
        /\ \A q \in Publishers \ {p} : pub'[q] = pub[q]
    BY <1>0, <1>1
  <1>4. BusTypes'
    BY <1>0, <1>1, <1>2, <1>3 DEF BusTypes
  <1>5. /\ registered' \subseteq registered
        /\ \A s \in registered : s \in registered' \/ sub[s].closed
    BY <1>0, <1>1 DEF Tabled
  <1>6. Tabled'
    BY <1>0, <1>1, <1>3, <1>5 DEF Tabled
  <1>7. Unborn'
    BY <1>0, <1>1, <1>3, <1>5 DEF Unborn
  <1>8. ASSUME NEW s \in registered', sub'[s].closed
        PROVE  sub'[s].consumer = "leaving" \/ \E q \in Publishers : pub'[q].evicting = s
    <2>1. s \in registered /\ sub[s].closed /\ (x.evicting # Nobody => s # x.evicting)
      BY <1>0, <1>1, <1>5, <1>8
    <2>2. CASE sub[s].consumer = "leaving"
      BY <1>0, <2>2
    <2>3. CASE \E q \in Publishers : pub[q].evicting = s
      BY <1>1, <1>3, <2>1, <2>3
    <2>. QED  BY <1>0, <2>1, <2>2, <2>3 DEF NoDeadSubscribers
  <1>. QED  BY <1>0, <1>4, <1>6, <1>7, <1>8 DEF BusInv, NoDeadSubscribers

\* An offer: a closed subscription refuses, an open one queues the event or is
\* closed by the publisher, who then takes it out of the table.
LEMMA OfferStep ==
  ASSUME BusInv, NEW p \in Publishers, NEW s \in Subscriptions, Offer(p, s)
  PROVE  BusInv'
  <1>. DEFINE x == pub[p]
              r == sub[s]
              rest == x.todo \ {s}
              PubRow == [event: Nat, todo: SUBSET Subscriptions,
                         evicting: Subscriptions \cup {Nobody}]
  <1>0. /\ pub \in [Publishers -> PubRow] /\ x \in PubRow /\ s \in x.todo /\ x.evicting = Nobody
        /\ UNCHANGED <<busClosed, nextId, registered, closing>>
        /\ Tabled /\ Unborn /\ NoDeadSubscribers /\ BusTypes
        /\ \A u \in Subscriptions : SubOk(sub[u], offered[u])
    BY DEF BusInv, BusTypes, Offer
  <1>1. CASE r.closed /\ pub' = [pub EXCEPT ![p].todo = rest] /\ UNCHANGED <<sub, offered>>
    <2>. DEFINE y == [x EXCEPT !.todo = rest]
    <2>1. pub' = [pub EXCEPT ![p] = y]
      BY <1>0, <1>1
    <2>2. y \in PubRow /\ y.todo = rest /\ y.evicting = x.evicting
      BY <1>0
    <2>. HIDE DEF y
    <2>3. /\ pub' \in [Publishers -> PubRow] /\ pub'[p] = y
          /\ \A q \in Publishers \ {p} : pub'[q] = pub[q]
      BY <1>0, <2>1, <2>2
    <2>4. BusTypes' /\ Tabled'
      BY <1>0, <1>1, <2>2, <2>3 DEF BusTypes, Tabled
    <2>5. Unborn'
      BY <1>0, <1>1, <2>2, <2>3 DEF Unborn
    <2>6. \A q \in Publishers : pub'[q].evicting = pub[q].evicting
      BY <2>2, <2>3
    <2>7. NoDeadSubscribers'
      BY <1>0, <1>1, <2>6 DEF NoDeadSubscribers
    <2>. QED  BY <1>0, <1>1, <2>4, <2>5, <2>7 DEF BusInv
  <1>2. CASE /\ ~r.closed /\ sub' = [sub EXCEPT ![s] = Accepts(r, x.event)]
             /\ offered' = [offered EXCEPT ![s] = Append(@, x.event)]
             /\ pub' = [pub EXCEPT ![p].todo = rest,
                                   ![p].evicting = IF Evicted(r) THEN ToUnregister(s) ELSE Nobody]
    <2>. DEFINE z == Accepts(r, x.event)
                e == x.event
                sent == Append(offered[s], e)
                out == IF Evicted(r) THEN s ELSE Nobody
                y == [x EXCEPT !.todo = rest, !.evicting = out]
    <2>1. pub' = [pub EXCEPT ![p] = y]
      BY <1>0, <1>2 DEF ToUnregister
    <2>2. y \in PubRow /\ y.todo = rest /\ y.evicting = out
      BY <1>0
    <2>. HIDE DEF y
    <2>3. /\ pub' \in [Publishers -> PubRow] /\ pub'[p] = y
          /\ \A q \in Publishers \ {p} : pub'[q] = pub[q]
      BY <1>0, <2>1, <2>2
    <2>4. SubOk(z, sent) /\ z.consumer = r.consumer /\ (z.closed <=> Evicted(r))
      BY <1>0, <1>2, AcceptsOk
    <2>5. offered \in [Subscriptions -> Seq(Nat)] /\ sent \in Seq(Nat)
      BY <1>0, <2>4 DEF BusTypes, SubOk
    <2>. HIDE DEF z, sent
    <2>6. /\ offered' \in [Subscriptions -> Seq(Nat)] /\ offered'[s] = sent
          /\ \A u \in Subscriptions \ {s} : offered'[u] = offered[u]
      BY <1>2, <2>5 DEF sent
    <2>7. sub' = [sub EXCEPT ![s] = z]
      BY <1>2 DEF z
    <2>8. /\ sub' \in [Subscriptions -> SubRow] /\ sub'[s] = z
          /\ \A u \in Subscriptions \ {s} : sub'[u] = sub[u]
          /\ \A u \in Subscriptions : SubOk(sub[u], offered[u])' /\ (sub[u].closed => sub'[u].closed)
      BY <1>2, <2>4, <2>6, <2>7, OneSub
    <2>9. BusTypes'
      BY <1>0, <2>3, <2>6, <2>8 DEF BusTypes
    <2>10. \A u \in Subscriptions : sub'[u].consumer = sub[u].consumer
      BY <2>4, <2>8
    <2>11. r.consumer # "unborn"
      BY <1>0 DEF Unborn
    <2>12. Tabled'
      BY <1>0, <2>2, <2>3, <2>4, <2>8, <2>10 DEF Tabled
    <2>13. Unborn'
      BY <1>0, <2>2, <2>3, <2>8, <2>10, <2>11 DEF Unborn
    <2>14. ASSUME NEW u \in registered, sub'[u].closed
           PROVE  sub'[u].consumer = "leaving" \/ \E q \in Publishers : pub'[q].evicting = u
      <3>1. u \in Subscriptions
        BY <1>0 DEF BusTypes
      <3>2. CASE u = s
        BY <2>2, <2>3, <2>4, <2>8, <2>14, <3>2
      <3>3. CASE u # s
        <4>1. sub[u].consumer = "leaving" \/ \E q \in Publishers : pub[q].evicting = u
          BY <1>0, <2>8, <2>14, <3>1, <3>3 DEF NoDeadSubscribers
        <4>2. \A q \in Publishers : pub[q].evicting = u => pub'[q].evicting = u
          BY <1>0, <2>2, <2>3, <3>1, <3>3, BusAssumption
        <4>. QED  BY <2>10, <3>1, <4>1, <4>2
      <3>. QED  BY <3>2, <3>3
    <2>15. NoDeadSubscribers'
      BY <1>0, <2>14 DEF NoDeadSubscribers
    <2>. QED  BY <2>8, <2>9, <2>12, <2>13, <2>15 DEF BusInv
  <1>. QED  BY <1>1, <1>2 DEF Offer

\* The bus closes: its table becomes the list of those it has still to close.
LEMMA CloseStep ==
  ASSUME BusInv, CloseBus \/ \E s \in Subscriptions : CloseNext(s)
  PROVE  BusInv'
  <1>0. /\ Tabled /\ Unborn /\ NoDeadSubscribers /\ BusTypes
        /\ \A u \in Subscriptions : SubOk(sub[u], offered[u])
    BY DEF BusInv
  <1>1. CASE CloseBus
    <2>1. BusTypes' /\ Tabled' /\ Unborn'
      BY <1>0, <1>1 DEF CloseBus, BusTypes, Tabled, Unborn
    <2>2. NoDeadSubscribers' /\ UNCHANGED <<sub, offered>>
      BY <1>1 DEF CloseBus, NoDeadSubscribers
    <2>. QED  BY <1>0, <2>1, <2>2 DEF BusInv
  <1>2. ASSUME NEW s \in Subscriptions, CloseNext(s)
        PROVE  BusInv'
    <2>. DEFINE z == Closed(sub[s])
    <2>1. /\ s \in closing /\ closing' = closing \ {s} /\ sub' = [sub EXCEPT ![s] = z]
          /\ UNCHANGED <<busClosed, nextId, registered, pub, offered>> /\ busClosed /\ registered = {}
      BY <1>0, <1>2 DEF CloseNext, Tabled
    <2>2. SubOk(z, offered[s]) /\ z.closed /\ z.consumer = sub[s].consumer
      BY <1>0, ClosedOk DEF SubOk
    <2>. HIDE DEF z
    <2>3. /\ sub' \in [Subscriptions -> SubRow] /\ sub'[s] = z
          /\ \A u \in Subscriptions \ {s} : sub'[u] = sub[u]
          /\ \A u \in Subscriptions : SubOk(sub[u], offered[u])' /\ (sub[u].closed => sub'[u].closed)
      BY <1>0, <2>1, <2>2, OneSub DEF BusTypes
    <2>4. BusTypes'
      BY <1>0, <2>1, <2>3 DEF BusTypes
    <2>5. Tabled'
      <3>1. \A p \in Publishers : pub[p].evicting \in Subscriptions \cup {Nobody}
        BY <1>0 DEF BusTypes
      <3>. QED  BY <1>0, <2>1, <2>2, <2>3, <3>1 DEF Tabled
    <2>6. Unborn' /\ NoDeadSubscribers'
      BY <1>0, <2>1, <2>2, <2>3 DEF Unborn, NoDeadSubscribers
    <2>. QED  BY <2>3, <2>4, <2>5, <2>6 DEF BusInv
  <1>. QED  BY <1>1, <1>2

\* The invariant of the bus holds in every behaviour.
LEMMA BusInvariance == BusSpec => []BusInv
  <1>1. ASSUME BusInit
        PROVE  BusInv
    <2>1. NewSubscription \in SubRow /\ \A s \in Subscriptions : SubOk(NewSubscription, <<>>)
      BY DEF NewSubscription, SubRow, SubOk, EndOf
    <2>2. /\ Idle \in [event: Nat, todo: SUBSET Subscriptions, evicting: Subscriptions \cup {Nobody}]
          /\ Idle.todo = {} /\ Idle.evicting = Nobody
      BY DEF Idle, NoEvent
    <2>3. BusTypes
      <3>1. <<>> \in Seq(Nat) /\ 1 \in Nat
        OBVIOUS
      <3>2. sub \in [Subscriptions -> SubRow] /\ offered \in [Subscriptions -> Seq(Nat)]
        BY <1>1, <2>1, <3>1 DEF BusInit
      <3>. QED  BY <1>1, <2>2, <3>1, <3>2 DEF BusInit, BusTypes
    <2>4. ~NewSubscription.closed /\ NewSubscription.consumer = "unborn"
      BY DEF NewSubscription
    <2>. QED  BY <1>1, <2>1, <2>2, <2>3, <2>4 DEF BusInit, BusInv, Tabled, Unborn, NoDeadSubscribers
  <1>2. ASSUME BusInv, [BusNext]_busVars
        PROVE  BusInv'
    <2>1. CASE UNCHANGED busVars
      BY <1>2, <2>1 DEF busVars, BusInv, BusTypes, Tabled, Unborn, NoDeadSubscribers
    <2>2. CASE BusNext
      BY <1>2, <2>2, ConsumerStep, PublisherStep, OfferStep, CloseStep DEF BusNext, BusStep
    <2>. QED  BY <1>2, <2>1, <2>2
  <1>. QED  BY <1>1, <1>2, PTL DEF BusSpec

\* _wake_scheduled, _notify, receive: however the offers of the publishers meet
\* the loop, no consumer sleeps over an event or over its own closing.
THEOREM WakeIsComingHolds == BusSpec => []WakeIsComing
  <1>1. BusInv => WakeIsComing
    BY DEF BusInv, SubOk, WakeIsComing
  <1>. QED  BY <1>1, BusInvariance, PTL

\* offer, _remove, close: for every capacity and eviction threshold, the queue of
\* an open subscription ends what it was offered, an evicted one is about to leave
\* the table, and closing the bus reaches everyone.
THEOREM SubscribersAreServedHolds == BusSpec => []SubscribersAreServed
  <1>1. ASSUME BusInv
        PROVE  SubscribersAreServed
    <2>1. KeepsTheNewest
      BY <1>1, SuffixIsEnd DEF BusInv, SubOk, SubRow, KeepsTheNewest
    <2>2. CloseReachesAll
      BY <1>1 DEF BusInv, Tabled, CloseReachesAll
    <2>. QED  BY <1>1, <2>1, <2>2 DEF BusInv, SubscribersAreServed
  <1>. QED  BY <1>1, BusInvariance, PTL

-----------------------------------------------------------------------------
(* The transcript of a chat session.                                       *)

Roles  == {"user", "assistant"}
MsgRow == [turn: Generations \cup Queries, role: Roles, interrupted: BOOLEAN]

IsAnswer(m, g) == m.turn = g /\ m.role = "assistant"

\* Turn g has stored nothing, no answer, a whole answer.
Silent(t, g)   == \A i \in 1..Len(t) : t[i].turn # g
NoAnswer(t, g) == \A i \in 1..Len(t) : ~IsAnswer(t[i], g)
Whole(t, g)    == \E i \in 1..Len(t) : IsAnswer(t[i], g) /\ ~t[i].interrupted

\* The question of turn g is the last message of a streamed turn before
\* position n.
AskedBefore(t, g, n) ==
  \E j \in 1..n - 1 : /\ t[j].turn = g /\ t[j].role = "user"
                      /\ \A l \in j + 1..n - 1 : t[l].turn \notin Generations

Orderly(t) ==
  \A i \in 1..Len(t) : t[i].turn \in Generations /\ t[i].role = "assistant" =>
    /\ \A l \in 1..Len(t) : IsAnswer(t[l], t[i].turn) => l = i
    /\ AskedBefore(t, t[i].turn, i)

\* What a message at the end changes.
LEMMA Appended ==
  ASSUME NEW t \in Seq(MsgRow), NEW m \in MsgRow
  PROVE  /\ Append(t, m) \in Seq(MsgRow) /\ Len(t) \in Nat /\ Len(Append(t, m)) = Len(t) + 1
         /\ Append(t, m)[Len(t) + 1] = m
         /\ \A i \in 1..Len(t) : Append(t, m)[i] = t[i]
         /\ 1..Len(Append(t, m)) = 1..Len(t) \cup {Len(t) + 1}
  OBVIOUS

\* A message of another turn says nothing about this one.
LEMMA OtherTurn ==
  ASSUME NEW t \in Seq(MsgRow), NEW m \in MsgRow, NEW g, m.turn # g
  PROVE  /\ Silent(t, g) => Silent(Append(t, m), g)
         /\ NoAnswer(t, g) => NoAnswer(Append(t, m), g)
         /\ Whole(t, g) <=> Whole(Append(t, m), g)
  <1>. DEFINE u == Append(t, m)
  <1>1. /\ Len(t) \in Nat /\ u[Len(t) + 1] = m /\ \A i \in 1..Len(t) : u[i] = t[i]
        /\ 1..Len(u) = 1..Len(t) \cup {Len(t) + 1}
    BY Appended
  <1>. HIDE DEF u
  <1>2. (Silent(t, g) => Silent(u, g)) /\ (NoAnswer(t, g) => NoAnswer(u, g))
    BY <1>1 DEF Silent, NoAnswer, IsAnswer
  <1>3. Whole(t, g) <=> Whole(u, g)
    BY <1>1 DEF Whole, IsAnswer
  <1>. QED  BY <1>2, <1>3 DEF u

\* Where a question was asked is settled by what stands before.
LEMMA AskedEarlier ==
  ASSUME NEW t \in Seq(MsgRow), NEW m \in MsgRow, NEW g, NEW n \in 1..Len(t) + 1
  PROVE  AskedBefore(t, g, n) <=> AskedBefore(Append(t, m), g, n)
  <1>. DEFINE u == Append(t, m)
  <1>1. Len(t) \in Nat /\ \A i \in 1..n - 1 : u[i] = t[i]
    BY Appended
  <1>. HIDE DEF u
  <1>2. AskedBefore(t, g, n) <=> AskedBefore(u, g, n)
    BY <1>1 DEF AskedBefore
  <1>. QED  BY <1>2 DEF u

\* A question, and whatever is not of a streamed turn, may be added anywhere.
LEMMA AddQuestion ==
  ASSUME NEW t \in Seq(MsgRow), NEW m \in MsgRow, Orderly(t),
         m.role = "user" \/ m.turn \notin Generations
  PROVE  Orderly(Append(t, m))
  <1>. DEFINE u == Append(t, m)
  <1>1. /\ Len(t) \in Nat /\ u[Len(t) + 1] = m /\ \A i \in 1..Len(t) : u[i] = t[i]
        /\ 1..Len(u) = 1..Len(t) \cup {Len(t) + 1}
    BY Appended
  <1>2. ASSUME NEW i \in 1..Len(t), NEW g, AskedBefore(t, g, i)
        PROVE  AskedBefore(u, g, i)
    BY <1>1, <1>2, AskedEarlier
  <1>. HIDE DEF u
  <1>3. ASSUME NEW i \in 1..Len(u), u[i].turn \in Generations, u[i].role = "assistant"
        PROVE  /\ \A l \in 1..Len(u) : IsAnswer(u[l], u[i].turn) => l = i
               /\ AskedBefore(u, u[i].turn, i)
    <2>1. i \in 1..Len(t) /\ u[i] = t[i]
      BY <1>1, <1>3
    <2>2. /\ \A l \in 1..Len(t) : IsAnswer(t[l], t[i].turn) => l = i
          /\ AskedBefore(t, t[i].turn, i)
      BY <1>3, <2>1 DEF Orderly
    <2>3. ~IsAnswer(m, t[i].turn)
      BY <1>3, <2>1 DEF IsAnswer
    <2>. QED  BY <1>1, <1>2, <2>1, <2>2, <2>3
  <1>4. Orderly(u)
    BY <1>3 DEF Orderly
  <1>. QED  BY <1>4 DEF u

\* The first answer of the turn that asked last may be added.
LEMMA AddAnswer ==
  ASSUME NEW t \in Seq(MsgRow), NEW m \in MsgRow, Orderly(t), NEW g \in Generations,
         IsAnswer(m, g), NoAnswer(t, g), AskedBefore(t, g, Len(t) + 1)
  PROVE  Orderly(Append(t, m)) /\ (Whole(Append(t, m), g) <=> ~m.interrupted)
  <1>. DEFINE u == Append(t, m)
  <1>1. /\ Len(t) \in Nat /\ u[Len(t) + 1] = m /\ \A i \in 1..Len(t) : u[i] = t[i]
        /\ 1..Len(u) = 1..Len(t) \cup {Len(t) + 1}
    BY Appended
  <1>2. ASSUME NEW i \in 1..Len(t) + 1, NEW h, AskedBefore(t, h, i)
        PROVE  AskedBefore(u, h, i)
    BY <1>2, AskedEarlier
  <1>. HIDE DEF u
  <1>3. ASSUME NEW i \in 1..Len(u), u[i].turn \in Generations, u[i].role = "assistant"
        PROVE  /\ \A l \in 1..Len(u) : IsAnswer(u[l], u[i].turn) => l = i
               /\ AskedBefore(u, u[i].turn, i)
    <2>1. CASE i \in 1..Len(t)
      <3>1. u[i] = t[i] /\ IsAnswer(t[i], t[i].turn)
        BY <1>1, <1>3, <2>1 DEF IsAnswer
      <3>2. t[i].turn # g
        BY <2>1, <3>1 DEF NoAnswer
      <3>3. /\ \A l \in 1..Len(t) : IsAnswer(t[l], t[i].turn) => l = i
            /\ AskedBefore(t, t[i].turn, i)
        BY <1>3, <2>1, <3>1 DEF Orderly
      <3>4. ~IsAnswer(m, t[i].turn) /\ i \in 1..Len(t) + 1
        BY <1>1, <2>1, <3>2 DEF IsAnswer
      <3>. QED  BY <1>1, <1>2, <3>1, <3>3, <3>4
    <2>2. CASE i = Len(t) + 1
      <3>1. u[i] = m /\ m.turn = g
        BY <1>1, <2>2 DEF IsAnswer
      <3>2. \A l \in 1..Len(t) : ~IsAnswer(u[l], g)
        BY <1>1 DEF NoAnswer
      <3>3. i \in 1..Len(t) + 1
        BY <1>1, <2>2
      <3>. QED  BY <1>1, <1>2, <2>2, <3>1, <3>2, <3>3
    <2>. QED  BY <1>1, <2>1, <2>2
  <1>4. Orderly(u)
    BY <1>3 DEF Orderly
  <1>5. Whole(u, g) <=> ~m.interrupted
    BY <1>1 DEF Whole, NoAnswer
  <1>. QED  BY <1>4, <1>5 DEF u

\* A question is the last of a streamed turn, and stays it behind messages of
\* agent queries.
LEMMA StillAsked ==
  ASSUME NEW t \in Seq(MsgRow), NEW m \in MsgRow, NEW g,
         \/ m.turn = g /\ m.role = "user"
         \/ m.turn \notin Generations /\ AskedBefore(t, g, Len(t) + 1)
  PROVE  AskedBefore(Append(t, m), g, Len(Append(t, m)) + 1)
  <1>. DEFINE u == Append(t, m)
  <1>1. /\ Len(t) \in Nat /\ u[Len(t) + 1] = m /\ \A i \in 1..Len(t) : u[i] = t[i]
        /\ Len(u) = Len(t) + 1
    BY Appended
  <1>. HIDE DEF u
  <1>2. CASE m.turn = g /\ m.role = "user"
    <2>1. Len(t) + 1 \in 1..Len(u) + 1 - 1 /\ Len(t) + 1 + 1..Len(u) + 1 - 1 = {}
      BY <1>1
    <2>2. AskedBefore(u, g, Len(u) + 1)
      BY <1>1, <1>2, <2>1 DEF AskedBefore
    <2>. QED  BY <2>2 DEF u
  <1>3. CASE m.turn \notin Generations /\ AskedBefore(t, g, Len(t) + 1)
    <2>1. PICK j \in 1..Len(t) : /\ t[j].turn = g /\ t[j].role = "user"
                                 /\ \A l \in j + 1..Len(t) : t[l].turn \notin Generations
      BY <1>1, <1>3 DEF AskedBefore
    <2>2. \A l \in j + 1..Len(u) : u[l].turn \notin Generations
      BY <1>1, <1>3, <2>1
    <2>3. j \in 1..Len(u) + 1 - 1 /\ u[j] = t[j] /\ j + 1..Len(u) + 1 - 1 = j + 1..Len(u)
      BY <1>1, <2>1
    <2>4. AskedBefore(u, g, Len(u) + 1)
      BY <2>1, <2>2, <2>3 DEF AskedBefore
    <2>. QED  BY <2>4 DEF u
  <1>. QED  BY <1>2, <1>3

-----------------------------------------------------------------------------
(* The turns of a session.  The turn in the slot is the only one that      *)
(* runs, and the latest that started; its question is stored when it       *)
(* streams, its answer only when it ends.                                  *)

Ends   == {"generation_completed", "generation_failed", "generation_interrupted"}
Over   == {"none", "done", "raised"}
Asking == {"prepared", "streaming", "appending", "publishing", "answered", "unanswered",
           "completing", "saving"}
GenRow == [at: Over \cup Asking \cup {"preparing", "completed", "failing", "saved", "savedNothing"},
           cancel: BOOLEAN, tokens: Nat]

TurnTypes ==
  /\ active \in Generations \cup {0} /\ gen \in [Generations -> GenRow]
  /\ transcript \in Seq(MsgRow) /\ late \in [Generations -> Nat]
  /\ terminal \in [Generations -> Seq(Ends)]

Fresh(r) == r.at = "none" => ~r.cancel /\ r.tokens = 0

\* At most one token is accepted after the cancel event, and none before.
Stops(r, n) == n <= 1 /\ (~r.cancel \/ r.at = "appending" => n = 0)

Stored(r, g, t) ==
  /\ r.at \in {"none", "preparing"} => Silent(t, g)
  /\ r.at \in Asking => NoAnswer(t, g) /\ AskedBefore(t, g, Len(t) + 1)
  /\ r.at = "completed" => Whole(t, g)
  /\ r.at \in {"saved", "savedNothing"} => ~Whole(t, g)

Told(r, g, t, ended) ==
  IF r.at = "done"
  THEN /\ Len(ended) = 1 /\ (ended[1] = "generation_completed" => Whole(t, g))
       /\ ended[1] = "generation_interrupted" => ~Whole(t, g)
  ELSE ended = <<>>

TurnOk(g) ==
  /\ gen[g].at \notin Over <=> active = g
  /\ Fresh(gen[g]) /\ Stops(gen[g], late[g]) /\ Stored(gen[g], g, transcript)
  /\ Told(gen[g], g, transcript, terminal[g])

\* The turns that started are the first ones, and the running one is the last.
Counted ==
  \E n \in Nat : Chat!Started = 1..n /\ (active # 0 => active = n)

TurnInv == TurnTypes /\ (\A g \in Generations : TurnOk(g)) /\ Orderly(transcript) /\ Counted

\* While a turn runs, the others stay what they are.
LEMMA OthersStay ==
  ASSUME TurnInv, NEW g \in Generations, active = g, active' \in {g, 0},
         \A h \in Generations \ {g} :
           gen'[h] = gen[h] /\ late'[h] = late[h] /\ terminal'[h] = terminal[h],
         \/ UNCHANGED transcript
         \/ \E m \in MsgRow : m.turn = g /\ transcript' = Append(transcript, m)
  PROVE  \A h \in Generations \ {g} : TurnOk(h)'
  <1>1. TAKE h \in Generations \ {g}
  <1>2. TurnOk(h) /\ gen[h].at \in Over /\ transcript \in Seq(MsgRow) /\ h # 0
    BY TurnsAssumption DEF TurnInv, TurnTypes, TurnOk
  <1>3. /\ Silent(transcript, h) => Silent(transcript', h)
        /\ Whole(transcript, h) <=> Whole(transcript', h)
    <2>1. CASE UNCHANGED transcript
      BY <2>1
    <2>2. ASSUME NEW m \in MsgRow, m.turn = g, transcript' = Append(transcript, m)
          PROVE  /\ Silent(transcript, h) => Silent(transcript', h)
                 /\ Whole(transcript, h) <=> Whole(transcript', h)
      BY <1>2, <2>2, OtherTurn, Zenon
    <2>. QED  BY <2>1, <2>2
  <1>4. Stored(gen[h], h, transcript)'
    BY <1>2, <1>3 DEF TurnOk, Stored, Over, Asking
  <1>5. Told(gen[h], h, transcript, terminal[h])'
    BY <1>2, <1>3 DEF TurnOk, Told
  <1>. QED  BY <1>2, <1>4, <1>5 DEF TurnOk

\* A step of the running turn: what is left to show is about this turn.
LEMMA TurnMoves ==
  ASSUME TurnInv, NEW g \in Generations, gen[g].at \notin Over, NEW y \in GenRow,
         gen' = [gen EXCEPT ![g] = y], y.at # "none",
         active' = IF y.at \in Over THEN 0 ELSE active,
         late' \in [Generations -> Nat], terminal' \in [Generations -> Seq(Ends)],
         \A h \in Generations \ {g} : late'[h] = late[h] /\ terminal'[h] = terminal[h],
         \/ UNCHANGED transcript
         \/ \E m \in MsgRow : m.turn = g /\ transcript' = Append(transcript, m),
         Stops(y, late'[g]), Stored(y, g, transcript'), Told(y, g, transcript', terminal'[g]),
         Orderly(transcript')
  PROVE  TurnInv'
  <1>1. active = g /\ gen \in [Generations -> GenRow] /\ transcript \in Seq(MsgRow) /\ g # 0
    BY TurnsAssumption DEF TurnInv, TurnTypes, TurnOk
  <1>2. /\ gen' \in [Generations -> GenRow] /\ gen'[g] = y
        /\ \A h \in Generations \ {g} : gen'[h] = gen[h]
    BY <1>1
  <1>3. active' \in {g, 0}
    BY <1>1
  <1>4. \A h \in Generations \ {g} : TurnOk(h)'
    BY <1>1, <1>2, <1>3, OthersStay
  <1>5. Fresh(y)
    BY DEF Fresh
  <1>6. TurnOk(g)'
    BY <1>1, <1>2, <1>5 DEF TurnOk
  <1>7. TurnTypes'
    <2>1. transcript' \in Seq(MsgRow)
      <3>1. CASE UNCHANGED transcript
        BY <1>1, <3>1
      <3>2. CASE \E m \in MsgRow : m.turn = g /\ transcript' = Append(transcript, m)
        <4>1. PICK m \in MsgRow : transcript' = Append(transcript, m)
          BY <3>2
        <4>. QED  BY <1>1, <4>1, Appended
      <3>. QED  BY <3>1, <3>2
    <2>. QED  BY <1>2, <1>3, <2>1 DEF TurnTypes
  <1>8. Chat!Started' = Chat!Started
    BY <1>2 DEF Chat!Started, Over
  <1>9. Counted'
    BY <1>1, <1>3, <1>8 DEF TurnInv, Counted
  <1>. QED  BY <1>4, <1>6, <1>7, <1>9 DEF TurnInv

\* The instance's Cardinality is the one the library's theorems are about.
LEMMA SameCardinality == \A S : Chat!Cardinality(S) = Cardinality(S)
  BY DEF Chat!Cardinality, Cardinality

\* A new turn is none of those that started.
LEMMA TurnStarts ==
  ASSUME TurnInv, NEW g \in Generations, Chat!StartTurn(g), UNCHANGED <<late, terminal, transcript>>
  PROVE  TurnInv' /\ gen[g].at = "none"
  <1>. DEFINE x == gen[g]
              y == [x EXCEPT !.at = "preparing"]
  <1>1. /\ active = 0 /\ active' = g /\ gen \in [Generations -> GenRow]
        /\ g = Cardinality(Chat!Started) + 1 /\ gen' = [gen EXCEPT ![g] = y]
    <2>1. gen \in [Generations -> GenRow]
      BY DEF TurnInv, TurnTypes
    <2>2. g = Cardinality(Chat!Started) + 1
      BY SameCardinality DEF Chat!StartTurn
    <2>3. active = 0 /\ active' = g /\ gen' = [gen EXCEPT ![g].at = "preparing"]
      BY DEF Chat!StartTurn, Chat!Free, Chat!NoTurn
    <2>. QED  BY <2>1, <2>2, <2>3
  <1>2. PICK n \in Nat : Chat!Started = 1..n
    BY DEF TurnInv, Counted
  <1>3. Cardinality(1..n) = n
    BY <1>2, FS_Interval
  <1>4. g = n + 1
    BY <1>1, <1>2, <1>3
  <1>5. x.at = "none" /\ x \in GenRow
    <2>1. g \notin Chat!Started
      BY <1>2, <1>4
    <2>. QED  BY <1>1, <2>1 DEF Chat!Started
  <1>6. y \in GenRow /\ y.at = "preparing" /\ y.cancel = x.cancel
    BY <1>5 DEF GenRow
  <1>. HIDE DEF y
  <1>7. /\ gen' \in [Generations -> GenRow] /\ gen'[g] = y
        /\ \A h \in Generations \ {g} : gen'[h] = gen[h]
    BY <1>1, <1>6
  <1>8. ASSUME NEW h \in Generations \ {g}
        PROVE  TurnOk(h)'
    <2>1. TurnOk(h) /\ h # 0
      BY TurnsAssumption DEF TurnInv
    <2>. QED  BY <1>1, <1>7, <2>1 DEF TurnOk
  <1>9. TurnOk(g)'
    <2>1. TurnOk(g)
      BY DEF TurnInv
    <2>2. Stored(y, g, transcript)
      BY <1>5, <1>6, <2>1 DEF TurnOk, Stored, Asking
    <2>3. Told(y, g, transcript, terminal[g])
      BY <1>5, <1>6, <2>1 DEF TurnOk, Told
    <2>4. Fresh(y) /\ Stops(y, late[g])
      BY <1>5, <1>6, <2>1 DEF TurnOk, Fresh, Stops
    <2>. QED  BY <1>1, <1>6, <1>7, <2>2, <2>3, <2>4 DEF TurnOk, Over
  <1>10. TurnTypes'
    BY <1>1, <1>7 DEF TurnInv, TurnTypes
  <1>11. Chat!Started' = 1..n + 1
    <2>1. Chat!Started' = Chat!Started \cup {g}
      BY <1>6, <1>7 DEF Chat!Started
    <2>. QED  BY <1>2, <1>4, <2>1
  <1>12. Counted'
    BY <1>1, <1>4, <1>11 DEF Counted
  <1>. QED  BY <1>5, <1>8, <1>9, <1>10, <1>12 DEF TurnInv

\* An interrupt or a shutdown sets the cancel event of the running turn.
LEMMA TurnCancelled ==
  ASSUME TurnInv, active # 0, gen' = [gen EXCEPT ![active].cancel = TRUE],
         UNCHANGED <<active, late, terminal, transcript>>
  PROVE  TurnInv'
  <1>1. active \in Generations /\ gen \in [Generations -> GenRow] /\ TurnOk(active)
    BY DEF TurnInv, TurnTypes
  <1>. DEFINE x == gen[active]
              y == [x EXCEPT !.cancel = TRUE]
  <1>2. x \in GenRow /\ x.at \notin Over /\ gen' = [gen EXCEPT ![active] = y]
    BY <1>1 DEF TurnOk
  <1>3. y \in GenRow /\ y.at = x.at /\ y.cancel = TRUE
    BY <1>2 DEF GenRow
  <1>. HIDE DEF y
  <1>4. Stops(y, late[active]) /\ Stored(y, active, transcript) /\ Told(y, active, transcript, terminal[active])
    BY <1>1, <1>3 DEF TurnOk, Stops, Stored, Told
  <1>5. late \in [Generations -> Nat] /\ terminal \in [Generations -> Seq(Ends)] /\ Orderly(transcript)
    BY DEF TurnInv, TurnTypes
  <1>. QED  BY <1>1, <1>2, <1>3, <1>4, <1>5, TurnMoves DEF Over

\* An agent query writes between the messages of the turns.
LEMMA QueryWrites ==
  ASSUME TurnInv, NEW m \in MsgRow, m.turn \in Queries, transcript' = Append(transcript, m),
         UNCHANGED <<active, gen, late, terminal>>
  PROVE  TurnInv'
  <1>1. m.turn \notin Generations /\ transcript \in Seq(MsgRow)
    BY TurnsAssumption DEF TurnInv, TurnTypes
  <1>2. Orderly(transcript') /\ transcript' \in Seq(MsgRow)
    BY <1>1, AddQuestion, Appended DEF TurnInv
  <1>3. ASSUME NEW g \in Generations
        PROVE  TurnOk(g)'
    <2>1. TurnOk(g) /\ m.turn # g
      BY <1>1 DEF TurnInv
    <2>2. /\ Silent(transcript, g) => Silent(transcript', g)
          /\ NoAnswer(transcript, g) => NoAnswer(transcript', g)
          /\ Whole(transcript, g) <=> Whole(transcript', g)
      BY <1>1, <2>1, OtherTurn
    <2>3. AskedBefore(transcript, g, Len(transcript) + 1) =>
            AskedBefore(transcript', g, Len(transcript') + 1)
      BY <1>1, StillAsked
    <2>4. Stored(gen[g], g, transcript')
      BY <2>1, <2>2, <2>3 DEF TurnOk, Stored
    <2>5. Told(gen[g], g, transcript', terminal[g])
      BY <2>1, <2>2 DEF TurnOk, Told
    <2>. QED  BY <2>1, <2>4, <2>5 DEF TurnOk
  <1>4. Counted' /\ TurnTypes'
    BY <1>2 DEF TurnInv, TurnTypes, Counted, Chat!Started
  <1>. QED  BY <1>2, <1>3, <1>4 DEF TurnInv

\* gen[g].at moves: the row of g after Goes(g, from, to).
Moved(g, to) == [gen[g] EXCEPT !.at = to]

LEMMA GoesRow ==
  ASSUME TurnInv, NEW g \in Generations, NEW from, NEW to, Chat!Goes(g, from, to),
         [gen[g] EXCEPT !.at = to] \in GenRow
  PROVE  /\ gen[g].at = from /\ gen' = [gen EXCEPT ![g] = Moved(g, to)] /\ Moved(g, to) \in GenRow
         /\ Moved(g, to).at = to /\ Moved(g, to).cancel = gen[g].cancel
         /\ Moved(g, to).tokens = gen[g].tokens
  <1>1. gen \in [Generations -> GenRow] /\ gen[g] \in GenRow
    BY DEF TurnInv, TurnTypes
  <1>2. gen[g].at = from /\ gen' = [gen EXCEPT ![g] = [gen[g] EXCEPT !.at = to]]
    BY <1>1 DEF Chat!Goes
  <1>3. /\ [gen[g] EXCEPT !.at = to].at = to /\ [gen[g] EXCEPT !.at = to].cancel = gen[g].cancel
        /\ [gen[g] EXCEPT !.at = to].tokens = gen[g].tokens
    BY <1>1 DEF GenRow
  <1>. QED  BY <1>2, <1>3 DEF Moved

\* The running turn moves on and stores nothing.
LEMMA StepsOn ==
  ASSUME TurnInv, NEW g \in Generations, NEW from, NEW to, Chat!Goes(g, from, to),
         UNCHANGED <<active, transcript, terminal, late>>,
         \/ from \in Asking /\ to \in Asking \ {"appending"}
         \/ from \in Asking /\ to = "appending" /\ ~gen[g].cancel
         \/ from = "saving" /\ to = "savedNothing"
         \/ from \in Asking \cup {"preparing"} /\ to = "failing"
  PROVE  TurnInv'
  <1>. DEFINE y == Moved(g, to)
  <1>0. TurnOk(g) /\ gen[g] \in GenRow /\ [gen[g] EXCEPT !.at = to] \in GenRow
    BY DEF TurnInv, TurnTypes, GenRow, Asking
  <1>1. /\ gen[g].at = from /\ gen' = [gen EXCEPT ![g] = y] /\ y \in GenRow
        /\ y.at = to /\ y.cancel = gen[g].cancel
    BY <1>0, GoesRow
  <1>2. from \notin Over /\ to \notin Over
    BY DEF Over, Asking
  <1>3. Stops(y, late[g])
    BY <1>0, <1>1 DEF TurnOk, Stops
  <1>4. Stored(y, g, transcript)
    <2>1. from \in Asking => NoAnswer(transcript, g) /\ AskedBefore(transcript, g, Len(transcript) + 1)
      BY <1>0, <1>1 DEF TurnOk, Stored
    <2>2. NoAnswer(transcript, g) => ~Whole(transcript, g)
      BY DEF NoAnswer, Whole
    <2>. QED  BY <1>1, <2>1, <2>2 DEF Stored, Asking
  <1>5. Told(y, g, transcript, terminal[g])
    BY <1>0, <1>1, <1>2 DEF TurnOk, Told, Over
  <1>6. late \in [Generations -> Nat] /\ terminal \in [Generations -> Seq(Ends)] /\ Orderly(transcript)
    BY DEF TurnInv, TurnTypes
  <1>. HIDE DEF y
  <1>. QED  BY <1>1, <1>2, <1>3, <1>4, <1>5, <1>6, TurnMoves DEF Over

\* The running turn stores its question, its answer, or what it has of one.
LEMMA StepStores ==
  ASSUME TurnInv, NEW g \in Generations, NEW from, NEW to, Chat!Goes(g, from, to),
         UNCHANGED <<active, terminal, late>>, NEW m \in MsgRow, m.turn = g,
         transcript' = Append(transcript, m),
         \/ from = "preparing" /\ to = "prepared" /\ m.role = "user"
         \/ from = "completing" /\ to \in {"completed", "failing"} /\ m.role = "assistant" /\ ~m.interrupted
         \/ from = "saving" /\ to = "saved" /\ m.role = "assistant" /\ m.interrupted
  PROVE  TurnInv'
  <1>. DEFINE y == Moved(g, to)
  <1>0. /\ TurnOk(g) /\ gen[g] \in GenRow /\ [gen[g] EXCEPT !.at = to] \in GenRow
        /\ transcript \in Seq(MsgRow) /\ Orderly(transcript)
        /\ late \in [Generations -> Nat] /\ terminal \in [Generations -> Seq(Ends)]
    BY DEF TurnInv, TurnTypes, GenRow, Asking
  <1>1. /\ gen[g].at = from /\ gen' = [gen EXCEPT ![g] = y] /\ y \in GenRow
        /\ y.at = to /\ y.cancel = gen[g].cancel
    BY <1>0, GoesRow
  <1>2. from \notin Over /\ to \notin Over /\ to # "appending"
    BY DEF Over
  <1>3. Stops(y, late[g]) /\ Told(y, g, transcript', terminal[g])
    BY <1>0, <1>1, <1>2 DEF TurnOk, Stops, Told, Over
  <1>4. Stored(y, g, transcript') /\ Orderly(transcript')
    <2>1. CASE from = "preparing"
      <3>1. Silent(transcript, g) /\ to = "prepared" /\ m.role = "user"
        BY <1>0, <1>1, <2>1 DEF TurnOk, Stored
      <3>2. NoAnswer(transcript', g)
        <4>. DEFINE u == Append(transcript, m)
        <4>1. /\ u[Len(transcript) + 1] = m /\ \A i \in 1..Len(transcript) : u[i] = transcript[i]
              /\ 1..Len(u) = 1..Len(transcript) \cup {Len(transcript) + 1}
          BY <1>0, Appended
        <4>. HIDE DEF u
        <4>2. NoAnswer(u, g)
          BY <3>1, <4>1 DEF Silent, NoAnswer, IsAnswer
        <4>. QED  BY <4>2 DEF u
      <3>3. AskedBefore(transcript', g, Len(transcript') + 1)
        BY <1>0, <3>1, StillAsked
      <3>4. Orderly(transcript')
        BY <1>0, <3>1, AddQuestion
      <3>. QED  BY <1>1, <3>1, <3>2, <3>3, <3>4 DEF Stored
    <2>2. CASE from \in {"completing", "saving"}
      <3>1. NoAnswer(transcript, g) /\ AskedBefore(transcript, g, Len(transcript) + 1)
        BY <1>0, <1>1, <2>2 DEF TurnOk, Stored, Asking
      <3>2. IsAnswer(m, g)
        BY <2>2 DEF IsAnswer
      <3>3. Orderly(transcript') /\ (Whole(transcript', g) <=> ~m.interrupted)
        BY <1>0, <3>1, <3>2, AddAnswer
      <3>. QED  BY <1>1, <2>2, <3>3 DEF Stored, Asking
    <2>. QED  BY <2>1, <2>2
  <1>. HIDE DEF y
  <1>. QED  BY <1>0, <1>1, <1>2, <1>3, <1>4, TurnMoves DEF Over

\* The running turn ends: with its terminal event, or with none when storing
\* its partial answer failed.
LEMMA StepEnds ==
  ASSUME TurnInv, NEW g \in Generations,
         \/ Chat!Completed(g) \/ Chat!Failed(g) \/ Chat!Interrupted(g) \/ Chat!PersistFails(g)
  PROVE  TurnInv'
  <1>0. /\ TurnOk(g) /\ gen[g] \in GenRow /\ g # 0
        /\ \A to \in {"done", "raised"} : [gen[g] EXCEPT !.at = to] \in GenRow
        /\ late \in [Generations -> Nat] /\ terminal \in [Generations -> Seq(Ends)]
        /\ Orderly(transcript)
    BY TurnsAssumption DEF TurnInv, TurnTypes, GenRow, Over
  <1>1. ASSUME NEW from \in {"completed", "failing", "saved", "savedNothing"},
               NEW kind \in Ends,
               Chat!Finish(g, from, kind),
               kind = "generation_completed" => from = "completed",
               kind = "generation_interrupted" => from \in {"saved", "savedNothing"}
        PROVE  TurnInv'
    <2>. DEFINE y == Moved(g, "done")
                ended == Append(terminal[g], kind)
    <2>1. /\ gen[g].at = from /\ gen' = [gen EXCEPT ![g] = y] /\ y \in GenRow
          /\ y.at = "done" /\ y.cancel = gen[g].cancel
      BY <1>0, <1>1, GoesRow DEF Chat!Finish
    <2>2. active = g /\ from \notin Over /\ terminal[g] = <<>>
      BY <1>0, <1>1, <2>1 DEF TurnOk, Over, Told
    <2>3. active' = 0
      BY <1>1, <2>2 DEF Chat!Finish, Chat!Released, Chat!NoTurn
    <2>4. ended \in Seq(Ends) /\ Len(ended) = 1 /\ ended[1] = kind
      BY <1>0, <2>2
    <2>5. UNCHANGED <<transcript, late>> /\ terminal' = [terminal EXCEPT ![g] = ended]
      BY <1>1 DEF Chat!Finish
    <2>. HIDE DEF y, ended
    <2>6. /\ terminal' \in [Generations -> Seq(Ends)] /\ terminal'[g] = ended
          /\ \A h \in Generations \ {g} : terminal'[h] = terminal[h]
      BY <1>0, <2>4, <2>5
    <2>7. Stops(y, late[g]) /\ Stored(y, g, transcript)
      BY <1>0, <2>1 DEF TurnOk, Stops, Stored, Asking
    <2>8. Told(y, g, transcript, ended)
      BY <1>0, <1>1, <2>1, <2>4 DEF TurnOk, Stored, Told
    <2>9. /\ active' = IF y.at \in Over THEN 0 ELSE active
          /\ late' = late /\ transcript' = transcript /\ y.at # "none" /\ gen[g].at \notin Over
      BY <2>1, <2>2, <2>3, <2>5 DEF Over
    <2>. QED  BY <1>0, <2>1, <2>6, <2>7, <2>8, <2>9, TurnMoves
  <1>2. CASE Chat!PersistFails(g)
    <2>. DEFINE y == Moved(g, "raised")
    <2>1. /\ gen[g].at = "saving" /\ gen' = [gen EXCEPT ![g] = y] /\ y \in GenRow
          /\ y.at = "raised" /\ y.cancel = gen[g].cancel
      BY <1>0, <1>2, GoesRow DEF Chat!PersistFails
    <2>2. active = g /\ active' = 0 /\ UNCHANGED <<transcript, terminal, late>>
      BY <1>0, <1>2, <2>1 DEF TurnOk, Over, Chat!PersistFails, Chat!Released, Chat!NoTurn
    <2>. HIDE DEF y
    <2>3. Stops(y, late[g]) /\ Stored(y, g, transcript) /\ Told(y, g, transcript, terminal[g])
      BY <1>0, <2>1 DEF TurnOk, Stops, Stored, Asking, Told
    <2>. QED  BY <1>0, <2>1, <2>2, <2>3, TurnMoves DEF Over
  <1>3. CASE Chat!Completed(g)
    BY <1>1, <1>3 DEF Chat!Completed, Ends
  <1>4. CASE Chat!Failed(g)
    BY <1>1, <1>4 DEF Chat!Failed, Ends
  <1>5. CASE Chat!Interrupted(g)
    BY <1>1, <1>5 DEF Chat!Interrupted, Ends
  <1>. QED  BY <1>2, <1>3, <1>4, <1>5

\* A token is accepted: it was past the check of the cancel event.
LEMMA StepToken ==
  ASSUME TurnInv, NEW g \in Generations, Chat!AppendToken(g)
  PROVE  TurnInv'
  <1>. DEFINE x == gen[g]
              n == x.tokens + 1
              y == [x EXCEPT !.at = "publishing", !.tokens = n]
              more == IF x.cancel THEN late[g] + 1 ELSE late[g]
  <1>0. /\ TurnOk(g) /\ x \in GenRow /\ x.at = "appending" /\ gen \in [Generations -> GenRow]
        /\ late \in [Generations -> Nat] /\ terminal \in [Generations -> Seq(Ends)]
        /\ Orderly(transcript)
    BY DEF TurnInv, TurnTypes, Chat!AppendToken
  <1>1. /\ gen' = [gen EXCEPT ![g] = y] /\ late' = [late EXCEPT ![g] = more]
        /\ UNCHANGED <<active, transcript, terminal>>
    BY <1>0 DEF Chat!AppendToken
  <1>2. late[g] = 0 /\ n \in Nat
    BY <1>0 DEF TurnOk, Stops, GenRow
  <1>. HIDE DEF n
  <1>3. y \in GenRow /\ y.at = "publishing" /\ y.cancel = x.cancel
    BY <1>0, <1>2 DEF GenRow, Asking
  <1>. HIDE DEF y
  <1>4. /\ late' \in [Generations -> Nat] /\ late'[g] = more
        /\ \A h \in Generations \ {g} : late'[h] = late[h]
    BY <1>0, <1>1, <1>2
  <1>5. Stops(y, more)
    BY <1>2, <1>3 DEF Stops
  <1>6. Stored(y, g, transcript) /\ Told(y, g, transcript, terminal[g])
    BY <1>0, <1>3 DEF TurnOk, Stored, Told, Asking
  <1>. QED  BY <1>0, <1>1, <1>3, <1>4, <1>5, <1>6, TurnMoves DEF Over

\* Every step of the running turn.
LEMMA TurnStepKeeps ==
  ASSUME TurnInv, NEW g \in Generations, Chat!TurnStep(g)
  PROVE  TurnInv'
  <1>0. /\ \A cut \in BOOLEAN, role \in Roles : Chat!Message(g, role, cut) \in MsgRow
        /\ \A cut \in BOOLEAN, role \in Roles :
             /\ Chat!Message(g, role, cut).turn = g /\ Chat!Message(g, role, cut).role = role
             /\ Chat!Message(g, role, cut).interrupted = cut
    BY DEF Chat!Message, MsgRow
  <1>1. CASE Chat!Prepare(g)
    <2>. DEFINE m == Chat!Message(g, "user", FALSE)
    <2>1. m \in MsgRow /\ m.turn = g /\ m.role = "user"
      BY <1>0 DEF Roles
    <2>2. \/ Chat!Goes(g, "preparing", "prepared") /\ transcript' = Append(transcript, m)
          \/ Chat!Goes(g, "preparing", "failing") /\ UNCHANGED transcript
      BY <1>1 DEF Chat!Prepare
    <2>3. UNCHANGED <<active, terminal, late>>
      BY <1>1 DEF Chat!Prepare
    <2>. HIDE DEF m
    <2>. QED  BY <2>1, <2>2, <2>3, StepStores, StepsOn
  <1>2. CASE Chat!Announce(g)
    <2>1. Chat!Goes(g, "prepared", "streaming") /\ UNCHANGED <<active, transcript, terminal, late>>
      BY <1>2 DEF Chat!Announce
    <2>. QED  BY <2>1, StepsOn DEF Asking
  <1>3. CASE Chat!TokenArrives(g)
    <2>1. /\ Chat!Goes(g, "streaming", "appending") /\ ~gen[g].cancel
          /\ UNCHANGED <<active, transcript, terminal, late>>
      BY <1>3 DEF Chat!TokenArrives, Chat!MayStream
    <2>. QED  BY <2>1, StepsOn DEF Asking
  <1>4. CASE Chat!PublishToken(g)
    <2>1. Chat!Goes(g, "publishing", "streaming") /\ UNCHANGED <<active, transcript, terminal, late>>
      BY <1>4 DEF Chat!PublishToken, Chat!Goes
    <2>. QED  BY <2>1, StepsOn DEF Asking
  <1>5. CASE Chat!AgentReturns(g)
    <2>1. /\ \E to \in {"answered", "unanswered", "saving"} : Chat!Goes(g, "streaming", to)
          /\ UNCHANGED <<active, transcript, terminal, late>>
      BY <1>5 DEF Chat!AgentReturns
    <2>. QED  BY <2>1, StepsOn DEF Asking
  <1>6. CASE Chat!Continue(g)
    <2>1. /\ \E from \in {"answered", "unanswered"}, to \in {"saving", "completing", "failing"} :
               Chat!Goes(g, from, to)
          /\ UNCHANGED <<active, transcript, terminal, late>>
      BY <1>6 DEF Chat!Continue, Chat!Goes
    <2>. QED  BY <2>1, StepsOn DEF Asking
  <1>7. CASE Chat!Complete(g)
    <2>. DEFINE m == Chat!Message(g, "assistant", FALSE)
    <2>1. m \in MsgRow /\ m.turn = g /\ m.role = "assistant" /\ ~m.interrupted
      BY <1>0 DEF Roles
    <2>2. \/ /\ \E to \in {"completed", "failing"} : Chat!Goes(g, "completing", to)
             /\ transcript' = Append(transcript, m)
          \/ Chat!Goes(g, "completing", "failing") /\ UNCHANGED transcript
      BY <1>7 DEF Chat!Complete
    <2>3. UNCHANGED <<active, terminal, late>>
      BY <1>7 DEF Chat!Complete
    <2>. HIDE DEF m
    <2>. QED  BY <2>1, <2>2, <2>3, StepStores, StepsOn DEF Asking
  <1>8. CASE Chat!PersistInterrupted(g)
    <2>. DEFINE m == Chat!Kept(g)
    <2>1. m \in MsgRow /\ m.turn = g /\ m.role = "assistant" /\ m.interrupted
      BY <1>0 DEF Roles, Chat!Kept
    <2>2. \/ Chat!Goes(g, "saving", "saved") /\ transcript' = Append(transcript, m)
          \/ Chat!Goes(g, "saving", "savedNothing") /\ UNCHANGED transcript
      BY <1>8 DEF Chat!PersistInterrupted
    <2>3. UNCHANGED <<active, terminal, late>>
      BY <1>8 DEF Chat!PersistInterrupted
    <2>. HIDE DEF m
    <2>. QED  BY <2>1, <2>2, <2>3, StepStores, StepsOn
  <1>9. CASE Chat!AppendToken(g)
    BY <1>9, StepToken
  <1>10. CASE Chat!PersistFails(g) \/ Chat!Completed(g) \/ Chat!Failed(g) \/ Chat!Interrupted(g)
    BY <1>10, StepEnds
  <1>. QED  BY <1>1, <1>2, <1>3, <1>4, <1>5, <1>6, <1>7, <1>8, <1>9, <1>10 DEF Chat!TurnStep

\* Nothing but the sockets changes.
LEMMA TurnsRest ==
  ASSUME TurnInv, UNCHANGED <<active, gen, transcript, terminal, late>>
  PROVE  TurnInv'
  BY DEF TurnInv, TurnTypes, TurnOk, Stored, Told, Stops, Fresh, Counted, Chat!Started

\* Every step of the session keeps the invariant of its turns.
LEMMA TurnsKeep ==
  ASSUME TurnInv, [Chat!ChatNext]_Chat!chatVars
  PROVE  TurnInv'
  <1>1. CASE UNCHANGED Chat!chatVars
    BY <1>1, TurnsRest DEF Chat!chatVars
  <1>2. ASSUME NEW g \in Generations, Chat!TurnStep(g)
        PROVE  TurnInv'
    BY <1>2, TurnStepKeeps
  <1>3. ASSUME NEW q \in Queries, Chat!QueryAsks(q) \/ Chat!QueryAnswers(q)
        PROVE  TurnInv'
    <2>1. /\ \A role \in Roles : Chat!Message(q, role, FALSE) \in MsgRow
          /\ \A role \in Roles : Chat!Message(q, role, FALSE).turn = q
      BY DEF Chat!Message, MsgRow
    <2>2. /\ UNCHANGED <<active, gen, late, terminal>>
          /\ \/ UNCHANGED transcript
             \/ \E role \in Roles : transcript' = Append(transcript, Chat!Message(q, role, FALSE))
      BY <1>3 DEF Chat!QueryAsks, Chat!QueryAnswers, Roles
    <2>3. CASE UNCHANGED transcript
      BY <2>2, <2>3, TurnsRest
    <2>4. ASSUME NEW role \in Roles, transcript' = Append(transcript, Chat!Message(q, role, FALSE))
          PROVE  TurnInv'
      BY <2>1, <2>2, <2>4, QueryWrites
    <2>. QED  BY <2>2, <2>3, <2>4
  <1>4. ASSUME NEW k \in Sockets, Chat!UserMessage(k)
        PROVE  TurnInv'
    <2>1. PICK g \in Generations : Chat!StartTurn(g)
      BY <1>4 DEF Chat!UserMessage
    <2>2. UNCHANGED <<late, terminal, transcript>>
      BY <1>4 DEF Chat!UserMessage
    <2>. QED  BY <2>1, <2>2, TurnStarts
  <1>5. ASSUME NEW k \in Sockets, NEW redirect \in BOOLEAN, Chat!Interrupt(k, redirect)
        PROVE  TurnInv'
    BY <1>5, TurnCancelled DEF Chat!Interrupt, Chat!NoTurn
  <1>6. ASSUME NEW k \in Sockets, Chat!InterruptReturns(k)
        PROVE  TurnInv'
    <2>1. UNCHANGED <<late, terminal, transcript>>
      BY <1>6 DEF Chat!InterruptReturns
    <2>2. (\E g \in Generations : Chat!StartTurn(g)) \/ UNCHANGED <<active, gen>>
      BY <1>6 DEF Chat!InterruptReturns
    <2>. QED  BY <2>1, <2>2, TurnStarts, TurnsRest
  <1>7. ASSUME NEW k \in Sockets,
               \/ Chat!InterruptRaises(k) \/ Chat!Deliver(k) \/ Chat!Connect(k)
               \/ Chat!ReadHistory(k) \/ Chat!Snapshot(k) \/ Chat!Disconnect(k)
        PROVE  TurnInv'
    <2>1. UNCHANGED <<active, gen, transcript, terminal, late>>
      BY <1>7 DEF Chat!InterruptRaises, Chat!Deliver, Chat!Connect, Chat!ReadHistory,
                  Chat!Snapshot, Chat!Disconnect
    <2>. QED  BY <2>1, TurnsRest
  <1>8. CASE Chat!Shutdown
    BY <1>8, TurnCancelled DEF Chat!Shutdown, Chat!NoTurn
  <1>. QED  BY <1>1, <1>2, <1>3, <1>4, <1>5, <1>6, <1>7, <1>8, TurnsAssumption
            DEF Chat!ChatNext, Chat!ChatStep

\* The invariant of the turns holds in every behaviour.
LEMMA TurnInvariance == Chat!ChatSpec => []TurnInv
  <1>1. ASSUME Chat!ChatInit
        PROVE  TurnInv
    <2>1. /\ Chat!NotStarted \in GenRow /\ Chat!NotStarted.at = "none" /\ ~Chat!NotStarted.cancel
          /\ Chat!NotStarted.tokens = 0
      BY DEF Chat!NotStarted, GenRow, Over
    <2>2. <<>> \in Seq(MsgRow) /\ <<>> \in Seq(Ends) /\ Len(<<>>) = 0
      OBVIOUS
    <2>3. /\ active = 0 /\ transcript = <<>> /\ gen = [g \in Generations |-> Chat!NotStarted]
          /\ terminal = [g \in Generations |-> <<>>] /\ late = [g \in Generations |-> 0]
      BY <1>1 DEF Chat!ChatInit, Chat!NoTurn
    <2>4. TurnTypes
      BY <2>1, <2>2, <2>3 DEF TurnTypes
    <2>5. ASSUME NEW g \in Generations
          PROVE  TurnOk(g)
      <3>1. g # 0 /\ gen[g] = Chat!NotStarted /\ late[g] = 0 /\ terminal[g] = <<>>
        BY <2>3, TurnsAssumption
      <3>2. Silent(transcript, g)
        BY <2>2, <2>3 DEF Silent
      <3>3. Stored(gen[g], g, transcript)
        BY <2>1, <3>1, <3>2 DEF Stored, Asking
      <3>4. Told(gen[g], g, transcript, terminal[g])
        BY <2>1, <3>1 DEF Told
      <3>. QED  BY <2>1, <2>3, <3>1, <3>3, <3>4 DEF TurnOk, Over, Fresh, Stops
    <2>6. Orderly(transcript)
      BY <2>2, <2>3 DEF Orderly
    <2>7. Chat!Started = 1..0
      BY <2>1, <2>3 DEF Chat!Started
    <2>8. Counted
      BY <2>3, <2>7 DEF Counted
    <2>. QED  BY <2>4, <2>5, <2>6, <2>8 DEF TurnInv
  <1>. QED  BY <1>1, TurnsKeep, PTL DEF Chat!ChatSpec

\* start, interrupt, finally: whatever sockets start, interrupt and redirect, the
\* session has one turn at a time, an interrupt lets at most one more token
\* through, and a turn that ended gave its slot back.
THEOREM OneTurnAtATimeHolds == Chat!ChatSpec => []OneTurnAtATime
  <1>1. ASSUME TurnInv
        PROVE  OneTurnAtATime
    <2>0. transcript \in Seq(MsgRow) /\ DOMAIN transcript = 1..Len(transcript) /\ Orderly(transcript)
      BY <1>1 DEF TurnInv, TurnTypes
    <2>1. ASSUME NEW i \in DOMAIN transcript, transcript[i].turn \in Generations,
                 transcript[i].role = "assistant"
          PROVE  /\ Chat!Cardinality(Chat!MessagesOf(transcript[i].turn, "assistant")) = 1
                 /\ \E j \in Chat!MessagesOf(transcript[i].turn, "user") :
                      /\ j < i
                      /\ \A l \in j + 1..i - 1 : transcript[l].turn \notin Generations
      <3>. DEFINE g == transcript[i].turn
      <3>1. /\ \A l \in 1..Len(transcript) : IsAnswer(transcript[l], g) => l = i
            /\ AskedBefore(transcript, g, i)
        BY <2>0, <2>1 DEF Orderly
      <3>2. Chat!MessagesOf(g, "assistant") = {i}
        BY <2>0, <2>1, <3>1 DEF Chat!MessagesOf, IsAnswer
      <3>3. Cardinality({i}) = 1
        BY FS_Singleton
      <3>4. PICK j \in 1..i - 1 : /\ transcript[j].turn = g /\ transcript[j].role = "user"
                                  /\ \A l \in j + 1..i - 1 : transcript[l].turn \notin Generations
        BY <3>1 DEF AskedBefore
      <3>5. j \in Chat!MessagesOf(g, "user") /\ j < i
        BY <2>0, <2>1, <3>4 DEF Chat!MessagesOf
      <3>. QED  BY <3>2, <3>3, <3>4, <3>5, SameCardinality
    <2>2. Chat!TurnsDoNotOverlap
      BY <2>1 DEF Chat!TurnsDoNotOverlap
    <2>3. Chat!InterruptStops
      BY <1>1 DEF TurnInv, TurnOk, Stops, Chat!InterruptStops
    <2>4. Chat!SlotIsLive
      BY <1>1 DEF TurnInv, TurnTypes, TurnOk, Over, Chat!SlotIsLive, Chat!NoTurn
    <2>. QED  BY <2>2, <2>3, <2>4 DEF OneTurnAtATime, Chat!OneTurnAtATime
  <1>. QED  BY <1>1, TurnInvariance, PTL

\* _run, _complete_turn, _persist_interrupted: a turn publishes at most one
\* terminal event, and what it announces is what the transcript holds.
THEOREM ToldIsStoredHolds == Chat!ChatSpec => []ToldIsStored
  <1>1. ASSUME TurnInv
        PROVE  ToldIsStored
    <2>0. transcript \in Seq(MsgRow) /\ DOMAIN transcript = 1..Len(transcript)
      BY <1>1 DEF TurnInv, TurnTypes
    <2>1. ASSUME NEW g \in Generations, terminal[g] # <<>>
          PROVE  /\ Len(terminal[g]) = 1 /\ (terminal[g][1] = "generation_completed" => Whole(transcript, g))
                 /\ terminal[g][1] = "generation_interrupted" => ~Whole(transcript, g)
      BY <1>1, <2>1 DEF TurnInv, TurnOk, Told
    <2>2. ASSUME NEW g \in Generations
          PROVE  {i \in Chat!MessagesOf(g, "assistant") : ~transcript[i].interrupted} # {}
                   <=> Whole(transcript, g)
      BY <2>0 DEF Chat!MessagesOf, Whole, IsAnswer
    <2>. QED  BY <2>1, <2>2 DEF ToldIsStored, Chat!ToldIsStored
  <1>. QED  BY <1>1, TurnInvariance, PTL

-----------------------------------------------------------------------------
(* The panels.  What a panel has not seen of a turn it may show is still   *)
(* in its queue, in order, and no token follows the end of its turn.       *)

EventRow == [kind: Ends \cup {"token_chunk"}, turn: Generations, n: Nat]
SockRow  == [at: {"closed", "subscribed", "read", "refreshing", "open"}, queue: Seq(EventRow),
             from: Nat, history: Nat, missed: Int, waits: Generations \cup {0}, redirect: BOOLEAN,
             draft: [Generations -> Seq(Nat)], seen: [Generations -> Nat]]

IsToken(e, g) == e.kind = "token_chunk" /\ e.turn = g

\* The tokens of a turn published so far.
SentBy(r) == IF r.at = "publishing" THEN r.tokens - 1 ELSE r.tokens

\* A queued event is of a turn that got that far.
Happened(e) ==
  /\ gen[e.turn].at # "none"
  /\ IF e.kind = "token_chunk" THEN e.n <= gen[e.turn].tokens ELSE gen[e.turn].at = "done"

EndIsLast(q) ==
  \A i, j \in 1..Len(q) : i < j /\ q[i].kind # "token_chunk" => ~IsToken(q[j], q[i].turn)

QueueOk(q) == (\A i \in 1..Len(q) : Happened(q[i])) /\ EndIsLast(q)

\* The first n tokens are there, and those queued continue them.
FirstOnes(n) == [i \in 1..n |-> i]
Feeds(q, n, g) ==
  \A i \in 1..Len(q) : IsToken(q[i], g) =>
    q[i].n <= n + 1 \/ \E j \in 1..i - 1 : IsToken(q[j], g) /\ q[i].n = q[j].n + 1
Reaches(q, n, g) ==
  gen[g].at \notin Over =>
    \/ SentBy(gen[g]) <= n
    \/ \E i \in 1..Len(q) : IsToken(q[i], g) /\ q[i].n = SentBy(gen[g])

Shows(k, c) ==
  \A g \in Generations : g >= c.from =>
    /\ c.draft[g] = FirstOnes(c.seen[g]) /\ Feeds(c.queue, c.seen[g], g)
    /\ k \in Watchers => Reaches(c.queue, c.seen[g], g)

PanelOk(k, c) ==
  /\ c \in SockRow /\ QueueOk(c.queue)
  /\ k \notin Watchers \/ c.at = "closed" => c.queue = <<>>
  /\ c.at \in {"refreshing", "open"} => Shows(k, c)
  /\ c.at = "open" => c.missed = 0

PanelInv == socket \in [Sockets -> SockRow] /\ \A k \in Sockets : PanelOk(k, socket[k])

\* What every step does to a turn, and what a step may do without telling the
\* panels.
Grows(g) ==
  /\ gen[g].at # "none" => gen'[g].at # "none"
  /\ gen[g].tokens <= gen'[g].tokens
  /\ gen[g].at = "done" => gen'[g].at = "done"
Quiet(g) ==
  /\ Grows(g)
  /\ gen'[g].at \notin Over =>
       (gen[g].at \notin Over /\ SentBy(gen'[g]) = SentBy(gen[g])) \/ SentBy(gen'[g]) = 0

\* What happened stays so.
LEMMA HappenedStays ==
  ASSUME TurnTypes, TurnTypes', \A g \in Generations : Grows(g), NEW q \in Seq(EventRow), QueueOk(q)
  PROVE  QueueOk(q)'
  <1>1. ASSUME NEW i \in 1..Len(q)
        PROVE  Happened(q[i])'
    <2>1. q[i] \in EventRow
      OBVIOUS
    <2>2. PICK e \in EventRow : e = q[i]
      BY <2>1
    <2>3. Happened(e) /\ e.turn \in Generations /\ e.n \in Nat
      BY <2>2 DEF QueueOk, EventRow
    <2>4. gen[e.turn].tokens \in Nat /\ gen'[e.turn].tokens \in Nat
      BY <2>3 DEF TurnTypes, GenRow
    <2>5. Happened(e)'
      BY <2>3, <2>4 DEF Happened, Grows
    <2>. QED  BY <2>2, <2>5
  <1>. QED  BY <1>1 DEF QueueOk, EndIsLast

\* A panel is as right as it was when its queue, its draft and its place stay.
LEMMA PanelStays ==
  ASSUME TurnTypes, TurnTypes', \A g \in Generations : Quiet(g), NEW k \in Sockets, NEW c, NEW d,
         PanelOk(k, c), d \in SockRow, d.at = c.at, d.queue = c.queue, d.from = c.from,
         d.missed = c.missed, d.draft = c.draft, d.seen = c.seen
  PROVE  PanelOk(k, d)'
  <1>1. QueueOk(d.queue)'
    BY HappenedStays DEF PanelOk, SockRow, Quiet
  <1>2. ASSUME c.at \in {"refreshing", "open"}, NEW g \in Generations, g >= c.from
        PROVE  /\ d.draft[g] = FirstOnes(d.seen[g]) /\ Feeds(d.queue, d.seen[g], g)
               /\ k \in Watchers => Reaches(d.queue, d.seen[g], g)'
    <2>1. /\ d.draft[g] = FirstOnes(d.seen[g]) /\ Feeds(d.queue, d.seen[g], g)
          /\ k \in Watchers => Reaches(d.queue, d.seen[g], g)
      BY <1>2 DEF PanelOk, Shows
    <2>2. d.seen[g] \in Nat /\ Quiet(g)
      BY DEF SockRow
    <2>. QED  BY <2>1, <2>2 DEF Reaches, Quiet
  <1>3. c.at \in {"refreshing", "open"} => Shows(k, d)'
    BY <1>2 DEF Shows
  <1>. QED  BY <1>1, <1>3 DEF PanelOk

\* A step of the turns that publishes nothing.
LEMMA PanelsStay ==
  ASSUME PanelInv, TurnTypes, TurnTypes', \A g \in Generations : Quiet(g), UNCHANGED socket
  PROVE  PanelInv'
  <1>1. ASSUME NEW k \in Sockets
        PROVE  PanelOk(k, socket[k])'
    <2>1. PanelOk(k, socket[k]) /\ socket[k] \in SockRow
      BY DEF PanelInv
    <2>2. PICK c : c = socket[k]
      OBVIOUS
    <2>3. PanelOk(k, c)'
      BY <2>1, <2>2, PanelStays
    <2>. QED  BY <2>2, <2>3
  <1>. QED  BY <1>1 DEF PanelInv

\* The running turn moves and publishes nothing new.
LEMMA RunsQuietly ==
  ASSUME TurnInv, NEW g \in Generations, gen[g].at \notin Over, NEW y \in GenRow,
         gen' = [gen EXCEPT ![g] = y], y.at # "none", gen[g].tokens <= y.tokens,
         y.at \notin Over => SentBy(y) = SentBy(gen[g])
  PROVE  \A h \in Generations : Quiet(h)
  <1>1. gen \in [Generations -> GenRow] /\ \A h \in Generations : gen[h].tokens \in Nat
    BY DEF TurnInv, TurnTypes, GenRow
  <1>2. gen'[g] = y /\ \A h \in Generations \ {g} : gen'[h] = gen[h]
    BY <1>1
  <1>3. Quiet(g)
    BY <1>2 DEF Quiet, Grows, Over
  <1>4. ASSUME NEW h \in Generations \ {g}
        PROVE  Quiet(h)
    BY <1>1, <1>2 DEF Quiet, Grows
  <1>. QED  BY <1>3, <1>4

LEMMA GoesQuietly ==
  ASSUME TurnInv, NEW g \in Generations, NEW from, NEW to, Chat!Goes(g, from, to),
         [gen[g] EXCEPT !.at = to] \in GenRow, from \notin Over, to # "none",
         from # "publishing", to # "publishing"
  PROVE  \A h \in Generations : Quiet(h)
  <1>. DEFINE y == Moved(g, to)
  <1>1. /\ gen[g].at = from /\ gen' = [gen EXCEPT ![g] = y] /\ y \in GenRow
        /\ y.at = to /\ y.tokens = gen[g].tokens
    BY GoesRow
  <1>2. gen[g].tokens \in Nat
    BY DEF TurnInv, TurnTypes, GenRow
  <1>. HIDE DEF y
  <1>3. SentBy(y) = SentBy(gen[g]) /\ gen[g].tokens <= y.tokens
    BY <1>1, <1>2 DEF SentBy
  <1>. QED  BY <1>1, <1>3, RunsQuietly

\* A turn that starts has published nothing.
LEMMA StartsQuietly ==
  ASSUME TurnInv, NEW g \in Generations, Chat!StartTurn(g), gen[g].at = "none"
  PROVE  \A h \in Generations : Quiet(h)
  <1>. DEFINE x == gen[g]
              y == [x EXCEPT !.at = "preparing"]
  <1>1. gen \in [Generations -> GenRow] /\ \A h \in Generations : gen[h].tokens \in Nat
    BY DEF TurnInv, TurnTypes, GenRow
  <1>2. gen' = [gen EXCEPT ![g] = y] /\ TurnOk(g)
    BY <1>1 DEF Chat!StartTurn, TurnInv
  <1>3. y.at = "preparing" /\ y.tokens = 0 /\ x.tokens = 0
    BY <1>1, <1>2 DEF GenRow, TurnOk, Fresh
  <1>. HIDE DEF y
  <1>4. gen'[g] = y /\ \A h \in Generations \ {g} : gen'[h] = gen[h]
    BY <1>1, <1>2
  <1>5. Quiet(g)
    BY <1>3, <1>4 DEF Quiet, Grows, SentBy
  <1>6. ASSUME NEW h \in Generations \ {g}
        PROVE  Quiet(h)
    BY <1>1, <1>4 DEF Quiet, Grows
  <1>. QED  BY <1>5, <1>6

\* What an event at the end of a queue changes.
LEMMA EventAppended ==
  ASSUME NEW q \in Seq(EventRow), NEW e \in EventRow
  PROVE  /\ Append(q, e) \in Seq(EventRow) /\ Len(q) \in Nat /\ Append(q, e)[Len(q) + 1] = e
         /\ \A i \in 1..Len(q) : Append(q, e)[i] = q[i]
         /\ Len(Append(q, e)) = Len(q) + 1
         /\ 1..Len(Append(q, e)) = 1..Len(q) \cup {Len(q) + 1}
  OBVIOUS

LEMMA FeedsGrow ==
  ASSUME NEW q \in Seq(EventRow), NEW e \in EventRow, NEW n, NEW g, Feeds(q, n, g),
         IsToken(e, g) => e.n <= n + 1 \/ \E j \in 1..Len(q) : IsToken(q[j], g) /\ e.n = q[j].n + 1
  PROVE  Feeds(Append(q, e), n, g)
  <1>. DEFINE u == Append(q, e)
              last == Len(q) + 1
  <1>1. /\ Len(q) \in Nat /\ u[last] = e /\ \A i \in 1..Len(q) : u[i] = q[i]
        /\ 1..Len(u) = 1..Len(q) \cup {last}
    BY EventAppended
  <1>. HIDE DEF u
  <1>2. ASSUME NEW i \in 1..Len(u), IsToken(u[i], g)
        PROVE  u[i].n <= n + 1 \/ \E j \in 1..i - 1 : IsToken(u[j], g) /\ u[i].n = u[j].n + 1
    <2>1. CASE i \in 1..Len(q)
      <3>1. u[i] = q[i] /\ \A j \in 1..i - 1 : u[j] = q[j]
        BY <1>1, <2>1
      <3>. QED  BY <1>2, <2>1, <3>1 DEF Feeds
    <2>2. CASE i = last
      <3>1. u[i] = e /\ 1..i - 1 = 1..Len(q)
        BY <1>1, <2>2
      <3>. QED  BY <1>1, <1>2, <3>1
    <2>. QED  BY <1>1, <2>1, <2>2
  <1>3. Feeds(u, n, g)
    BY <1>2 DEF Feeds
  <1>. QED  BY <1>3 DEF u

\* A token that continues what a panel knows of, or the end of a turn, joins the
\* queue of a panel.
LEMMA EventJoins ==
  ASSUME TurnTypes, TurnTypes', NEW k \in Watchers, NEW c, NEW d, NEW e \in EventRow, PanelOk(k, c),
         c.at # "closed", d \in SockRow, d.at = c.at, d.queue = Append(c.queue, e), d.from = c.from,
         d.missed = c.missed, d.draft = c.draft, d.seen = c.seen,
         \A g \in Generations : Grows(g), \A g \in Generations \ {e.turn} : Quiet(g),
         Happened(e)', gen[e.turn].at # "done",
         IF e.kind = "token_chunk"
         THEN gen[e.turn].at \notin Over /\ SentBy(gen[e.turn]) = e.n - 1 /\ SentBy(gen'[e.turn]) = e.n
         ELSE gen'[e.turn].at = "done"
  PROVE  PanelOk(k, d)'
  <1>. DEFINE q == c.queue
              u == d.queue
              last == Len(q) + 1
  <1>0. q \in Seq(EventRow) /\ QueueOk(q) /\ e.turn \in Generations /\ e.n \in Nat
    BY DEF PanelOk, SockRow, EventRow
  <1>1. /\ u \in Seq(EventRow) /\ Len(q) \in Nat /\ u[last] = e /\ \A i \in 1..Len(q) : u[i] = q[i]
        /\ 1..Len(u) = 1..Len(q) \cup {last} /\ Len(u) = last
    BY <1>0, EventAppended
  <1>2. QueueOk(q)'
    BY <1>0, HappenedStays
  <1>. HIDE DEF q, u
  <1>3. QueueOk(u)'
    <2>1. \A i \in 1..Len(u) : Happened(u[i])'
      BY <1>1, <1>2 DEF QueueOk
    <2>2. ASSUME NEW i \in 1..Len(u), NEW j \in 1..Len(u), i < j, u[i].kind # "token_chunk"
          PROVE  ~IsToken(u[j], u[i].turn)
      <3>1. i \in 1..Len(q) /\ u[i] = q[i] /\ Happened(q[i])
        BY <1>0, <1>1, <2>2 DEF QueueOk
      <3>2. CASE j = last
        <4>1. gen[q[i].turn].at = "done"
          BY <2>2, <3>1 DEF Happened
        <4>. QED  BY <1>1, <3>1, <3>2, <4>1 DEF IsToken
      <3>3. CASE j \in 1..Len(q)
        BY <1>0, <1>1, <2>2, <3>1, <3>3 DEF QueueOk, EndIsLast
      <3>. QED  BY <1>1, <3>2, <3>3
    <2>3. EndIsLast(u)
      BY <2>2 DEF EndIsLast
    <2>. QED  BY <2>1, <2>3 DEF QueueOk, EndIsLast
  <1>4. ASSUME c.at \in {"refreshing", "open"}, NEW g \in Generations, g >= c.from
        PROVE  /\ d.draft[g] = FirstOnes(d.seen[g]) /\ Feeds(u, d.seen[g], g)
               /\ Reaches(u, d.seen[g], g)'
    <2>. DEFINE n == d.seen[g]
    <2>0. /\ d.draft[g] = FirstOnes(n) /\ Feeds(q, n, g) /\ Reaches(q, n, g) /\ n \in Nat
      BY <1>4 DEF PanelOk, Shows, SockRow, q
    <2>. HIDE DEF n
    <2>1. CASE IsToken(e, g)
      <3>1. /\ gen[g].at \notin Over /\ SentBy(gen[g]) = e.n - 1 /\ SentBy(gen'[g]) = e.n
            /\ e.turn = g
        BY <2>1 DEF IsToken
      <3>2. e.n <= n + 1 \/ \E j \in 1..Len(q) : IsToken(q[j], g) /\ e.n = q[j].n + 1
        <4>1. CASE SentBy(gen[g]) <= n
          BY <1>0, <2>0, <3>1, <4>1
        <4>2. ASSUME NEW j \in 1..Len(q), IsToken(q[j], g), q[j].n = SentBy(gen[g])
              PROVE  IsToken(q[j], g) /\ e.n = q[j].n + 1
          BY <1>0, <3>1, <4>2
        <4>. QED  BY <2>0, <3>1, <4>1, <4>2 DEF Reaches
      <3>3. Feeds(u, n, g)
        BY <1>0, <2>0, <3>2, FeedsGrow DEF q, u
      <3>4. Reaches(u, n, g)'
        BY <1>1, <2>1, <3>1 DEF Reaches
      <3>. QED  BY <2>0, <3>3, <3>4 DEF n
    <2>2. CASE ~IsToken(e, g)
      <3>1. Feeds(u, n, g)
        BY <1>0, <2>0, <2>2, FeedsGrow DEF q, u
      <3>2. Reaches(u, n, g)'
        <4>1. CASE g = e.turn
          <5>1. gen'[g].at = "done"
            BY <2>2, <4>1 DEF IsToken
          <5>. QED  BY <5>1 DEF Reaches, Over
        <4>2. CASE g # e.turn
          <5>1. Quiet(g)
            BY <4>2
          <5>2. Reaches(q, n, g)'
            BY <2>0, <5>1 DEF Reaches, Quiet
          <5>. QED  BY <1>1, <5>2 DEF Reaches
        <4>. QED  BY <4>1, <4>2
      <3>. QED  BY <2>0, <3>1, <3>2 DEF n
    <2>. QED  BY <2>1, <2>2
  <1>5. c.at \in {"refreshing", "open"} => Shows(k, d)'
    BY <1>4 DEF Shows, u
  <1>6. k \in Watchers /\ d.at # "closed" /\ (d.at = "open" => d.missed = 0)
    BY DEF PanelOk
  <1>. QED  BY <1>3, <1>5, <1>6 DEF PanelOk, u

\* bus.publish: a token or the end of a turn reaches every connected panel.
LEMMA PublishReaches ==
  ASSUME PanelInv, TurnTypes, TurnTypes', NEW e \in EventRow, socket' = Chat!Published(socket, e),
         \A g \in Generations : Grows(g), \A g \in Generations \ {e.turn} : Quiet(g),
         Happened(e)', gen[e.turn].at # "done",
         IF e.kind = "token_chunk"
         THEN gen[e.turn].at \notin Over /\ SentBy(gen[e.turn]) = e.n - 1 /\ SentBy(gen'[e.turn]) = e.n
         ELSE gen'[e.turn].at = "done"
  PROVE  PanelInv'
  <1>1. ASSUME NEW k \in Sockets
        PROVE  socket'[k] \in SockRow /\ PanelOk(k, socket[k])'
    <2>. DEFINE c == socket[k]
    <2>0. PanelOk(k, c) /\ c \in SockRow /\ c.queue \in Seq(EventRow)
      BY DEF PanelInv, SockRow
    <2>1. CASE Chat!Subscribed(k)
      <3>. DEFINE u == Append(c.queue, e)
                  y == [c EXCEPT !.queue = u]
      <3>1. socket'[k] = y
        BY <2>1 DEF Chat!Published
      <3>2. u \in Seq(EventRow)
        BY <2>0, EventAppended
      <3>3. PICK v : v = u
        OBVIOUS
      <3>4. y = [c EXCEPT !.queue = v]
        BY <3>3
      <3>. HIDE DEF u, y
      <3>5. /\ y \in SockRow /\ y.at = c.at /\ y.queue = v /\ y.from = c.from /\ y.missed = c.missed
            /\ y.draft = c.draft /\ y.seen = c.seen
        BY <2>0, <3>2, <3>3, <3>4 DEF SockRow
      <3>6. k \in Watchers /\ c.at # "closed"
        BY <2>1 DEF Chat!Subscribed
      <3>7. PICK x, d : x = c /\ d = y
        OBVIOUS
      <3>8. /\ PanelOk(k, x) /\ x.at # "closed" /\ d \in SockRow /\ d.at = x.at
            /\ d.queue = Append(x.queue, e) /\ d.from = x.from /\ d.missed = x.missed
            /\ d.draft = x.draft /\ d.seen = x.seen
        BY <2>0, <3>3, <3>5, <3>6, <3>7 DEF u
      <3>9. PanelOk(k, d)'
        BY <3>6, <3>8, EventJoins
      <3>. QED  BY <3>1, <3>5, <3>7, <3>9
    <2>2. CASE ~Chat!Subscribed(k)
      <3>1. socket'[k] = c
        BY <2>2 DEF Chat!Published
      <3>2. c.queue = <<>> /\ (k \notin Watchers \/ c.at = "closed")
        BY <2>0, <2>2 DEF Chat!Subscribed, PanelOk
      <3>3. PICK d : d = c
        OBVIOUS
      <3>4. QueueOk(d.queue)'
        BY <3>2, <3>3 DEF QueueOk, EndIsLast
      <3>5. d.at \in {"refreshing", "open"} => Shows(k, d)'
        BY <2>0, <3>2, <3>3 DEF PanelOk, Shows
      <3>6. PanelOk(k, d)'
        BY <2>0, <3>2, <3>3, <3>4, <3>5 DEF PanelOk
      <3>. QED  BY <2>0, <3>1, <3>3, <3>6
    <2>. QED  BY <2>1, <2>2
  <1>2. socket' \in [Sockets -> SockRow]
    BY <1>1 DEF Chat!Published
  <1>. QED  BY <1>1, <1>2 DEF PanelInv

\* What the loss of its first event changes in a queue.
LEMMA EventTaken ==
  ASSUME NEW q \in Seq(EventRow), q # <<>>
  PROVE  /\ Tail(q) \in Seq(EventRow) /\ Head(q) = q[1] /\ q[1] \in EventRow /\ Len(q) \in Nat
         /\ Len(Tail(q)) = Len(q) - 1 /\ Len(q) >= 1
         /\ \A i \in 1..Len(Tail(q)) : Tail(q)[i] = q[i + 1]
  OBVIOUS

\* The rest of a queue is as well ordered, and continues what a panel has once
\* the first event is taken into account.
LEMMA RestIsOk ==
  ASSUME NEW q \in Seq(EventRow), q # <<>>, QueueOk(q)
  PROVE  /\ QueueOk(Tail(q)) /\ Happened(Head(q))
         /\ \A g : Head(q).kind # "token_chunk" /\ Head(q).turn = g =>
              \A i \in 1..Len(Tail(q)) : ~IsToken(Tail(q)[i], g)
  <1>. DEFINE u == Tail(q)
  <1>1. /\ Head(q) = q[1] /\ Len(q) \in Nat /\ Len(u) = Len(q) - 1 /\ Len(q) >= 1
        /\ \A i \in 1..Len(u) : u[i] = q[i + 1]
    BY EventTaken
  <1>. HIDE DEF u
  <1>2. \A i \in 1..Len(u) : i + 1 \in 1..Len(q) /\ 1 < i + 1
    BY <1>1
  <1>3. QueueOk(u)
    <2>1. \A i \in 1..Len(u) : Happened(u[i])
      BY <1>1, <1>2 DEF QueueOk
    <2>2. ASSUME NEW i \in 1..Len(u), NEW j \in 1..Len(u), i < j, u[i].kind # "token_chunk"
          PROVE  ~IsToken(u[j], u[i].turn)
      <3>1. u[i] = q[i + 1] /\ u[j] = q[j + 1] /\ i + 1 < j + 1
        BY <1>1, <2>2
      <3>. QED  BY <1>2, <2>2, <3>1 DEF QueueOk, EndIsLast
    <2>. QED  BY <2>1, <2>2 DEF QueueOk, EndIsLast
  <1>4. 1 \in 1..Len(q)
    BY <1>1
  <1>5. Happened(q[1])
    BY <1>4 DEF QueueOk
  <1>6. ASSUME NEW g, q[1].kind # "token_chunk", q[1].turn = g, NEW i \in 1..Len(u)
        PROVE  ~IsToken(u[i], g)
    BY <1>1, <1>2, <1>4, <1>6 DEF QueueOk, EndIsLast
  <1>. QED  BY <1>1, <1>3, <1>5, <1>6 DEF u

LEMMA RestFeeds ==
  ASSUME NEW q \in Seq(EventRow), q # <<>>, NEW n \in Nat, NEW m \in Nat, n <= m, NEW g,
         SentBy(gen[g]) \in Int, Feeds(q, n, g), IsToken(Head(q), g) => Head(q).n <= m
  PROVE  Feeds(Tail(q), m, g) /\ (Reaches(q, n, g) => Reaches(Tail(q), m, g))
  <1>. DEFINE u == Tail(q)
  <1>1. /\ Head(q) = q[1] /\ Len(q) \in Nat /\ Len(u) = Len(q) - 1 /\ Len(q) >= 1
        /\ \A i \in 1..Len(u) : u[i] = q[i + 1]
        /\ u \in Seq(EventRow)
    BY EventTaken
  <1>2. \A i \in 1..Len(q) : q[i].n \in Nat
    <2>1. \A i \in 1..Len(q) : q[i] \in EventRow
      OBVIOUS
    <2>2. \A e \in EventRow : e.n \in Nat
      BY DEF EventRow
    <2>. QED  BY <2>1, <2>2
  <1>. HIDE DEF u
  <1>3. ASSUME NEW i \in 1..Len(u), IsToken(u[i], g)
        PROVE  u[i].n <= m + 1 \/ \E j \in 1..i - 1 : IsToken(u[j], g) /\ u[i].n = u[j].n + 1
    <2>1. u[i] = q[i + 1] /\ i + 1 \in 1..Len(q)
      BY <1>1
    <2>2. CASE q[i + 1].n <= n + 1
      BY <1>2, <2>1, <2>2
    <2>3. ASSUME NEW j \in 1..i, IsToken(q[j], g), q[i + 1].n = q[j].n + 1
          PROVE  u[i].n <= m + 1 \/ \E l \in 1..i - 1 : IsToken(u[l], g) /\ u[i].n = u[l].n + 1
      <3>1. CASE j = 1
        BY <1>1, <1>2, <2>1, <2>3, <3>1
      <3>2. CASE j # 1
        <4>1. j - 1 \in 1..i - 1 /\ j - 1 \in 1..Len(u) /\ (j - 1) + 1 = j
          BY <1>1, <3>2
        <4>2. u[j - 1] = q[j]
          BY <1>1, <4>1
        <4>. QED  BY <2>1, <2>3, <4>1, <4>2
      <3>. QED  BY <3>1, <3>2
    <2>4. (i + 1) - 1 = i
      BY <1>1
    <2>. QED  BY <1>3, <2>1, <2>2, <2>3, <2>4 DEF Feeds
  <1>4. Feeds(u, m, g)
    BY <1>3 DEF Feeds
  <1>5. ASSUME Reaches(q, n, g), gen[g].at \notin Over, ~(SentBy(gen[g]) <= m)
        PROVE  \E i \in 1..Len(u) : IsToken(u[i], g) /\ u[i].n = SentBy(gen[g])
    <2>1. CASE SentBy(gen[g]) <= n
      BY <1>5, <2>1
    <2>2. ASSUME NEW i \in 1..Len(q), IsToken(q[i], g), q[i].n = SentBy(gen[g])
          PROVE  \E l \in 1..Len(u) : IsToken(u[l], g) /\ u[l].n = SentBy(gen[g])
      <3>1. i # 1
        BY <1>1, <1>5, <2>2
      <3>2. i - 1 \in 1..Len(u) /\ (i - 1) + 1 = i
        BY <1>1, <3>1
      <3>. QED  BY <1>1, <2>2, <3>2
    <2>. QED  BY <1>5, <2>1, <2>2 DEF Reaches
  <1>. QED  BY <1>4, <1>5 DEF Reaches, u

\* The first n tokens and the next one.
LEMMA OneMore ==
  ASSUME NEW n \in Nat
  PROVE  /\ Append(FirstOnes(n), n + 1) = FirstOnes(n + 1) /\ FirstOnes(n) \in Seq(Nat)
         /\ Len(FirstOnes(n)) = n
  BY DEF FirstOnes

\* A step of one socket, the turns at rest.
LEMMA OneSocket ==
  ASSUME PanelInv, NEW k \in Sockets, NEW y \in SockRow, socket' = [socket EXCEPT ![k] = y],
         UNCHANGED gen, PanelOk(k, y)
  PROVE  PanelInv'
  <1>1. /\ socket' \in [Sockets -> SockRow] /\ socket'[k] = y
        /\ \A l \in Sockets \ {k} : socket'[l] = socket[l]
    BY DEF PanelInv
  <1>2. ASSUME NEW l \in Sockets, NEW c, c = socket'[l]
        PROVE  PanelOk(l, c)'
    <2>1. PanelOk(l, c)
      BY <1>1, <1>2 DEF PanelInv
    <2>. QED  BY <2>1 DEF PanelOk, QueueOk, Happened, EndIsLast, Shows, Reaches
  <1>. QED  BY <1>1, <1>2 DEF PanelInv

\* handleSocketEvent: a token is the next one or known, and a turn's end clears
\* its draft.
LEMMA DeliverStep ==
  ASSUME PanelInv, TurnInv, NEW k \in Sockets, Chat!Deliver(k)
  PROVE  PanelInv'
  <1>. DEFINE c == socket[k]
              q == c.queue
              e == Head(q)
              u == Tail(q)
              g == e.turn
              rest == [c EXCEPT !.queue = u]
  <1>0. /\ PanelOk(k, c) /\ c \in SockRow /\ q \in Seq(EventRow) /\ q # <<>> /\ c.at = "open"
        /\ UNCHANGED gen /\ QueueOk(q) /\ Shows(k, c)
        /\ \A h \in Generations : c.seen[h] \in Nat /\ SentBy(gen[h]) \in Int
        /\ c.seen \in [Generations -> Nat] /\ c.draft \in [Generations -> Seq(Nat)]
    <2>1. PanelOk(k, c) /\ q # <<>> /\ c.at = "open" /\ UNCHANGED gen
      BY DEF PanelInv, Chat!Deliver
    <2>2. c \in SockRow /\ QueueOk(q) /\ Shows(k, c)
      BY <2>1 DEF PanelOk
    <2>3. /\ q \in Seq(EventRow) /\ c.seen \in [Generations -> Nat]
          /\ c.draft \in [Generations -> Seq(Nat)]
      BY <2>2 DEF SockRow
    <2>4. \A h \in Generations : SentBy(gen[h]) \in Int
      BY DEF TurnInv, TurnTypes, GenRow, SentBy
    <2>. QED  BY <2>1, <2>2, <2>3, <2>4
  <1>1. /\ u \in Seq(EventRow) /\ e \in EventRow /\ e = q[1]
    BY <1>0, EventTaken
  <1>2. QueueOk(u) /\ Happened(e) /\
        (e.kind # "token_chunk" => \A i \in 1..Len(u) : ~IsToken(u[i], g))
    BY <1>0, RestIsOk
  <1>3. g \in Generations /\ e.n \in Nat /\ e.kind \in Ends \cup {"token_chunk"}
    BY <1>1 DEF EventRow
  <1>4. ASSUME NEW h \in Generations, h >= c.from, NEW m \in Nat, c.seen[h] <= m,
               IsToken(e, h) => e.n <= m
        PROVE  Feeds(u, m, h) /\ (k \in Watchers => Reaches(u, m, h))
    BY <1>0, <1>4, RestFeeds DEF Shows
  <1>5. \A h \in Generations : h >= c.from =>
          c.draft[h] = FirstOnes(c.seen[h]) /\ Feeds(q, c.seen[h], h)
    BY <1>0 DEF Shows
  <1>6. PICK v : v = u
    OBVIOUS
  <1>7. rest = [c EXCEPT !.queue = v]
    BY <1>6
  <1>8. socket' = [socket EXCEPT ![k] =
          CASE e.kind = "token_chunk" /\ Chat!IsNew(k, e) ->
                 [rest EXCEPT !.seen[g] = e.n, !.draft[g] = Append(@, e.n)]
            [] e.kind \in {"generation_completed", "generation_interrupted"} ->
                 [rest EXCEPT !.seen[g] = 0, !.draft[g] = <<>>]
            [] OTHER -> rest]
    BY DEF Chat!Deliver
  <1>. HIDE DEF rest, u, e, g
  <1>9. /\ rest \in SockRow /\ rest.at = c.at /\ rest.queue = v /\ rest.from = c.from
        /\ rest.missed = c.missed /\ rest.draft = c.draft /\ rest.seen = c.seen
    BY <1>0, <1>1, <1>6, <1>7 DEF SockRow
  <1>10. c.missed = 0 /\ (k \notin Watchers => FALSE)
    BY <1>0 DEF PanelOk
  <1>11. CASE e.kind = "token_chunk" /\ Chat!IsNew(k, e)
    <2>. DEFINE more == Append(c.draft[g], e.n)
                s1 == [c.seen EXCEPT ![g] = e.n]
                d1 == [c.draft EXCEPT ![g] = more]
                y == [rest EXCEPT !.seen = s1, !.draft = d1]
    <2>1. socket' = [socket EXCEPT ![k] = y]
      BY <1>3, <1>8, <1>9, <1>11
    <2>2. more \in Seq(Nat)
      BY <1>0, <1>3
    <2>. HIDE DEF more
    <2>3. /\ s1 \in [Generations -> Nat] /\ d1 \in [Generations -> Seq(Nat)]
          /\ s1[g] = e.n /\ d1[g] = more
          /\ \A h \in Generations \ {g} : s1[h] = c.seen[h] /\ d1[h] = c.draft[h]
      BY <1>0, <1>3, <2>2
    <2>. HIDE DEF s1, d1
    <2>4. /\ y \in SockRow /\ y.at = "open" /\ y.queue = u /\ y.from = c.from /\ y.missed = 0
          /\ y.draft = d1 /\ y.seen = s1
      BY <1>0, <1>6, <1>9, <1>10, <2>3 DEF SockRow
    <2>. HIDE DEF y
    <2>5. ASSUME NEW h \in Generations, h >= c.from
          PROVE  /\ d1[h] = FirstOnes(s1[h]) /\ Feeds(u, s1[h], h)
                 /\ k \in Watchers => Reaches(u, s1[h], h)
      <3>1. CASE h = g
        <4>1. e.n > c.seen[g]
          BY <1>11 DEF Chat!IsNew, g
        <4>2. e.n <= c.seen[g] + 1
          <5>1. 1 \in 1..Len(q) /\ IsToken(q[1], g) /\ 1..1 - 1 = {}
            BY <1>0, <1>1, <1>11 DEF IsToken, g
          <5>. QED  BY <1>1, <1>5, <2>5, <3>1, <5>1 DEF Feeds
        <4>3. e.n = c.seen[g] + 1 /\ c.seen[g] \in Nat
          <5>1. PICK s0 \in Nat : s0 = c.seen[g]
            BY <1>0, <1>3
          <5>2. e.n > s0 /\ e.n <= s0 + 1 /\ e.n \in Nat
            BY <1>3, <4>1, <4>2, <5>1
          <5>3. e.n = s0 + 1
            BY <5>2
          <5>. QED  BY <5>1, <5>3
        <4>4. more = FirstOnes(e.n)
          <5>1. more = Append(FirstOnes(c.seen[g]), c.seen[g] + 1)
            BY <1>5, <2>5, <3>1, <4>3 DEF more
          <5>. QED  BY <4>3, <5>1, OneMore
        <4>5. Feeds(u, e.n, g) /\ (k \in Watchers => Reaches(u, e.n, g))
          BY <1>3, <1>4, <2>5, <3>1, <4>3
        <4>. QED  BY <2>3, <3>1, <4>4, <4>5
      <3>2. CASE h # g
        <4>1. ~IsToken(e, h) /\ c.seen[h] \in Nat /\ s1[h] = c.seen[h] /\ d1[h] = c.draft[h]
          BY <1>0, <2>3, <3>2 DEF IsToken, g
        <4>. QED  BY <1>4, <1>5, <2>5, <4>1
      <3>. QED  BY <3>1, <3>2
    <2>6. PanelOk(k, y)
      BY <1>2, <1>10, <2>4, <2>5 DEF PanelOk, Shows
    <2>. QED  BY <1>0, <2>1, <2>4, <2>6, OneSocket
  <1>12. CASE e.kind \in {"generation_completed", "generation_interrupted"}
    <2>. DEFINE s1 == [c.seen EXCEPT ![g] = 0]
                d1 == [c.draft EXCEPT ![g] = <<>>]
                y == [rest EXCEPT !.seen = s1, !.draft = d1]
    <2>1. socket' = [socket EXCEPT ![k] = y]
      BY <1>3, <1>8, <1>9, <1>12
    <2>2. <<>> \in Seq(Nat) /\ <<>> = FirstOnes(0)
      BY DEF FirstOnes
    <2>3. /\ s1 \in [Generations -> Nat] /\ d1 \in [Generations -> Seq(Nat)]
          /\ s1[g] = 0 /\ d1[g] = <<>>
          /\ \A h \in Generations \ {g} : s1[h] = c.seen[h] /\ d1[h] = c.draft[h]
      BY <1>0, <1>3, <2>2
    <2>. HIDE DEF s1, d1
    <2>4. /\ y \in SockRow /\ y.at = "open" /\ y.queue = u /\ y.from = c.from /\ y.missed = 0
          /\ y.draft = d1 /\ y.seen = s1
      BY <1>0, <1>6, <1>9, <1>10, <2>3 DEF SockRow
    <2>. HIDE DEF y
    <2>5. ASSUME NEW h \in Generations, h >= c.from
          PROVE  /\ d1[h] = FirstOnes(s1[h]) /\ Feeds(u, s1[h], h)
                 /\ k \in Watchers => Reaches(u, s1[h], h)
      <3>1. CASE h = g
        <4>1. \A i \in 1..Len(u) : ~IsToken(u[i], g)
          BY <1>2, <1>12
        <4>2. gen[g].at = "done"
          BY <1>2, <1>12 DEF Happened, g
        <4>. QED  BY <2>2, <2>3, <3>1, <4>1, <4>2 DEF Feeds, Reaches, Over
      <3>2. CASE h # g
        <4>1. ~IsToken(e, h) /\ c.seen[h] \in Nat /\ s1[h] = c.seen[h] /\ d1[h] = c.draft[h]
          BY <1>0, <2>3, <3>2 DEF IsToken, g
        <4>. QED  BY <1>4, <1>5, <2>5, <4>1
      <3>. QED  BY <3>1, <3>2
    <2>6. PanelOk(k, y)
      BY <1>2, <1>10, <2>4, <2>5 DEF PanelOk, Shows
    <2>. QED  BY <1>0, <2>1, <2>4, <2>6, OneSocket
  <1>13. CASE /\ ~(e.kind = "token_chunk" /\ Chat!IsNew(k, e))
              /\ e.kind \notin {"generation_completed", "generation_interrupted"}
    <2>1. socket' = [socket EXCEPT ![k] = rest]
      BY <1>8, <1>13
    <2>2. ASSUME NEW h \in Generations, h >= c.from
          PROVE  /\ c.draft[h] = FirstOnes(c.seen[h]) /\ Feeds(u, c.seen[h], h)
                 /\ k \in Watchers => Reaches(u, c.seen[h], h)
      <3>1. IsToken(e, h) => e.n <= c.seen[h]
        BY <1>0, <1>3, <1>13 DEF IsToken, Chat!IsNew
      <3>2. c.seen[h] \in Nat
        BY <1>0
      <3>. QED  BY <1>4, <1>5, <2>2, <3>1, <3>2
    <2>3. PanelOk(k, rest)
      BY <1>0, <1>2, <1>6, <1>9, <1>10, <2>2 DEF PanelOk, Shows
    <2>. QED  BY <1>0, <1>9, <2>1, <2>3, OneSocket
  <1>. QED  BY <1>11, <1>12, <1>13

\* chat_socket: a connection begins with nothing, and is lost with everything.
LEMMA ConnectStep ==
  ASSUME PanelInv, TurnInv, NEW k \in Sockets,
         Chat!Connect(k) \/ Chat!ReadHistory(k) \/ Chat!Disconnect(k) \/ Chat!InterruptRaises(k)
  PROVE  PanelInv'
  <1>. DEFINE c == socket[k]
  <1>0. PanelOk(k, c) /\ c \in SockRow /\ UNCHANGED gen /\ socket \in [Sockets -> SockRow]
    BY DEF PanelInv, Chat!Connect, Chat!ReadHistory, Chat!Disconnect, Chat!InterruptRaises
  <1>1. CASE Chat!Connect(k)
    <2>. DEFINE y == [c EXCEPT !.at = "subscribed"]
    <2>1. socket' = [socket EXCEPT ![k] = y] /\ k \in Watchers /\ c.at = "closed"
      BY <1>0, <1>1 DEF Chat!Connect
    <2>2. y \in SockRow /\ y.at = "subscribed" /\ y.queue = c.queue
      BY <1>0 DEF SockRow
    <2>. HIDE DEF y
    <2>3. PanelOk(k, y)
      BY <1>0, <2>1, <2>2 DEF PanelOk
    <2>. QED  BY <1>0, <2>1, <2>2, <2>3, OneSocket
  <1>2. CASE Chat!ReadHistory(k) /\ c.at = "subscribed"
    <2>. DEFINE size == Len(transcript)
                y == [c EXCEPT !.at = "read", !.history = size]
    <2>1. socket' = [socket EXCEPT ![k] = y] /\ size \in Nat
      BY <1>0, <1>2 DEF Chat!ReadHistory, TurnInv, TurnTypes
    <2>. HIDE DEF size
    <2>2. y \in SockRow /\ y.at = "read" /\ y.queue = c.queue
      BY <1>0, <2>1 DEF SockRow
    <2>. HIDE DEF y
    <2>3. PanelOk(k, y)
      BY <1>0, <1>2, <2>2 DEF PanelOk
    <2>. QED  BY <1>0, <2>1, <2>2, <2>3, OneSocket
  <1>3. CASE Chat!ReadHistory(k) /\ c.at # "subscribed"
    <2>0. PICK none \in Int : none = 0
      OBVIOUS
    <2>. DEFINE y == [c EXCEPT !.at = "open", !.missed = none]
    <2>1. socket' = [socket EXCEPT ![k] = y] /\ c.at = "refreshing"
      BY <1>0, <1>3, <2>0 DEF Chat!ReadHistory
    <2>2. /\ y \in SockRow /\ y.at = "open" /\ y.queue = c.queue /\ y.missed = none /\ y.from = c.from
          /\ y.seen = c.seen /\ y.draft = c.draft
      BY <1>0 DEF SockRow
    <2>. HIDE DEF y
    <2>3. PanelOk(k, y)
      BY <1>0, <2>0, <2>1, <2>2 DEF PanelOk, Shows
    <2>. QED  BY <1>0, <2>1, <2>2, <2>3, OneSocket
  <1>4. CASE Chat!Disconnect(k) \/ Chat!InterruptRaises(k)
    <2>1. socket' = [socket EXCEPT ![k] = Chat!Disconnected]
      BY <1>4 DEF Chat!Disconnect, Chat!InterruptRaises
    <2>2. /\ Chat!Disconnected \in SockRow /\ Chat!Disconnected.at = "closed"
          /\ Chat!Disconnected.queue = <<>>
      <3>. DEFINE none == [g \in Generations |-> <<>>]
                  zero == [g \in Generations |-> 0]
      <3>1. none \in [Generations -> Seq(Nat)] /\ zero \in [Generations -> Nat] /\ <<>> \in Seq(EventRow)
        OBVIOUS
      <3>2. PICK f, z, q : f = none /\ z = zero /\ q = <<>>
        OBVIOUS
      <3>3. Chat!Disconnected = [at |-> "closed", queue |-> q, from |-> 0, history |-> 0, missed |-> 0,
                                 waits |-> 0, redirect |-> FALSE, draft |-> f, seen |-> z]
        BY <3>2 DEF Chat!Disconnected, Chat!NoTurn
      <3>. HIDE DEF none, zero
      <3>. QED  BY <3>1, <3>2, <3>3 DEF SockRow
    <2>3. PanelOk(k, Chat!Disconnected)
      BY <2>2 DEF PanelOk, QueueOk, EndIsLast
    <2>. QED  BY <1>0, <2>1, <2>2, <2>3, OneSocket
  <1>. QED  BY <1>1, <1>2, <1>3, <1>4

\* active_snapshot: the panel starts with all the tokens of the running turn, or
\* before the next turn.
LEMMA SnapshotStep ==
  ASSUME PanelInv, TurnInv, NEW k \in Sockets, Chat!Snapshot(k)
  PROVE  PanelInv'
  <1>. DEFINE c == socket[k]
              n == IF active = 0 THEN 0 ELSE gen[active].tokens
              at1 == IF active = 0 THEN "refreshing" ELSE "open"
              from1 == IF active = 0 THEN Chat!Cardinality(Chat!Started) + 1 ELSE active
              miss1 == IF active = 0 THEN Len(transcript) - c.history ELSE 0
              seen1 == [g \in Generations |-> IF g = active THEN n ELSE 0]
              draft1 == [g \in Generations |-> IF g = active THEN [i \in 1..n |-> i] ELSE <<>>]
              y == [c EXCEPT !.at = at1, !.from = from1, !.history = 0, !.missed = miss1,
                             !.seen = seen1, !.draft = draft1]
  <1>0. /\ PanelOk(k, c) /\ c \in SockRow /\ UNCHANGED gen /\ socket \in [Sockets -> SockRow]
        /\ c.at = "read" /\ QueueOk(c.queue) /\ c.queue \in Seq(EventRow) /\ c.history \in Nat
    BY DEF PanelInv, Chat!Snapshot, PanelOk, SockRow
  <1>1. socket' = [socket EXCEPT ![k] = y]
    BY <1>0 DEF Chat!Snapshot, Chat!AfterLooking, Chat!NoTurn
  <1>2. /\ active \in Generations \cup {0} /\ gen \in [Generations -> GenRow]
        /\ Generations \subseteq Nat \ {0}
        /\ \A g \in Generations : gen[g].tokens \in Nat
        /\ Len(transcript) \in Nat
    BY TurnsAssumption DEF TurnInv, TurnTypes, GenRow
  <1>3. PICK m \in Nat : Chat!Started = 1..m /\ (active # 0 => active = m)
    BY DEF TurnInv, Counted
  <1>4. Chat!Cardinality(Chat!Started) = m
    BY <1>3, FS_Interval, SameCardinality
  <1>5. from1 \in Nat /\ from1 = (IF active = 0 THEN m + 1 ELSE active) /\ n \in Nat /\ miss1 \in Int
    BY <1>0, <1>2, <1>4
  <1>6. ASSUME NEW g \in Generations, g >= from1, g # active
        PROVE  gen[g].at = "none"
    <2>1. g > m
      BY <1>2, <1>3, <1>5, <1>6
    <2>2. g \notin Chat!Started
      BY <1>3, <2>1
    <2>. QED  BY <2>2 DEF Chat!Started
  <1>7. /\ seen1 \in [Generations -> Nat]
        /\ \A g \in Generations : seen1[g] = IF g = active THEN n ELSE 0
    BY <1>5
  <1>8. /\ draft1 \in [Generations -> Seq(Nat)]
        /\ \A g \in Generations : draft1[g] = FirstOnes(seen1[g])
    <2>1. FirstOnes(n) \in Seq(Nat) /\ <<>> \in Seq(Nat) /\ <<>> = FirstOnes(0)
      BY <1>5, OneMore DEF FirstOnes
    <2>2. draft1 = [g \in Generations |-> IF g = active THEN FirstOnes(n) ELSE <<>>]
      BY DEF FirstOnes
    <2>. HIDE DEF draft1, seen1, n
    <2>. QED  BY <1>7, <2>1, <2>2
  <1>. HIDE DEF from1, miss1, seen1, draft1
  <1>9. /\ y \in SockRow /\ y.at = at1 /\ y.from = from1 /\ y.missed = miss1 /\ y.seen = seen1
        /\ y.draft = draft1 /\ y.queue = c.queue
    BY <1>0, <1>5, <1>7, <1>8 DEF SockRow
  <1>. HIDE DEF y
  <1>10. ASSUME NEW g \in Generations, g >= from1
         PROVE  Feeds(c.queue, seen1[g], g) /\ Reaches(c.queue, seen1[g], g)
    <2>1. ASSUME NEW i \in 1..Len(c.queue), IsToken(c.queue[i], g)
          PROVE  g = active /\ c.queue[i].n <= gen[g].tokens /\ c.queue[i].n \in Nat
      <3>1. Happened(c.queue[i]) /\ c.queue[i].turn = g /\ c.queue[i].kind = "token_chunk"
        BY <1>0, <2>1 DEF QueueOk, IsToken
      <3>2. c.queue[i] \in EventRow
        BY <1>0
      <3>. QED  BY <1>6, <1>10, <3>1, <3>2 DEF Happened, EventRow
    <2>2. CASE g = active
      <3>1. seen1[g] = gen[g].tokens /\ gen[g].tokens \in Nat
        BY <1>2, <1>7, <2>2
      <3>2. SentBy(gen[g]) <= gen[g].tokens
        BY <3>1 DEF SentBy
      <3>3. \A i \in 1..Len(c.queue) : IsToken(c.queue[i], g) => c.queue[i].n <= seen1[g] + 1
        BY <2>1, <3>1
      <3>. QED  BY <3>1, <3>2, <3>3 DEF Feeds, Reaches
    <2>3. CASE g # active
      <3>1. gen[g].at = "none"
        BY <1>6, <1>10, <2>3
      <3>. QED  BY <2>1, <2>3, <3>1 DEF Feeds, Reaches, Over
    <2>. QED  BY <2>2, <2>3
  <1>11. PanelOk(k, y)
    <2>1. Shows(k, y)
      BY <1>8, <1>9, <1>10 DEF Shows
    <2>2. y.at = "open" => y.missed = 0
      BY <1>9 DEF miss1
    <2>3. k \notin Watchers \/ y.at = "closed" => y.queue = <<>>
      BY <1>0, <1>9 DEF PanelOk
    <2>. QED  BY <1>0, <1>9, <2>1, <2>2, <2>3 DEF PanelOk
  <1>. QED  BY <1>0, <1>1, <1>9, <1>11, OneSocket

\* A turn that is asked to stop, or that starts, leaves the panels as they are.
LEMMA WaitStep ==
  ASSUME PanelInv, TurnTypes, TurnTypes', \A g \in Generations : Quiet(g),
         NEW k \in Sockets, NEW w \in Generations \cup {0}, NEW r \in BOOLEAN,
         \/ socket' = [socket EXCEPT ![k].waits = w, ![k].redirect = r]
         \/ socket' = [socket EXCEPT ![k].waits = w]
  PROVE  PanelInv'
  <1>. DEFINE c == socket[k]
  <1>0. socket \in [Sockets -> SockRow] /\ c \in SockRow
    BY DEF PanelInv
  <1>1. PICK y \in SockRow :
          /\ socket' = [socket EXCEPT ![k] = y] /\ y.at = c.at /\ y.queue = c.queue /\ y.from = c.from
          /\ y.missed = c.missed /\ y.draft = c.draft /\ y.seen = c.seen
    <2>1. CASE socket' = [socket EXCEPT ![k].waits = w, ![k].redirect = r]
      <3>. DEFINE y == [c EXCEPT !.waits = w, !.redirect = r]
      <3>1. socket' = [socket EXCEPT ![k] = y]
        BY <1>0, <2>1
      <3>2. /\ y \in SockRow /\ y.at = c.at /\ y.queue = c.queue /\ y.from = c.from
            /\ y.missed = c.missed /\ y.draft = c.draft /\ y.seen = c.seen
        BY <1>0 DEF SockRow
      <3>. HIDE DEF y
      <3>. QED  BY <3>1, <3>2
    <2>2. CASE socket' = [socket EXCEPT ![k].waits = w]
      <3>. DEFINE y == [c EXCEPT !.waits = w]
      <3>1. socket' = [socket EXCEPT ![k] = y]
        BY <1>0, <2>2
      <3>2. /\ y \in SockRow /\ y.at = c.at /\ y.queue = c.queue /\ y.from = c.from
            /\ y.missed = c.missed /\ y.draft = c.draft /\ y.seen = c.seen
        BY <1>0 DEF SockRow
      <3>. HIDE DEF y
      <3>. QED  BY <3>1, <3>2
    <2>. QED  BY <2>1, <2>2
  <1>2. /\ socket' \in [Sockets -> SockRow] /\ socket'[k] = y
        /\ \A l \in Sockets \ {k} : socket'[l] = socket[l]
    BY <1>0, <1>1
  <1>3. ASSUME NEW l \in Sockets, NEW d, d = socket'[l]
        PROVE  PanelOk(l, d)'
    <2>1. PICK x : x = socket[l] /\ PanelOk(l, x)
      BY DEF PanelInv
    <2>2. /\ d \in SockRow /\ d.at = x.at /\ d.queue = x.queue /\ d.from = x.from
          /\ d.missed = x.missed /\ d.draft = x.draft /\ d.seen = x.seen
      BY <1>1, <1>2, <1>3, <2>1
    <2>. QED  BY <2>1, <2>2, PanelStays
  <1>. QED  BY <1>2, <1>3 DEF PanelInv

\* A token is published, or the end of a turn.
LEMMA PublishStep ==
  ASSUME PanelInv, TurnInv, TurnInv', NEW g \in Generations,
         Chat!PublishToken(g) \/ Chat!Completed(g) \/ Chat!Failed(g) \/ Chat!Interrupted(g)
  PROVE  PanelInv'
  <1>0. /\ TurnTypes /\ TurnTypes' /\ gen \in [Generations -> GenRow] /\ gen[g] \in GenRow
        /\ \A h \in Generations : gen[h].tokens \in Nat
    BY DEF TurnInv, TurnTypes, GenRow
  <1>1. ASSUME NEW to \in {"streaming", "done"}, NEW from, Chat!Goes(g, from, to),
               from \notin Over
        PROVE  /\ (\A h \in Generations : Grows(h)) /\ \A h \in Generations \ {g} : Quiet(h)
               /\ gen'[g].at = to /\ gen'[g].tokens = gen[g].tokens /\ gen[g].at = from
    <2>. DEFINE y == Moved(g, to)
    <2>1. [gen[g] EXCEPT !.at = to] \in GenRow
      BY <1>0 DEF GenRow, Asking, Over
    <2>2. /\ gen[g].at = from /\ gen' = [gen EXCEPT ![g] = y] /\ y.at = to /\ y.tokens = gen[g].tokens
      BY <1>1, <2>1, GoesRow
    <2>. HIDE DEF y
    <2>3. gen'[g] = y /\ \A h \in Generations \ {g} : gen'[h] = gen[h]
      BY <1>0, <2>2
    <2>4. Grows(g)
      BY <1>0, <1>1, <2>2, <2>3 DEF Grows, Over
    <2>5. \A h \in Generations \ {g} : Grows(h) /\ Quiet(h)
      BY <1>0, <2>3 DEF Grows, Quiet
    <2>. QED  BY <2>2, <2>3, <2>4, <2>5
  <1>2. CASE Chat!PublishToken(g)
    <2>. DEFINE n == gen[g].tokens
                e == Chat!Event("token_chunk", g, n)
    <2>1. Chat!Goes(g, "publishing", "streaming") /\ socket' = Chat!Published(socket, e)
      BY <1>2 DEF Chat!PublishToken, Chat!Goes
    <2>2. /\ (\A h \in Generations : Grows(h)) /\ \A h \in Generations \ {g} : Quiet(h)
          /\ gen'[g].at = "streaming" /\ gen'[g].tokens = n /\ gen[g].at = "publishing"
      BY <1>1, <2>1 DEF Over
    <2>3. n \in Nat
      BY <1>0
    <2>4. e \in EventRow /\ e.turn = g /\ e.n = n /\ e.kind = "token_chunk"
      BY <2>3 DEF Chat!Event, EventRow
    <2>5. PICK f \in EventRow : f = e
      BY <2>4
    <2>. HIDE DEF e
    <2>6. /\ f.turn = g /\ f.n = n /\ f.kind = "token_chunk" /\ socket' = Chat!Published(socket, f)
      BY <2>1, <2>4, <2>5
    <2>7. Happened(f)'
      BY <1>0, <2>2, <2>3, <2>6 DEF Happened
    <2>8. SentBy(gen[g]) = n - 1 /\ SentBy(gen'[g]) = n /\ gen[g].at \notin Over
      BY <2>2 DEF SentBy, Over
    <2>. QED  BY <1>0, <2>2, <2>6, <2>7, <2>8, PublishReaches
  <1>3. ASSUME NEW from \in {"completed", "failing", "saved", "savedNothing"}, NEW kind \in Ends,
               Chat!Finish(g, from, kind)
        PROVE  PanelInv'
    <2>. DEFINE e == Chat!Event(kind, g, 0)
    <2>1. Chat!Goes(g, from, "done") /\ socket' = Chat!Published(socket, e)
      BY <1>3 DEF Chat!Finish
    <2>2. /\ (\A h \in Generations : Grows(h)) /\ \A h \in Generations \ {g} : Quiet(h)
          /\ gen'[g].at = "done" /\ gen[g].at = from
      BY <1>1, <1>3, <2>1 DEF Over
    <2>3. e \in EventRow /\ e.turn = g /\ e.kind = kind
      BY DEF Chat!Event, EventRow
    <2>4. PICK f \in EventRow : f = e
      BY <2>3
    <2>. HIDE DEF e
    <2>5. f.turn = g /\ f.kind # "token_chunk" /\ socket' = Chat!Published(socket, f)
      BY <2>1, <2>3, <2>4 DEF Ends
    <2>6. Happened(f)'
      BY <2>2, <2>5 DEF Happened
    <2>. QED  BY <1>0, <1>3, <2>2, <2>5, <2>6, PublishReaches
  <1>4. CASE Chat!Completed(g)
    BY <1>3, <1>4 DEF Chat!Completed, Ends
  <1>5. CASE Chat!Failed(g)
    BY <1>3, <1>5 DEF Chat!Failed, Ends
  <1>6. CASE Chat!Interrupted(g)
    BY <1>3, <1>6 DEF Chat!Interrupted, Ends
  <1>. QED  BY <1>2, <1>4, <1>5, <1>6

\* Every other step of the running turn.
LEMMA TurnIsQuiet ==
  ASSUME TurnInv, NEW g \in Generations,
         \/ Chat!Prepare(g) \/ Chat!Announce(g) \/ Chat!TokenArrives(g) \/ Chat!AppendToken(g)
         \/ Chat!AgentReturns(g) \/ Chat!Continue(g) \/ Chat!Complete(g)
         \/ Chat!PersistInterrupted(g) \/ Chat!PersistFails(g)
  PROVE  UNCHANGED socket /\ \A h \in Generations : Quiet(h)
  <1>0. gen \in [Generations -> GenRow] /\ gen[g] \in GenRow /\ gen[g].tokens \in Nat
    BY DEF TurnInv, TurnTypes, GenRow
  <1>1. UNCHANGED socket
    BY DEF Chat!Prepare, Chat!Announce, Chat!TokenArrives, Chat!AppendToken, Chat!AgentReturns,
           Chat!Continue, Chat!Complete, Chat!PersistInterrupted, Chat!PersistFails
  <1>2. CASE Chat!AppendToken(g)
    <2>. DEFINE n == gen[g].tokens + 1
                y == [gen[g] EXCEPT !.at = "publishing", !.tokens = n]
    <2>0. gen[g].at = "appending" /\ gen' = [gen EXCEPT ![g] = y]
      BY <1>0, <1>2 DEF Chat!AppendToken
    <2>1. gen[g].at = "appending" /\ gen' = [gen EXCEPT ![g] = y] /\ n \in Nat
      <3>1. n \in Nat
        BY <1>0
      <3>. QED  BY <2>0, <3>1
    <2>2. n - 1 = gen[g].tokens /\ gen[g].tokens <= n
      BY <1>0
    <2>. HIDE DEF n
    <2>3. y \in GenRow /\ y.at = "publishing" /\ y.tokens = n
      BY <1>0, <2>1 DEF GenRow, Asking
    <2>. HIDE DEF y
    <2>4. SentBy(y) = SentBy(gen[g]) /\ gen[g].tokens <= y.tokens /\ gen[g].at \notin Over
      BY <2>1, <2>2, <2>3 DEF SentBy, Over
    <2>. QED  BY <1>1, <2>1, <2>3, <2>4, RunsQuietly
  <1>3. CASE ~Chat!AppendToken(g)
    <2>1. \E from \in {"preparing", "prepared", "streaming", "answered", "unanswered", "completing",
                       "saving"} :
          \E to \in {"prepared", "failing", "streaming", "appending", "answered", "unanswered",
                     "saving", "completing", "completed", "saved", "savedNothing", "raised"} :
            Chat!Goes(g, from, to)
      <3>1. CASE Chat!Continue(g)
        BY <3>1 DEF Chat!Continue, Chat!Goes
      <3>2. CASE Chat!Prepare(g)
        BY <3>2 DEF Chat!Prepare
      <3>3. CASE Chat!Announce(g) \/ Chat!TokenArrives(g)
        BY <3>3 DEF Chat!Announce, Chat!TokenArrives
      <3>4. CASE Chat!AgentReturns(g)
        BY <3>4 DEF Chat!AgentReturns
      <3>5. CASE Chat!Complete(g)
        BY <3>5 DEF Chat!Complete
      <3>6. CASE Chat!PersistInterrupted(g) \/ Chat!PersistFails(g)
        BY <3>6 DEF Chat!PersistInterrupted, Chat!PersistFails
      <3>. QED  BY <1>3, <3>1, <3>2, <3>3, <3>4, <3>5, <3>6
    <2>2. ASSUME NEW from \in {"preparing", "prepared", "streaming", "answered", "unanswered",
                               "completing", "saving"},
                 NEW to \in {"prepared", "failing", "streaming", "appending", "answered", "unanswered",
                             "saving", "completing", "completed", "saved", "savedNothing", "raised"},
                 Chat!Goes(g, from, to)
          PROVE  \A h \in Generations : Quiet(h)
      <3>1. [gen[g] EXCEPT !.at = to] \in GenRow
        BY <1>0 DEF GenRow, Asking, Over
      <3>. QED  BY <2>2, <3>1, GoesQuietly DEF Over
    <2>. QED  BY <1>1, <2>1, <2>2
  <1>. QED  BY <1>2, <1>3

\* interrupt, close: the cancel event of the running turn is set.
LEMMA CancelsQuietly ==
  ASSUME TurnInv, active # 0, gen' = [gen EXCEPT ![active].cancel = TRUE]
  PROVE  active \in Generations /\ \A h \in Generations : Quiet(h)
  <1>1. active \in Generations /\ gen \in [Generations -> GenRow] /\ TurnOk(active)
    BY DEF TurnInv, TurnTypes
  <1>. DEFINE x == gen[active]
              y == [x EXCEPT !.cancel = TRUE]
  <1>2. gen' = [gen EXCEPT ![active] = y] /\ x \in GenRow /\ x.at \notin Over /\ x.at # "none"
    BY <1>1 DEF TurnOk, Over
  <1>3. y \in GenRow /\ y.at = x.at /\ y.tokens = x.tokens /\ x.tokens \in Nat
    BY <1>2 DEF GenRow
  <1>. HIDE DEF y
  <1>4. SentBy(y) = SentBy(x) /\ x.tokens <= y.tokens
    BY <1>3 DEF SentBy
  <1>. QED  BY <1>1, <1>2, <1>3, <1>4, RunsQuietly

\* Every step of the session keeps its panels right.
LEMMA PanelsKeep ==
  ASSUME PanelInv, TurnInv, TurnInv', [Chat!ChatNext]_Chat!chatVars
  PROVE  PanelInv'
  <1>0. TurnTypes /\ TurnTypes' /\ \A h \in Generations : gen[h].tokens \in Nat
    BY DEF TurnInv, TurnTypes, GenRow
  <1>1. ASSUME UNCHANGED gen
        PROVE  \A h \in Generations : Quiet(h)
    BY <1>0, <1>1 DEF Quiet, Grows
  <1>2. CASE UNCHANGED <<gen, socket>>
    BY <1>0, <1>1, <1>2, PanelsStay
  <1>3. ASSUME NEW g \in Generations, Chat!TurnStep(g)
        PROVE  PanelInv'
    <2>1. CASE Chat!PublishToken(g) \/ Chat!Completed(g) \/ Chat!Failed(g) \/ Chat!Interrupted(g)
      BY <2>1, PublishStep
    <2>2. CASE \/ Chat!Prepare(g) \/ Chat!Announce(g) \/ Chat!TokenArrives(g) \/ Chat!AppendToken(g)
               \/ Chat!AgentReturns(g) \/ Chat!Continue(g) \/ Chat!Complete(g)
               \/ Chat!PersistInterrupted(g) \/ Chat!PersistFails(g)
      BY <1>0, <2>2, TurnIsQuiet, PanelsStay
    <2>. QED  BY <1>3, <2>1, <2>2 DEF Chat!TurnStep
  <1>4. ASSUME NEW q \in Queries, Chat!QueryAsks(q) \/ Chat!QueryAnswers(q)
        PROVE  PanelInv'
    BY <1>2, <1>4 DEF Chat!QueryAsks, Chat!QueryAnswers
  <1>5. ASSUME NEW k \in Sockets, Chat!UserMessage(k)
        PROVE  PanelInv'
    <2>1. PICK g \in Generations : Chat!StartTurn(g)
      BY <1>5 DEF Chat!UserMessage
    <2>2. UNCHANGED <<late, terminal, transcript, socket>>
      BY <1>5 DEF Chat!UserMessage
    <2>3. \A h \in Generations : Quiet(h)
      BY <2>1, <2>2, TurnStarts, StartsQuietly
    <2>. QED  BY <1>0, <2>2, <2>3, PanelsStay
  <1>6. ASSUME NEW k \in Sockets, NEW redirect \in BOOLEAN, Chat!Interrupt(k, redirect)
        PROVE  PanelInv'
    <2>1. /\ active # 0 /\ gen' = [gen EXCEPT ![active].cancel = TRUE]
          /\ socket' = [socket EXCEPT ![k].waits = active, ![k].redirect = redirect]
      BY <1>6 DEF Chat!Interrupt, Chat!NoTurn
    <2>2. PICK w \in Generations \cup {0} : w = active
      BY <1>0 DEF TurnTypes
    <2>3. socket' = [socket EXCEPT ![k].waits = w, ![k].redirect = redirect]
      BY <2>1, <2>2
    <2>. QED  BY <1>0, <2>1, <2>3, CancelsQuietly, WaitStep
  <1>7. ASSUME NEW k \in Sockets, Chat!InterruptReturns(k)
        PROVE  PanelInv'
    <2>1. /\ UNCHANGED <<late, terminal, transcript>>
          /\ socket' = [socket EXCEPT ![k].waits = 0]
          /\ (\E g \in Generations : Chat!StartTurn(g)) \/ UNCHANGED gen
      BY <1>7 DEF Chat!InterruptReturns, Chat!NoTurn
    <2>2. \A h \in Generations : Quiet(h)
      BY <1>1, <2>1, TurnStarts, StartsQuietly
    <2>3. PICK w \in Generations \cup {0} : w = 0
      OBVIOUS
    <2>4. socket' = [socket EXCEPT ![k].waits = w]
      BY <2>1, <2>3
    <2>. QED  BY <1>0, <2>2, <2>4, WaitStep
  <1>8. ASSUME NEW k \in Sockets,
               \/ Chat!InterruptRaises(k) \/ Chat!Deliver(k) \/ Chat!Connect(k)
               \/ Chat!ReadHistory(k) \/ Chat!Snapshot(k) \/ Chat!Disconnect(k)
        PROVE  PanelInv'
    BY <1>8, ConnectStep, DeliverStep, SnapshotStep
  <1>9. CASE Chat!Shutdown
    <2>1. /\ active # 0 /\ gen' = [gen EXCEPT ![active].cancel = TRUE] /\ UNCHANGED socket
      BY <1>9 DEF Chat!Shutdown, Chat!NoTurn
    <2>. QED  BY <1>0, <2>1, CancelsQuietly, PanelsStay
  <1>10. CASE UNCHANGED Chat!chatVars
    BY <1>2, <1>10 DEF Chat!chatVars
  <1>. QED  BY <1>3, <1>4, <1>5, <1>6, <1>7, <1>8, <1>9, <1>10, TurnsAssumption
            DEF Chat!ChatNext, Chat!ChatStep

\* chat_socket, active_snapshot, handleSocketEvent: wherever in a stream a panel
\* connects, it shows the turns from there on without a token missing or doubled,
\* and the history whole.
THEOREM PanelShowsTheSessionHolds == Chat!ChatSpec => []PanelShowsTheSession
  <1>1. ASSUME Chat!ChatInit
        PROVE  PanelInv
    <2>. DEFINE none == [g \in Generations |-> <<>>]
                zero == [g \in Generations |-> 0]
    <2>1. /\ none \in [Generations -> Seq(Nat)] /\ zero \in [Generations -> Nat]
          /\ <<>> \in Seq(EventRow) /\ <<>> = FirstOnes(0) /\ Len(<<>>) = 0
          /\ \A g \in Generations : zero[g] = 0 /\ none[g] = <<>>
      BY DEF FirstOnes
    <2>2. PICK f, z, q : f = none /\ z = zero /\ q = <<>>
      OBVIOUS
    <2>3. Chat!Disconnected = [at |-> "closed", queue |-> q, from |-> 0, history |-> 0, missed |-> 0,
                               waits |-> 0, redirect |-> FALSE, draft |-> f, seen |-> z]
      BY <2>2 DEF Chat!Disconnected, Chat!NoTurn
    <2>4. socket = [k \in Sockets |->
            [Chat!Disconnected EXCEPT !.at = IF k \in Watchers THEN "closed" ELSE "open"]]
      BY <1>1 DEF Chat!ChatInit
    <2>. HIDE DEF none, zero
    <2>5. ASSUME NEW k \in Sockets
          PROVE  socket[k] \in SockRow /\ PanelOk(k, socket[k])
      <3>. DEFINE at0 == IF k \in Watchers THEN "closed" ELSE "open"
      <3>1. PICK d : d = Chat!Disconnected
        OBVIOUS
      <3>2. PICK c : c = [d EXCEPT !.at = at0]
        OBVIOUS
      <3>3. socket[k] = c
        BY <2>4, <3>1, <3>2
      <3>4. at0 \in {"closed", "open"} /\ (k \in Watchers => at0 = "closed")
        OBVIOUS
      <3>5. /\ d \in SockRow /\ d.queue = q /\ d.missed = 0 /\ d.draft = f /\ d.seen = z
        BY <2>1, <2>2, <2>3, <3>1 DEF SockRow
      <3>. HIDE DEF at0
      <3>6. /\ c \in SockRow /\ c.at = at0 /\ c.queue = q /\ c.missed = 0 /\ c.draft = f /\ c.seen = z
        BY <3>2, <3>4, <3>5 DEF SockRow
      <3>7. QueueOk(c.queue) /\ \A g : Feeds(c.queue, c.seen[g], g)
        BY <2>1, <2>2, <3>6 DEF QueueOk, EndIsLast, Feeds
      <3>8. c.at = "open" => Shows(k, c)
        BY <2>1, <2>2, <3>4, <3>6, <3>7 DEF Shows
      <3>9. PanelOk(k, c)
        BY <2>2, <3>4, <3>6, <3>7, <3>8 DEF PanelOk
      <3>. QED  BY <3>3, <3>6, <3>9
    <2>6. socket \in [Sockets -> SockRow]
      BY <2>4, <2>5
    <2>. QED  BY <2>5, <2>6 DEF PanelInv
  <1>2. ASSUME PanelInv
        PROVE  PanelShowsTheSession
    <2>1. ASSUME NEW k \in Sockets, socket[k].at = "open", NEW g \in Generations, g >= socket[k].from
          PROVE  socket[k].draft[g] = FirstOnes(Len(socket[k].draft[g]))
      <3>1. socket[k].draft[g] = FirstOnes(socket[k].seen[g]) /\ socket[k].seen[g] \in Nat
        BY <1>2, <2>1 DEF PanelInv, PanelOk, Shows, SockRow
      <3>. QED  BY <3>1, OneMore
    <2>2. Chat!DraftHasNoGap
      BY <2>1 DEF Chat!DraftHasNoGap, FirstOnes
    <2>3. Chat!HistoryIsWhole
      BY <1>2 DEF Chat!HistoryIsWhole, PanelInv, PanelOk
    <2>. QED  BY <2>2, <2>3 DEF PanelShowsTheSession, Chat!PanelShowsTheSession
  <1>. QED  BY <1>1, <1>2, TurnInvariance, TurnsKeep, PanelsKeep, PTL DEF Chat!ChatSpec

-----------------------------------------------------------------------------
(* The composition.                                                        *)

\* The bus with some publishers and subscriptions at rest is still the bus.
LEMMA FewerOnTheBus ==
  ASSUME NEW P \in SUBSET Publishers, NEW S \in SUBSET Subscriptions, BusStep(P, S)
  PROVE  BusNext
  BY DEF BusStep, BusNext

\* The session with some panels and queries at rest is still the session.
LEMMA FewerInTheChat ==
  ASSUME NEW K \in SUBSET Watchers, NEW Q \in SUBSET Queries, Chat!ChatStep(K, Q)
  PROVE  Chat!ChatNext
  BY DEF Chat!ChatStep, Chat!ChatNext

\* The bus and the chat session side by side, in every mix of actors a run
\* lets move: each is its own specification, with the other at rest, so what
\* is proved of each holds of both together.
THEOREM ConversationParts ==
  MCSpec => /\ BusSpec /\ Chat!ChatSpec
            /\ [](WakeIsComing /\ SubscribersAreServed /\ OneTurnAtATime /\ ToldIsStored
                  /\ PanelShowsTheSession)
  <1>. DEFINE all == <<part, busVars, chat>>
  <1>1. MCInit => BusInit /\ Chat!ChatInit
    BY DEF MCInit
  <1>2. [MCNext]_all => [BusNext]_busVars
    <2>1. {CHOOSE s \in Subscriptions : TRUE} \subseteq Subscriptions
      BY ActorsAssumption
    <2>2. {CHOOSE p \in Publishers : TRUE} \subseteq Publishers
      BY ActorsAssumption
    <2>. QED  BY <2>1, <2>2, FewerOnTheBus DEF MCNext
  <1>3. [MCNext]_all => [Chat!ChatNext]_(Chat!chatVars)
    <2>1. UNCHANGED chat => UNCHANGED Chat!chatVars
      BY DEF chat, Chat!chatVars
    <2>. QED  BY <2>1, FewerInTheChat DEF MCNext
  <1>4. MCSpec => BusSpec /\ Chat!ChatSpec
    BY <1>1, <1>2, <1>3, PTL DEF MCSpec, BusSpec, Chat!ChatSpec
  <1>. QED
    BY <1>4, WakeIsComingHolds, SubscribersAreServedHolds, OneTurnAtATimeHolds,
       ToldIsStoredHolds, PanelShowsTheSessionHolds, PTL
=============================================================================
