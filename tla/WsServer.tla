------------------------------- MODULE WsServer -------------------------------
(***************************************************************************)
(* The WebSocket server that streams score updates (streaming/ws_server.py)*)
(* and its PubSubRouter (streaming/pubsub_router.py).                      *)
(*                                                                         *)
(* One event loop runs every coroutine, so a step here is what one of them *)
(* does between two awaits that may suspend it.  _clients_lock is a        *)
(* threading.Lock: a coroutine that asks for it while another one holds it *)
(* across an await stops the loop's thread, and with it every coroutine.   *)
(*                                                                         *)
(* All score events are for one wallet and one pair, so that there are     *)
(* three channels; an event is its sequence number.  Tokens, permissions,  *)
(* abuse detection and the replies to bad requests change none of this     *)
(* state except by closing a connection.                                   *)
(***************************************************************************)
EXTENDS Naturals, Sequences, FiniteSets

CONSTANTS
  Clients,         \* the "sub" claims: client ids
  Conns,           \* connections, each made at most once
  Sub,             \* Sub[c]: the client id of connection c
  None,            \* no connection
  MaxClients,      \* WS_MAX_CLIENTS
  QueueDepth,      \* WS_CLIENT_QUEUE_DEPTH
  ReplaySize,      \* WS_REPLAY_BUFFER_SIZE
  Policies,        \* the values WS_SLOW_CONSUMER_POLICY may have
  MaxDrops,        \* WS_SLOW_CONSUMER_MAX_DROPS, 0: never disconnect
  Requests,        \* the sets of channels a client may name in a request
  MaxEvents,       \* bound on the score events
  MaxRequests      \* bound on the requests

ASSUME ServerAssumption ==
  /\ IsFiniteSet(Clients)
  /\ Sub \in [Conns -> Clients]
  /\ None \notin Conns
  /\ MaxClients \in Nat \ {0} /\ QueueDepth \in Nat \ {0} /\ ReplaySize \in Nat \ {0}
  /\ Policies \subseteq {"drop_oldest", "disconnect"}
  /\ MaxDrops \in Nat /\ MaxEvents \in Nat /\ MaxRequests \in Nat
  /\ Requests \subseteq SUBSET {"wallet", "pair", "all"}

Channels == {"wallet", "pair", "all"}
Items == (1 .. MaxEvents) \X Channels

VARIABLES
  policy,       \* WS_SLOW_CONSUMER_POLICY
  conn,         \* conn[c]: "new", "refused", "open" or "gone"
  closed,       \* the open connections whose socket has been closed
  registered,   \* _clients: registered[i] is the connection of client id i
  subscribed,   \* PubSubRouter: subscribed[i], the channels of client id i
  queue,        \* queue[c]: the outbound queue
  drops,        \* drops[c]: the drops counted against it
  requests,     \* the subscribe and unsubscribe requests so far
  seq,          \* SequenceCounter
  replay,       \* replay[h]: the sequence numbers in channel h's ReplayBuffer
  lock,         \* the connection whose handler holds _clients_lock in an await
  frozen,       \* the loop's thread waits for _clients_lock
  due,          \* history: due[c], the updates c was to get and has not got,
  lost          \* and those evicted from its queue or eaten by the rate limiter

registry == <<registered, subscribed>>
outbox == <<queue, drops, due, lost>>
stream == <<seq, replay>>
vars == <<policy, conn, closed, registry, outbox, requests, stream, lock, frozen>>

TypeOK ==
  /\ policy \in Policies
  /\ conn \in [Conns -> {"new", "refused", "open", "gone"}]
  /\ closed \in SUBSET Conns
  /\ registered \in [Clients -> Conns \cup {None}]
  /\ subscribed \in [Clients -> SUBSET Channels]
  /\ queue \in [Conns -> Seq(Items)]
  /\ \A c \in Conns : Len(queue[c]) <= QueueDepth
  /\ drops \in [Conns -> Nat]
  /\ requests \in 0 .. MaxRequests
  /\ seq \in 0 .. MaxEvents
  /\ replay \in [Channels -> Seq(1 .. MaxEvents)]
  /\ lock \in Conns \cup {None}
  /\ frozen \in BOOLEAN
  /\ due \in [Conns -> SUBSET Items]
  /\ lost \in [Conns -> SUBSET Items]

Init ==
  /\ policy \in Policies
  /\ conn = [c \in Conns |-> "new"]
  /\ closed = {}
  /\ registered = [i \in Clients |-> None]
  /\ subscribed = [i \in Clients |-> {}]
  /\ queue = [c \in Conns |-> <<>>]
  /\ drops = [c \in Conns |-> 0]
  /\ requests = 0
  /\ seq = 0
  /\ replay = [h \in Channels |-> <<>>]
  /\ lock = None
  /\ frozen = FALSE
  /\ due = [c \in Conns |-> {}]
  /\ lost = [c \in Conns |-> {}]

\* "with _clients_lock": the coroutine's next step, unless the lock is held.
Locked(step) ==
  /\ ~frozen
  /\ IF lock = None
     THEN step /\ UNCHANGED frozen
     ELSE /\ frozen' = TRUE
          /\ UNCHANGED <<policy, conn, closed, registered, outbox, requests, stream, lock>>

Sessions == {i \in Clients : registered[i] # None}

------------------------------------------------------------------------------
(* _handler *)

\* At capacity the close handshake is awaited with the lock held.
Connect(c) ==
  /\ conn[c] = "new"
  /\ Locked(IF Cardinality(Sessions) >= MaxClients
            THEN /\ conn' = [conn EXCEPT ![c] = "refused"]
                 /\ lock' = c
                 /\ UNCHANGED <<policy, closed, registered, outbox, requests, stream>>
            ELSE /\ conn' = [conn EXCEPT ![c] = "open"]
                 /\ registered' = [registered EXCEPT ![Sub[c]] = c]
                 /\ UNCHANGED <<policy, closed, outbox, requests, stream, lock>>)
  /\ UNCHANGED subscribed

\* The finally block: the client id loses its subscriptions, and then its entry
\* in _clients, whichever connection made them.
Unsubscribed(c) == subscribed' = [subscribed EXCEPT ![Sub[c]] = {}]

Forget(c) ==
  /\ registered' = [registered EXCEPT ![Sub[c]] = None]
  /\ conn' = [conn EXCEPT ![c] = "gone"]

RefusalCloses(c) ==
  /\ ~frozen
  /\ conn[c] = "refused"
  /\ lock' = None
  /\ Unsubscribed(c) /\ Forget(c)
  /\ UNCHANGED <<policy, closed, outbox, requests, stream, frozen>>

\* The peer leaves, the heartbeat fails, the token expires, the client is
\* blocked, or the close scheduled for a slow consumer is done.
SocketCloses(c) ==
  /\ ~frozen
  /\ conn[c] = "open" /\ c \notin closed
  /\ closed' = closed \cup {c}
  /\ UNCHANGED <<policy, conn, registry, outbox, requests, stream, lock, frozen>>

\* Faulty variant of Ended: the watchdog does not look at the entry.
EndedByCloseOnly(c) == conn[c] = "open" /\ c \in closed

\* A task of the connection has ended: its socket is closed, or the expiry
\* watchdog finds no entry for the client id.
Ended(c) == conn[c] = "open" /\ (c \in closed \/ registered[Sub[c]] = None)

\* Faulty variant of Cleanup: the router is not told.
CleanupLeaks(c) ==
  /\ Ended(c)
  /\ Locked(/\ registered' = [registered EXCEPT ![Sub[c]] = None]
            /\ conn' = [conn EXCEPT ![c] = "gone"]
            /\ closed' = closed \ {c}
            /\ queue' = [queue EXCEPT ![c] = <<>>]
            /\ drops' = [drops EXCEPT ![c] = 0]
            /\ due' = [due EXCEPT ![c] = {}]
            /\ lost' = [lost EXCEPT ![c] = {}]
            /\ UNCHANGED <<policy, requests, stream, lock>>)
  /\ UNCHANGED subscribed

\* The other tasks are cancelled and the handler returns.
Cleanup(c) ==
  /\ Ended(c)
  /\ Unsubscribed(c)
  /\ Locked(/\ Forget(c)
            /\ closed' = closed \ {c}
            /\ queue' = [queue EXCEPT ![c] = <<>>]
            /\ drops' = [drops EXCEPT ![c] = 0]
            /\ due' = [due EXCEPT ![c] = {}]
            /\ lost' = [lost EXCEPT ![c] = {}]
            /\ UNCHANGED <<policy, requests, stream, lock>>)

------------------------------------------------------------------------------
(* _process_inbound: requests, one after the other *)

Request(c) ==
  /\ ~frozen
  /\ conn[c] = "open" /\ c \notin closed
  /\ requests < MaxRequests
  /\ requests' = requests + 1

Subscribe(c, hs) ==
  /\ Request(c)
  /\ subscribed' = [subscribed EXCEPT ![Sub[c]] = @ \cup hs]
  /\ UNCHANGED <<policy, conn, closed, registered, outbox, stream, lock, frozen>>

Unsubscribe(c, hs) ==
  /\ Request(c)
  /\ hs \cap subscribed[Sub[c]] # {}
  /\ subscribed' = [subscribed EXCEPT ![Sub[c]] = @ \ hs]
  /\ UNCHANGED <<policy, conn, closed, registered, outbox, stream, lock, frozen>>

------------------------------------------------------------------------------
(* _process_outbound *)

Send(c) ==
  /\ ~frozen
  /\ conn[c] = "open" /\ c \notin closed
  /\ queue[c] # <<>>
  /\ queue' = [queue EXCEPT ![c] = Tail(@)]
  /\ due' = [due EXCEPT ![c] = @ \ {Head(queue[c])}]
  /\ UNCHANGED <<policy, conn, closed, registry, drops, lost, requests, stream,
                 lock, frozen>>

\* The token bucket is empty: the update taken from the queue is replaced by
\* a rate_limit error.
RateLimited(c) ==
  /\ ~frozen
  /\ conn[c] = "open" /\ c \notin closed
  /\ queue[c] # <<>>
  /\ queue' = [queue EXCEPT ![c] = Tail(@)]
  /\ due' = [due EXCEPT ![c] = @ \ {Head(queue[c])}]
  /\ lost' = [lost EXCEPT ![c] = @ \cup {Head(queue[c])}]
  /\ UNCHANGED <<policy, conn, closed, registry, drops, requests, stream,
                 lock, frozen>>

------------------------------------------------------------------------------
(* publish_score_update *)

Subscribers(h) == {i \in Clients : h \in subscribed[i]}

Contents(s) == {s[k] : k \in DOMAIN s}

\* The channels through which client id i is offered an event: the wallet's
\* subscribers get it once, the others once per channel.
Routes(i) == IF "wallet" \in subscribed[i] THEN {"wallet"} ELSE subscribed[i]

Box(c) == [queue |-> queue[c], drops |-> drops[c], lost |-> lost[c], up |-> TRUE]

\* Faulty variants of Offer: a full queue grows; it refuses the newest update
\* instead of giving up the oldest; the connection goes at MaxDrops drops.
OfferUnbounded(box, item) ==
  IF box.up THEN [box EXCEPT !.queue = Append(@, item)] ELSE box

OfferDropsNewest(box, item) ==
  IF ~box.up THEN box
  ELSE IF Len(box.queue) < QueueDepth
  THEN [box EXCEPT !.queue = Append(@, item)]
  ELSE IF policy = "disconnect" \/ (MaxDrops > 0 /\ box.drops + 1 > MaxDrops)
  THEN [box EXCEPT !.drops = @ + 1, !.up = FALSE]
  ELSE [box EXCEPT !.drops = @ + 1, !.lost = @ \cup {Head(box.queue)}]

OfferDisconnectsEarly(box, item) ==
  IF ~box.up THEN box
  ELSE IF Len(box.queue) < QueueDepth
  THEN [box EXCEPT !.queue = Append(@, item)]
  ELSE IF policy = "disconnect" \/ (MaxDrops > 0 /\ box.drops + 1 >= MaxDrops)
  THEN [box EXCEPT !.drops = @ + 1, !.up = FALSE]
  ELSE [box EXCEPT !.queue = Append(Tail(@), item), !.drops = @ + 1,
                   !.lost = @ \cup {Head(box.queue)}]

\* _enqueue_for_client.  The notice of a drop finds the queue full again.
Offer(box, item) ==
  IF ~box.up THEN box
  ELSE IF Len(box.queue) < QueueDepth
  THEN [box EXCEPT !.queue = Append(@, item)]
  ELSE IF policy = "disconnect" \/ (MaxDrops > 0 /\ box.drops + 1 > MaxDrops)
  THEN [box EXCEPT !.drops = @ + 1, !.up = FALSE]
  ELSE [box EXCEPT !.queue = Append(Tail(@), item), !.drops = @ + 1,
                   !.lost = @ \cup {Head(box.queue)}]

\* The pair's channel comes before "all".
Offered(c, n) ==
  LET Via(h, box) == IF h \in Routes(Sub[c]) THEN Offer(box, <<n, h>>) ELSE box
  IN  Via("all", Via("pair", Via("wallet", Box(c))))

Registered(c) == registered[Sub[c]] = c

Last(s, n) == IF Len(s) <= n THEN s ELSE SubSeq(s, Len(s) - n + 1, Len(s))

\* Faulty variant of Stored: the buffer follows the pair's subscribers.
StoredForPair(n) ==
  replay' = IF Subscribers("pair") = {} THEN replay
            ELSE [h \in Channels |-> Last(Append(replay[h], n), ReplaySize)]

\* An event with no subscriber on the wallet's channel is not kept for replay.
Stored(n) ==
  replay' = IF Subscribers("wallet") = {} THEN replay
            ELSE [h \in Channels |-> Last(Append(replay[h], n), ReplaySize)]

Deliver(n) ==
  LET after == [c \in Conns |-> IF Registered(c) THEN Offered(c, n) ELSE [Box(c) EXCEPT !.up = FALSE]]
  IN  /\ queue' = [c \in Conns |-> after[c].queue]
      /\ drops' = [c \in Conns |-> after[c].drops]
      /\ lost' = [c \in Conns |-> after[c].lost]
      /\ due' = [c \in Conns |->
                   IF after[c].up
                   THEN (due[c] \cup ({n} \X Routes(Sub[c]))) \ after[c].lost
                   ELSE due[c]]
      /\ registered' = [i \in Clients |->
                          IF registered[i] # None /\ after[registered[i]].up THEN registered[i] ELSE None]

\* Nothing suspends publish_score_update: an event reaches every queue at once.
Publish ==
  /\ ~frozen
  /\ seq < MaxEvents
  /\ seq' = seq + 1
  /\ IF lock # None /\ \E h \in Channels : Subscribers(h) # {}
     THEN frozen' = TRUE /\ UNCHANGED <<registered, outbox, replay>>
     ELSE UNCHANGED frozen /\ Deliver(seq + 1) /\ Stored(seq + 1)
  /\ UNCHANGED <<policy, conn, closed, subscribed, requests, lock>>

------------------------------------------------------------------------------
Next ==
  \/ \E c \in Conns :
       \/ Connect(c) \/ RefusalCloses(c) \/ SocketCloses(c) \/ Cleanup(c)
       \/ \E hs \in Requests : Subscribe(c, hs) \/ Unsubscribe(c, hs)
       \/ Send(c) \/ RateLimited(c)
  \/ Publish

Spec == Init /\ [][Next]_vars

\* The loop runs every coroutine that is ready, and a close handshake ends or
\* times out.  Clients and producers do what they like.
FairSpec ==
  /\ Spec
  /\ \A c \in Conns :
       /\ WF_vars(Cleanup(c)) /\ WF_vars(RefusalCloses(c))
       /\ WF_vars(Send(c) \/ RateLimited(c))

------------------------------------------------------------------------------
(* Properties *)

\* No other connection has used the client id of c.
OnlyOne(c) == \A d \in Conns \ {c} : Sub[d] = Sub[c] => conn[d] = "new"

\* What a registered connection has still to get of the updates it was due is
\* exactly what waits in its queue, in order of sequence number: nothing
\* disappears between publish and send, whatever other clients do, except what
\* was evicted or answered with rate_limit.
NothingVanishes ==
  \A c \in Conns :
    conn[c] = "open" /\ Registered(c) =>
      /\ due[c] = Contents(queue[c])
      /\ \A j, k \in DOMAIN queue[c] : j < k => queue[c][j][1] <= queue[c][k][1]

\* A client whose id no other connection uses, and which still reads, stays
\* registered until its socket is closed or it was too slow.
StaysRegistered ==
  \A c \in Conns :
    conn[c] = "open" /\ c \notin closed /\ OnlyOne(c) =>
      Registered(c) \/ drops[c] > IF policy = "disconnect" THEN 0 ELSE MaxDrops

\* Nothing is left of a client id whose connections are all over: its
\* subscriptions and its place among MaxClients are free again.
NothingLeaks ==
  /\ Cardinality(Sessions) <= MaxClients
  /\ \A i \in Clients :
       (\A c \in Conns : Sub[c] = i => conn[c] # "open") =>
         registered[i] = None /\ subscribed[i] = {}

\* What a wallet's subscriber lost to back-pressure or to the rate limiter it
\* can still ask for by replay, until ReplaySize newer events were kept.
LossesCanBeReplayed ==
  \A c \in Conns : \A x \in lost[c] :
    x[2] = "wallet" =>
      \/ x[1] \in Contents(replay["wallet"])
      \/ Len(replay["wallet"]) = ReplaySize /\ \A n \in Contents(replay["wallet"]) : n > x[1]

\* An update that waits is sent or given up, and a connection whose socket is
\* closed, or that _clients has forgotten, is over some day or known again,
\* unless the loop is frozen.
EverybodyIsServed ==
  \A c \in Conns :
    /\ queue[c] # <<>> ~> (queue[c] = <<>> \/ frozen)
    /\ conn[c] = "open" /\ (c \in closed \/ registered[Sub[c]] = None) ~>
         (conn[c] = "gone" \/ frozen \/ (c \notin closed /\ registered[Sub[c]] # None))

\* "Producers are never blocked, so healthy clients are unaffected."
ProducersNeverBlocked == ~frozen
==============================================================================
