---------------------------- MODULE WsServerProofs ----------------------------
(***************************************************************************)
(* Theorems about WsServer for every set of clients and connections, every *)
(* capacity, queue depth, replay size and policy.                          *)
(***************************************************************************)
EXTENDS WsServer, FiniteSetTheorems, TLAPS

------------------------------------------------------------------------------
(* Sequences of queued updates and of sequence numbers *)

LEMMA Elements ==
  ASSUME NEW S, NEW s \in Seq(S)
  PROVE  /\ DOMAIN s = 1 .. Len(s) /\ Len(s) \in Nat
         /\ \A k \in 1 .. Len(s) : s[k] \in S /\ s[k] \in Contents(s)
         /\ \A y \in Contents(s) : y \in S /\ \E k \in 1 .. Len(s) : y = s[k]
  BY DEF Contents

LEMMA RangeAppend ==
  ASSUME NEW S, NEW s \in Seq(S), NEW x \in S
  PROVE  /\ Append(s, x) \in Seq(S)
         /\ Len(Append(s, x)) = Len(s) + 1
         /\ Contents(Append(s, x)) = Contents(s) \cup {x}
  <1> DEFINE a == Append(s, x)
  <1>1. a \in Seq(S) /\ Len(a) = Len(s) + 1 /\ DOMAIN a = 1 .. Len(s) + 1
    OBVIOUS
  <1>2. a[Len(s) + 1] = x /\ \A k \in 1 .. Len(s) : a[k] = s[k]
    OBVIOUS
  <1>3. DOMAIN s = 1 .. Len(s) /\ Len(s) \in Nat
    OBVIOUS
  <1>4. \A y : y \in Contents(a) <=> \E k \in 1 .. Len(s) + 1 : y = a[k]
    BY <1>1 DEF Contents
  <1>5. \A y : y \in Contents(s) <=> \E k \in 1 .. Len(s) : y = s[k]
    BY <1>3 DEF Contents
  <1>6. ASSUME NEW y \in Contents(a) PROVE y \in Contents(s) \cup {x}
    BY <1>2, <1>3, <1>4, <1>5
  <1>7. ASSUME NEW y \in Contents(s) \cup {x} PROVE y \in Contents(a)
    <2>1. CASE y = x
      <3>1. Len(s) + 1 \in 1 .. Len(s) + 1
        BY <1>3
      <3> QED BY <2>1, <3>1, <1>2, <1>4
    <2>2. CASE y # x
      <3>1. PICK k \in 1 .. Len(s) : y = s[k]
        BY <2>2, <1>5
      <3>2. k \in 1 .. Len(s) + 1 /\ a[k] = s[k]
        BY <1>2, <1>3
      <3> QED BY <3>1, <3>2, <1>4
    <2> QED BY <2>1, <2>2
  <1> QED BY <1>1, <1>6, <1>7

LEMMA RangeTail ==
  ASSUME NEW S, NEW s \in Seq(S), s # <<>>
  PROVE  /\ Head(s) \in S /\ Head(s) = s[1] /\ Tail(s) \in Seq(S)
         /\ Len(Tail(s)) = Len(s) - 1 /\ Len(s) \in Nat \ {0}
         /\ \A k \in 1 .. Len(s) - 1 : Tail(s)[k] = s[k + 1]
         /\ Contents(s) = Contents(Tail(s)) \cup {Head(s)}
  <1> DEFINE t == Tail(s)
  <1>1. Head(s) \in S /\ Head(s) = s[1] /\ t \in Seq(S) /\ Len(t) = Len(s) - 1
        /\ Len(s) \in Nat \ {0} /\ \A k \in 1 .. Len(s) - 1 : t[k] = s[k + 1]
    OBVIOUS
  <1> HIDE DEF t
  <1>2. \A y : y \in Contents(t) <=> \E k \in 1 .. Len(s) - 1 : y = t[k]
    <2>1. DOMAIN t = 1 .. Len(s) - 1
      BY <1>1
    <2> QED BY <2>1 DEF Contents
  <1>3. \A y : y \in Contents(s) <=> \E k \in 1 .. Len(s) : y = s[k]
    BY <1>1 DEF Contents
  <1>4. ASSUME NEW y \in Contents(s) PROVE y \in Contents(t) \cup {Head(s)}
    <2>1. PICK k \in 1 .. Len(s) : y = s[k]
      BY <1>3
    <2>2. CASE k = 1
      BY <2>1, <2>2, <1>1
    <2>3. CASE k # 1
      <3>1. k - 1 \in 1 .. Len(s) - 1 /\ (k - 1) + 1 = k
        BY <2>3, <1>1
      <3>2. t[k - 1] = y
        BY <3>1, <2>1, <1>1
      <3> QED BY <3>1, <3>2, <1>2
    <2> QED BY <2>2, <2>3
  <1>5. ASSUME NEW y \in Contents(t) PROVE y \in Contents(s)
    <2>1. PICK k \in 1 .. Len(s) - 1 : y = t[k]
      BY <1>2
    <2>2. k + 1 \in 1 .. Len(s) /\ s[k + 1] = y
      BY <2>1, <1>1
    <2> QED BY <2>2, <1>3
  <1>6. Head(s) \in Contents(s)
    <2>1. 1 \in 1 .. Len(s)
      BY <1>1
    <2> QED BY <2>1, <1>1, <1>3
  <1> QED BY <1>1, <1>4, <1>5, <1>6 DEF t

\* The order in which updates are offered to a client: by sequence number, and
\* for one event by channel.
Place(h) == IF h = "wallet" THEN 1 ELSE IF h = "pair" THEN 2 ELSE 3
Earlier(x, y) == x[1] < y[1] \/ (x[1] = y[1] /\ Place(x[2]) < Place(y[2]))
Ordered(s) == \A j, k \in 1 .. Len(s) : j < k => Earlier(s[j], s[k])

LEMMA EarlierOrder ==
  ASSUME NEW x \in Items, NEW y \in Items
  PROVE  Earlier(x, y) => x # y
  BY DEF Earlier, Items, Channels, Place

LEMMA OrderedAppend ==
  ASSUME NEW s \in Seq(Items), NEW x \in Items, Ordered(s),
         \A y \in Contents(s) : Earlier(y, x)
  PROVE  Ordered(Append(s, x))
  <1> DEFINE a == Append(s, x)
  <1>1. Len(a) = Len(s) + 1 /\ Len(s) \in Nat /\ a[Len(s) + 1] = x
        /\ \A k \in 1 .. Len(s) : a[k] = s[k]
    OBVIOUS
  <1> HIDE DEF a
  <1>2. \A k \in 1 .. Len(s) : s[k] \in Contents(s)
    BY DEF Contents
  <1>3. ASSUME NEW j \in 1 .. Len(a), NEW k \in 1 .. Len(a), j < k
        PROVE  Earlier(a[j], a[k])
    <2>1. j \in 1 .. Len(s) /\ a[j] = s[j]
      BY <1>1, <1>3
    <2>2. CASE k = Len(s) + 1
      BY <2>1, <2>2, <1>1, <1>2
    <2>3. CASE k # Len(s) + 1
      <3>1. k \in 1 .. Len(s) /\ a[k] = s[k]
        BY <2>3, <1>1
      <3> QED BY <3>1, <2>1, <1>3 DEF Ordered
    <2> QED BY <2>2, <2>3
  <1>4. Ordered(a)
    BY <1>3 DEF Ordered
  <1> QED BY <1>4 DEF a

LEMMA OrderedTail ==
  ASSUME NEW s \in Seq(Items), s # <<>>, Ordered(s)
  PROVE  /\ Ordered(Tail(s))
         /\ Head(s) \notin Contents(Tail(s))
         /\ Contents(Tail(s)) = Contents(s) \ {Head(s)}
  <1> DEFINE t == Tail(s)
  <1>1. /\ Head(s) = s[1] /\ t \in Seq(Items) /\ Len(t) = Len(s) - 1
        /\ Len(s) \in Nat \ {0} /\ \A k \in 1 .. Len(s) - 1 : t[k] = s[k + 1]
        /\ Contents(s) = Contents(t) \cup {Head(s)} /\ Head(s) \in Items
    BY RangeTail
  <1> HIDE DEF t
  <1>2. \A k \in 1 .. Len(t) : k + 1 \in 1 .. Len(s) /\ t[k] = s[k + 1]
    BY <1>1
  <1>3. Ordered(t)
    <2>1. \A j, k \in 1 .. Len(t) : j < k => j + 1 < k + 1
      BY <1>1
    <2> QED BY <2>1, <1>2 DEF Ordered
  <1>4. Head(s) \notin Contents(t)
    <2>1. SUFFICES ASSUME Head(s) \in Contents(t) PROVE FALSE
      OBVIOUS
    <2>2. PICK k \in 1 .. Len(t) : Head(s) = t[k]
      <3>1. DOMAIN t = 1 .. Len(t)
        BY <1>1
      <3> QED BY <2>1, <3>1 DEF Contents
    <2>3. 1 \in 1 .. Len(s) /\ k + 1 \in 1 .. Len(s) /\ 1 < k + 1 /\ t[k] = s[k + 1]
      BY <1>1, <1>2
    <2>4. Earlier(s[1], s[k + 1])
      BY <2>3 DEF Ordered
    <2> QED BY <2>2, <2>3, <2>4, <1>1, EarlierOrder
  <1> QED BY <1>1, <1>3, <1>4 DEF t

------------------------------------------------------------------------------
(* _enqueue_for_client: what an offer does to a queue *)

Boxes == [queue : Seq(Items), drops : Nat, lost : SUBSET Items, up : BOOLEAN]
Fits(b) == b \in Boxes /\ Len(b.queue) <= QueueDepth

\* What was offered and not sent, and that it is in order and in one place.
Held(b) == Contents(b.queue) \cup b.lost
Tidy(s, l) == Ordered(s) /\ Contents(s) \cap l = {}

Limit == IF policy = "disconnect" THEN 0 ELSE MaxDrops

LEMMA OfferCases ==
  ASSUME NEW b, Fits(b), NEW x \in Items, b.up
  PROVE  \/ /\ Len(b.queue) < QueueDepth
            /\ Offer(b, x) = [b EXCEPT !.queue = Append(b.queue, x)]
         \/ /\ ~ (Len(b.queue) < QueueDepth)
            /\ b.drops + 1 > Limit
            /\ Offer(b, x) = [b EXCEPT !.drops = b.drops + 1, !.up = FALSE]
         \/ /\ ~ (Len(b.queue) < QueueDepth)
            /\ b.queue # <<>>
            /\ Offer(b, x) = [b EXCEPT !.queue = Append(Tail(b.queue), x),
                                       !.drops = b.drops + 1,
                                       !.lost = b.lost \cup {Head(b.queue)}]
  <1>1. b.drops \in Nat /\ b.queue \in Seq(Items) /\ MaxDrops \in Nat /\ QueueDepth \in Nat \ {0}
    BY ServerAssumption DEF Fits, Boxes
  <1>2. CASE Len(b.queue) < QueueDepth
    BY <1>2 DEF Offer
  <1>3. CASE ~ (Len(b.queue) < QueueDepth)
    <2>1. b.queue # <<>>
      BY <1>1, <1>3
    <2>2. CASE policy = "disconnect" \/ (MaxDrops > 0 /\ b.drops + 1 > MaxDrops)
      <3>1. b.drops + 1 > Limit
        BY <2>2, <1>1 DEF Limit
      <3> QED BY <3>1, <2>2, <1>3 DEF Offer
    <2>3. CASE ~ (policy = "disconnect" \/ (MaxDrops > 0 /\ b.drops + 1 > MaxDrops))
      BY <2>1, <2>3, <1>3 DEF Offer
    <2> QED BY <2>2, <2>3
  <1> QED BY <1>2, <1>3

LEMMA OfferFits ==
  ASSUME NEW b, Fits(b), NEW x \in Items
  PROVE  /\ Fits(Offer(b, x))
         /\ b.lost \subseteq Offer(b, x).lost
         /\ Held(Offer(b, x)) \subseteq Held(b) \cup {x}
         /\ Offer(b, x).up => b.up
         /\ b.up /\ ~Offer(b, x).up => Offer(b, x).drops > Limit
         /\ ~b.up => Offer(b, x) = b
  <1> DEFINE a == Offer(b, x)
  <1>1. /\ b.queue \in Seq(Items) /\ b.drops \in Nat /\ b.lost \subseteq Items
        /\ b.up \in BOOLEAN /\ b \in Boxes /\ Len(b.queue) <= QueueDepth
        /\ Len(b.queue) \in Nat
    BY DEF Fits, Boxes
  <1>2. CASE ~b.up
    <2>1. a = b
      BY <1>2 DEF Offer
    <2> QED BY <2>1, <1>2 DEF Held
  <1>3. CASE b.up /\ Len(b.queue) < QueueDepth
    <2>1. a = [b EXCEPT !.queue = Append(b.queue, x)]
      BY <1>3, OfferCases
    <2>2. /\ Append(b.queue, x) \in Seq(Items)
          /\ Len(Append(b.queue, x)) = Len(b.queue) + 1
          /\ Contents(Append(b.queue, x)) = Contents(b.queue) \cup {x}
      BY <1>1, RangeAppend
    <2>3. a \in Boxes /\ a.queue = Append(b.queue, x) /\ a.lost = b.lost /\ a.up = b.up
      BY <2>1, <2>2, <1>1 DEF Boxes
    <2>4. Len(a.queue) <= QueueDepth
      BY <2>2, <2>3, <1>1, <1>3, ServerAssumption
    <2> HIDE DEF a
    <2>5. Fits(a) /\ b.lost \subseteq a.lost /\ Held(a) \subseteq Held(b) \cup {x} /\ a.up
      BY <2>2, <2>3, <2>4, <1>3 DEF Fits, Held
    <2> QED BY <2>5, <1>3 DEF a
  <1>4. CASE b.up /\ ~ (Len(b.queue) < QueueDepth)
    <2>1. CASE b.drops + 1 > Limit /\ a = [b EXCEPT !.drops = b.drops + 1, !.up = FALSE]
      <3>0. a = [queue |-> b.queue, drops |-> b.drops + 1, lost |-> b.lost, up |-> FALSE]
        BY <2>1, <1>1 DEF Boxes
      <3>1. a \in Boxes /\ a.queue = b.queue /\ a.lost = b.lost /\ ~a.up
            /\ a.drops = b.drops + 1
        BY <3>0, <1>1 DEF Boxes
      <3> HIDE DEF a
      <3>2. Fits(a) /\ b.lost \subseteq a.lost /\ Held(a) \subseteq Held(b) \cup {x}
            /\ a.drops > Limit /\ ~a.up
        BY <3>1, <1>1, <2>1 DEF Fits, Held
      <3> QED BY <3>2, <1>4 DEF a
    <2>2. CASE /\ b.queue # <<>>
               /\ a = [b EXCEPT !.queue = Append(Tail(b.queue), x), !.drops = b.drops + 1,
                               !.lost = b.lost \cup {Head(b.queue)}]
      <3> DEFINE t == Tail(b.queue)
                 s == Append(t, x)
      <3>1. /\ t \in Seq(Items) /\ Head(b.queue) \in Items
            /\ Len(t) = Len(b.queue) - 1
            /\ Contents(b.queue) = Contents(t) \cup {Head(b.queue)}
        BY <2>2, <1>1, RangeTail
      <3> HIDE DEF t
      <3>2. s \in Seq(Items) /\ Len(s) = Len(t) + 1 /\ Contents(s) = Contents(t) \cup {x}
        BY <3>1, RangeAppend
      <3> HIDE DEF s
      <3>0. a = [queue |-> s, drops |-> b.drops + 1, lost |-> b.lost \cup {Head(b.queue)},
                 up |-> b.up]
        BY <2>2, <1>1 DEF Boxes, s, t
      <3>3. /\ a \in Boxes /\ a.queue = s
            /\ a.lost = b.lost \cup {Head(b.queue)} /\ a.up = b.up
        BY <3>0, <3>1, <3>2, <1>1 DEF Boxes
      <3>4. Len(a.queue) <= QueueDepth
        BY <3>1, <3>2, <3>3, <1>1
      <3> HIDE DEF a
      <3>6. Contents(a.queue) = Contents(t) \cup {x}
        BY <3>2, <3>3
      <3>5. Fits(a) /\ b.lost \subseteq a.lost /\ Held(a) \subseteq Held(b) \cup {x} /\ a.up
        BY <3>1, <3>3, <3>4, <3>6, <1>4 DEF Fits, Held
      <3> QED BY <3>5, <1>4 DEF a
    <2> QED BY <2>1, <2>2, <1>4, OfferCases
  <1> QED BY <1>1, <1>2, <1>3, <1>4

LEMMA OfferExact ==
  ASSUME NEW b, Fits(b), NEW x \in Items, Tidy(b.queue, b.lost),
         \A y \in Held(b) : Earlier(y, x)
  PROVE  /\ Tidy(Offer(b, x).queue, Offer(b, x).lost)
         /\ Offer(b, x).up => Held(Offer(b, x)) = Held(b) \cup {x}
  <1> DEFINE a == Offer(b, x)
  <1>1. /\ b.queue \in Seq(Items) /\ b.lost \subseteq Items /\ b.up \in BOOLEAN /\ b \in Boxes
        /\ Ordered(b.queue) /\ Contents(b.queue) \cap b.lost = {}
    BY DEF Fits, Boxes, Tidy
  <1>0. b.queue \in Seq(Items) => Contents(b.queue) \subseteq Items
    BY DEF Contents
  <1>2. x \notin Held(b) /\ \A y \in Contents(b.queue) : Earlier(y, x)
    <2>1. Held(b) \subseteq Items
      BY <1>0, <1>1 DEF Held
    <2> QED BY <2>1, EarlierOrder DEF Held
  <1>3. CASE ~b.up
    <2>1. a = b
      BY <1>3 DEF Offer
    <2> QED BY <2>1, <1>3
  <1>4. CASE b.up /\ a = [b EXCEPT !.queue = Append(b.queue, x)]
    <2>1. a.queue = Append(b.queue, x) /\ a.lost = b.lost
      BY <1>4, <1>1 DEF Boxes
    <2> HIDE DEF a
    <2>2. Contents(a.queue) = Contents(b.queue) \cup {x}
      BY <2>1, <1>1, RangeAppend
    <2>3. Ordered(a.queue)
      BY <2>1, <1>1, <1>2, OrderedAppend
    <2>4. Tidy(a.queue, a.lost) /\ Held(a) = Held(b) \cup {x}
      BY <2>1, <2>2, <2>3, <1>1, <1>2 DEF Tidy, Held
    <2> QED BY <2>4 DEF a
  <1>5. CASE b.up /\ a = [b EXCEPT !.drops = b.drops + 1, !.up = FALSE]
    <2>1. a.queue = b.queue /\ a.lost = b.lost /\ a.up = FALSE
      BY <1>5, <1>1 DEF Boxes
    <2> HIDE DEF a
    <2>2. Tidy(a.queue, a.lost) /\ ~a.up
      BY <2>1
    <2> QED BY <2>2 DEF a
  <1>6. CASE /\ b.up /\ b.queue # <<>>
             /\ a = [b EXCEPT !.queue = Append(Tail(b.queue), x), !.drops = b.drops + 1,
                             !.lost = b.lost \cup {Head(b.queue)}]
    <2>1. a.queue = Append(Tail(b.queue), x) /\ a.lost = b.lost \cup {Head(b.queue)}
      BY <1>6, <1>1 DEF Boxes
    <2> HIDE DEF a
    <2> DEFINE t == Tail(b.queue)
    <2>2. t \in Seq(Items) /\ Head(b.queue) \in Contents(b.queue)
      BY <1>1, <1>6, RangeTail
    <2>3. Ordered(t) /\ Contents(t) = Contents(b.queue) \ {Head(b.queue)}
      BY <1>1, <1>6, OrderedTail
    <2>7. a.queue = Append(t, x)
      BY <2>1
    <2> HIDE DEF t
    <2>4. Contents(a.queue) = (Contents(b.queue) \ {Head(b.queue)}) \cup {x}
      BY <2>7, <2>2, <2>3, RangeAppend
    <2>5. Ordered(a.queue)
      BY <2>7, <2>2, <2>3, <1>2, OrderedAppend
    <2>6. Tidy(a.queue, a.lost) /\ Held(a) = Held(b) \cup {x}
      BY <2>1, <2>2, <2>4, <2>5, <1>1, <1>2 DEF Tidy, Held
    <2> QED BY <2>6 DEF a
  <1> QED BY <1>1, <1>3, <1>4, <1>5, <1>6, OfferCases

\* One channel of publish_score_update, for connection c.
Via(c, n, h, b) == IF h \in Routes(Sub[c]) THEN Offer(b, <<n, h>>) ELSE b
Over(c, n, h) == IF h \in Routes(Sub[c]) THEN {<<n, h>>} ELSE {}

LEMMA ViaFits ==
  ASSUME NEW c, NEW n \in 1 .. MaxEvents, NEW h \in Channels, NEW b, Fits(b)
  PROVE  /\ Fits(Via(c, n, h, b))
         /\ b.lost \subseteq Via(c, n, h, b).lost
         /\ Held(Via(c, n, h, b)) \subseteq Held(b) \cup Over(c, n, h)
         /\ Via(c, n, h, b).up => b.up
         /\ b.up /\ ~Via(c, n, h, b).up => Via(c, n, h, b).drops > Limit
         /\ ~b.up => Via(c, n, h, b) = b
  <1>1. <<n, h>> \in Items
    BY DEF Items
  <1>2. CASE h \in Routes(Sub[c])
    <2> DEFINE x == <<n, h>>
    <2>1. Via(c, n, h, b) = Offer(b, x) /\ Over(c, n, h) = {x} /\ x \in Items
      BY <1>1, <1>2 DEF Via, Over
    <2> HIDE DEF x
    <2> QED BY <2>1, OfferFits
  <1>3. CASE h \notin Routes(Sub[c])
    <2>1. Via(c, n, h, b) = b
      BY <1>3 DEF Via
    <2> QED BY <2>1 DEF Held
  <1> QED BY <1>2, <1>3

LEMMA ViaExact ==
  ASSUME NEW c, NEW n \in 1 .. MaxEvents, NEW h \in Channels, NEW b, Fits(b),
         Tidy(b.queue, b.lost), \A y \in Held(b) : Earlier(y, <<n, h>>)
  PROVE  /\ Tidy(Via(c, n, h, b).queue, Via(c, n, h, b).lost)
         /\ Via(c, n, h, b).up => Held(Via(c, n, h, b)) = Held(b) \cup Over(c, n, h)
  <1>1. CASE h \in Routes(Sub[c])
    <2> DEFINE x == <<n, h>>
    <2>1. Via(c, n, h, b) = Offer(b, x) /\ Over(c, n, h) = {x} /\ x \in Items
      BY <1>1 DEF Via, Over, Items
    <2>2. \A y \in Held(b) : Earlier(y, x)
      OBVIOUS
    <2> HIDE DEF x
    <2> QED BY <2>1, <2>2, OfferExact
  <1>2. CASE h \notin Routes(Sub[c])
    <2>1. Via(c, n, h, b) = b /\ Over(c, n, h) = {}
      BY <1>2 DEF Via, Over
    <2> QED BY <2>1
  <1> QED BY <1>1, <1>2

\* What one event does to connection c.
LEMMA OfferedFacts ==
  ASSUME TypeOK, NEW c \in Conns, seq < MaxEvents,
         Tidy(queue[c], lost[c]),
         \A y \in Contents(queue[c]) \cup lost[c] : y[1] <= seq
  PROVE  LET a == Offered(c, seq + 1)
             all == Contents(queue[c]) \cup lost[c]
             new == {seq + 1} \X Routes(Sub[c])
         IN  /\ Fits(a) /\ lost[c] \subseteq a.lost
             /\ Held(a) \subseteq all \cup new
             /\ Tidy(a.queue, a.lost)
             /\ a.up => Held(a) = all \cup new
             /\ ~a.up => a.drops > Limit
  <1> DEFINE n == seq + 1
             b0 == Box(c)
             b1 == Via(c, n, "wallet", b0)
             b2 == Via(c, n, "pair", b1)
             b3 == Via(c, n, "all", b2)
             all == Contents(queue[c]) \cup lost[c]
  <1>1. n \in 1 .. MaxEvents /\ seq \in Nat /\ n > seq
    BY ServerAssumption DEF TypeOK
  <1>2. /\ Fits(b0) /\ b0.queue = queue[c] /\ b0.lost = lost[c] /\ b0.up
        /\ Held(b0) = all
    BY DEF TypeOK, Box, Fits, Boxes, Held
  <1>3. Offered(c, n) = b3
    BY DEF Offered, Via
  <1>4. {n} \X Routes(Sub[c]) = Over(c, n, "wallet") \cup Over(c, n, "pair") \cup Over(c, n, "all")
    <2>1. Routes(Sub[c]) \subseteq {"wallet", "pair", "all"}
      BY ServerAssumption DEF TypeOK, Routes, Channels
    <2> QED BY <2>1 DEF Over
  <1>5. \A y \in all : y[1] < n
    <2>1. all \subseteq Items
      BY DEF TypeOK, Contents
    <2>2. \A y \in all : y[1] \in Nat
      BY <2>1 DEF Items
    <2> QED BY <2>2, <1>1
  <1>6. /\ \A h : \A y \in all : Earlier(y, <<n, h>>)
        /\ Earlier(<<n, "wallet">>, <<n, "pair">>) /\ Earlier(<<n, "wallet">>, <<n, "all">>)
        /\ Earlier(<<n, "pair">>, <<n, "all">>)
    BY <1>1, <1>5 DEF Earlier, Place
  <1>7. {"wallet", "pair", "all"} \subseteq Channels
    BY DEF Channels
  <1> HIDE DEF n, b0, b1, b2, b3, all
  <1>8. /\ Fits(b1) /\ b0.lost \subseteq b1.lost
        /\ Held(b1) \subseteq all \cup Over(c, n, "wallet")
        /\ ~b1.up => b1.drops > Limit
    BY <1>1, <1>2, <1>7, ViaFits DEF b1
  <1>9. Tidy(b1.queue, b1.lost) /\ (b1.up => Held(b1) = all \cup Over(c, n, "wallet"))
    BY <1>1, <1>2, <1>6, <1>7, ViaExact DEF b1
  <1>10. /\ Fits(b2) /\ b1.lost \subseteq b2.lost
         /\ Held(b2) \subseteq Held(b1) \cup Over(c, n, "pair")
         /\ b2.up => b1.up
         /\ b1.up /\ ~b2.up => b2.drops > Limit
         /\ ~b1.up => b2 = b1
    BY <1>1, <1>8, <1>7, ViaFits DEF b2
  <1>11. Tidy(b2.queue, b2.lost) /\ (b2.up => Held(b2) = Held(b1) \cup Over(c, n, "pair"))
    <2>1. \A y \in Held(b1) : Earlier(y, <<n, "pair">>)
      BY <1>6, <1>8 DEF Over
    <2> QED BY <2>1, <1>1, <1>7, <1>8, <1>9, ViaExact DEF b2
  <1>12. /\ Fits(b3) /\ b2.lost \subseteq b3.lost
         /\ Held(b3) \subseteq Held(b2) \cup Over(c, n, "all")
         /\ b3.up => b2.up
         /\ b2.up /\ ~b3.up => b3.drops > Limit
         /\ ~b2.up => b3 = b2
    BY <1>1, <1>10, <1>7, ViaFits DEF b3
  <1>13. Tidy(b3.queue, b3.lost) /\ (b3.up => Held(b3) = Held(b2) \cup Over(c, n, "all"))
    <2>1. \A y \in Held(b2) : Earlier(y, <<n, "all">>)
      BY <1>6, <1>8, <1>10 DEF Over
    <2> QED BY <2>1, <1>1, <1>7, <1>10, <1>11, ViaExact DEF b3
  <1>14. lost[c] \subseteq b3.lost
    BY <1>2, <1>8, <1>10, <1>12
  <1>15. Held(b3) \subseteq all \cup ({n} \X Routes(Sub[c]))
    BY <1>4, <1>8, <1>10, <1>12
  <1>16. b3.up => Held(b3) = all \cup ({n} \X Routes(Sub[c]))
    BY <1>4, <1>9, <1>10, <1>11, <1>12, <1>13
  <1>17. ~b3.up => b3.drops > Limit
    BY <1>8, <1>10, <1>12
  <1> QED BY <1>3, <1>12, <1>13, <1>14, <1>15, <1>16, <1>17 DEF n, all

------------------------------------------------------------------------------
(* The replay buffer *)

Ascending(s) == \A j, k \in 1 .. Len(s) : j < k => s[j] < s[k]

\* Number v can be replayed, or was pushed out by newer ones.
Replayable(v, s) == v \in Contents(s) \/ (Len(s) = ReplaySize /\ \A m \in Contents(s) : m > v)

LEMMA Window ==
  ASSUME NEW S, NEW s \in Seq(S), NEW m \in 1 .. Len(s)
  PROVE  LET w == SubSeq(s, Len(s) - m + 1, Len(s))
         IN  /\ w \in Seq(S) /\ Len(w) = m
             /\ \A k \in 1 .. m : w[k] = s[Len(s) - m + k]
  <1> DEFINE i == Len(s) - m + 1
             j == Len(s)
  <1>1. i \in Int /\ j \in Int /\ m \in Nat /\ i <= j /\ j - i + 1 = m /\ i >= 1
    OBVIOUS
  <1>2. \A k \in i .. j : s[k] \in S
    OBVIOUS
  <1>3. \A k \in 1 .. m : i + k - 1 = Len(s) - m + k
    OBVIOUS
  <1> HIDE DEF i, j
  <1>4. /\ SubSeq(s, i, j) \in Seq(S)
        /\ Len(SubSeq(s, i, j)) = j - i + 1
        /\ \A k \in 1 .. j - i + 1 : SubSeq(s, i, j)[k] = s[i + k - 1]
    BY <1>1, <1>2
  <1> QED BY <1>1, <1>3, <1>4 DEF i, j

LEMMA LastType ==
  ASSUME NEW s \in Seq(1 .. MaxEvents), NEW n \in 1 .. MaxEvents
  PROVE  Last(Append(s, n), ReplaySize) \in Seq(1 .. MaxEvents)
  <1> DEFINE a == Append(s, n)
  <1>1. a \in Seq(1 .. MaxEvents) /\ Len(a) \in Nat /\ ReplaySize \in Nat \ {0}
    BY ServerAssumption
  <1> HIDE DEF a
  <1>2. CASE Len(a) <= ReplaySize
    BY <1>1, <1>2 DEF Last, a
  <1>3. CASE ~ (Len(a) <= ReplaySize)
    <2>1. ReplaySize \in 1 .. Len(a)
      BY <1>1, <1>3
    <2>2. SubSeq(a, Len(a) - ReplaySize + 1, Len(a)) \in Seq(1 .. MaxEvents)
      BY <1>1, <2>1, Window
    <2> QED BY <2>2, <1>3 DEF Last, a
  <1> QED BY <1>2, <1>3

LEMMA LastKeeps ==
  ASSUME NEW s \in Seq(1 .. MaxEvents), NEW n \in 1 .. MaxEvents,
         Ascending(s), Len(s) <= ReplaySize, \A m \in Contents(s) : m < n
  PROVE  LET r == Last(Append(s, n), ReplaySize)
         IN  /\ Ascending(r) /\ Len(r) <= ReplaySize
             /\ \A m \in Contents(r) : m <= n
             /\ n \in Contents(r)
             /\ \A v \in 1 .. n - 1 : Replayable(v, s) => Replayable(v, r)
  <1> DEFINE a == Append(s, n)
             r == Last(a, ReplaySize)
  <1>1. ReplaySize \in Nat \ {0} /\ Len(s) \in Nat /\ n \in Nat
    BY ServerAssumption
  <1>2. a \in Seq(1 .. MaxEvents) /\ Len(a) = Len(s) + 1 /\ Contents(a) = Contents(s) \cup {n}
        /\ a[Len(s) + 1] = n /\ \A k \in 1 .. Len(s) : a[k] = s[k]
    <2>1. a[Len(s) + 1] = n /\ \A k \in 1 .. Len(s) : a[k] = s[k]
      OBVIOUS
    <2> QED BY <2>1, RangeAppend
  <1>3. \A k \in 1 .. Len(s) : s[k] \in Contents(s) /\ s[k] \in Nat
    <2>1. \A k \in 1 .. Len(s) : s[k] \in 1 .. MaxEvents /\ s[k] \in Contents(s)
      BY Elements
    <2> QED BY <2>1
  <1>7. /\ \A k \in 1 .. Len(a) : a[k] \in Nat /\ a[k] \in Contents(a)
        /\ \A m \in Contents(a) : m <= n
    <2>1. \A k \in 1 .. Len(a) : a[k] \in 1 .. MaxEvents /\ a[k] \in Contents(a)
      BY <1>2, Elements
    <2>2. \A m \in Contents(s) : m \in 1 .. MaxEvents
      BY Elements
    <2>3. \A m \in Contents(a) : m <= n
      BY <1>1, <1>2, <2>2
    <2> QED BY <2>1, <2>3
  <1> HIDE DEF a
  <1>4. Ascending(a)
    <2>1. ASSUME NEW j \in 1 .. Len(a), NEW k \in 1 .. Len(a), j < k PROVE a[j] < a[k]
      <3>1. j \in 1 .. Len(s) /\ a[j] = s[j]
        BY <1>1, <1>2, <2>1
      <3>2. CASE k = Len(s) + 1
        BY <3>1, <3>2, <1>2, <1>3
      <3>3. CASE k # Len(s) + 1
        <4>1. k \in 1 .. Len(s) /\ a[k] = s[k]
          BY <3>3, <1>1, <1>2
        <4> QED BY <4>1, <3>1, <2>1 DEF Ascending
      <3> QED BY <3>2, <3>3
    <2> QED BY <2>1 DEF Ascending
  <1>5. CASE Len(s) < ReplaySize
    <2>1. r = a
      BY <1>1, <1>2, <1>5 DEF Last
    <2>2. ASSUME NEW v \in 1 .. n - 1, Replayable(v, s) PROVE Replayable(v, a)
      BY <2>2, <1>1, <1>2, <1>5 DEF Replayable
    <2> QED BY <2>1, <2>2, <1>7, <1>1, <1>2, <1>4, <1>5 DEF a
  <1>6. CASE Len(s) = ReplaySize
    <2>1. /\ r = SubSeq(a, Len(a) - ReplaySize + 1, Len(a)) /\ Len(a) = ReplaySize + 1
          /\ ReplaySize \in 1 .. Len(a) /\ Len(a) - ReplaySize = 1
      BY <1>1, <1>2, <1>6 DEF Last
    <2>2. /\ Len(r) = ReplaySize /\ r \in Seq(1 .. MaxEvents)
          /\ \A k \in 1 .. ReplaySize : r[k] = a[k + 1] /\ k + 1 \in 1 .. Len(a)
      <3>1. /\ Len(r) = ReplaySize /\ r \in Seq(1 .. MaxEvents)
            /\ \A k \in 1 .. ReplaySize : r[k] = a[Len(a) - ReplaySize + k]
        <4> HIDE DEF r
        <4>1. LET w == SubSeq(a, Len(a) - ReplaySize + 1, Len(a))
              IN  /\ w \in Seq(1 .. MaxEvents) /\ Len(w) = ReplaySize
                  /\ \A k \in 1 .. ReplaySize : w[k] = a[Len(a) - ReplaySize + k]
          BY <2>1, <1>2, Window
        <4> QED BY <4>1, <2>1
      <3>2. \A k \in 1 .. ReplaySize : Len(a) - ReplaySize + k = k + 1 /\ k + 1 \in 1 .. Len(a)
        BY <2>1, <1>1
      <3> QED BY <3>1, <3>2
    <2> HIDE DEF r
    <2>3. \A y : y \in Contents(r) <=> \E k \in 1 .. ReplaySize : y = a[k + 1]
      <3>1. DOMAIN r = 1 .. ReplaySize
        BY <2>2, <1>1
      <3> QED BY <3>1, <2>2 DEF Contents
    <2>4. Ascending(r)
      <3>1. \A j, k \in 1 .. ReplaySize : j < k => j + 1 < k + 1
        BY <1>1
      <3> QED BY <3>1, <2>2, <1>4 DEF Ascending
    <2>5. n \in Contents(r)
      <3>1. ReplaySize \in 1 .. ReplaySize /\ a[ReplaySize + 1] = n
        BY <1>1, <1>2, <1>6
      <3> QED BY <3>1, <2>3
    <2>6. \A m \in Contents(r) : m \in Contents(a) /\ m > a[1]
      <3>1. ASSUME NEW m \in Contents(r) PROVE m \in Contents(a) /\ m > a[1]
        <4>1. PICK k \in 1 .. ReplaySize : m = a[k + 1]
          BY <2>3
        <4>2. k + 1 \in 1 .. Len(a) /\ 1 \in 1 .. Len(a) /\ 1 < k + 1
          BY <2>1, <1>1
        <4>3. a[1] < a[k + 1] /\ a[k + 1] \in Contents(a)
          BY <4>2, <1>7, <1>4 DEF Ascending
        <4>4. a[1] \in Nat /\ a[k + 1] \in Nat
          BY <4>2, <1>7
        <4> QED BY <4>1, <4>3, <4>4
      <3> QED BY <3>1
    <2>8. ASSUME NEW v \in 1 .. n - 1, Replayable(v, s) PROVE Replayable(v, r)
      <3>1. CASE v \in Contents(s)
        <4>1. PICK j \in 1 .. Len(s) : v = s[j]
          BY <3>1 DEF Contents
        <4>2. CASE j = 1
          <5>1. a[1] = v
            BY <4>1, <4>2, <1>2
          <5> QED BY <5>1, <2>2, <2>6 DEF Replayable
        <4>3. CASE j # 1
          <5>1. j - 1 \in 1 .. ReplaySize /\ (j - 1) + 1 = j /\ a[j] = v
            BY <4>1, <4>3, <1>1, <1>2, <1>6
          <5>2. v \in Contents(r)
            BY <5>1, <2>3
          <5> QED BY <5>2 DEF Replayable
        <4> QED BY <4>2, <4>3
      <3>2. CASE v \notin Contents(s)
        <4>1. \A m \in Contents(s) : m > v
          BY <3>2, <2>8 DEF Replayable
        <4>2. n > v
          BY <1>1
        <4>3. \A m \in Contents(r) : m > v
          BY <4>1, <4>2, <2>6, <1>2
        <4> QED BY <4>3, <2>2 DEF Replayable
      <3> QED BY <3>1, <3>2
    <2> QED BY <2>2, <2>4, <2>5, <2>6, <2>8, <1>1, <1>7 DEF r, a
  <1> QED BY <1>1, <1>5, <1>6

------------------------------------------------------------------------------
(* The inductive invariant *)

\* An entry of _clients is an open connection of that client id.
RegisteredOpen ==
  \A i \in Clients : registered[i] # None => conn[registered[i]] = "open" /\ Sub[registered[i]] = i

\* A connection that has not been made has been offered nothing.
Fresh == \A c \in Conns : conn[c] = "new" => queue[c] = <<>> /\ due[c] = {} /\ lost[c] = {}

\* Updates come from events published, wait in order and are not lost too.
Numbered == \A c \in Conns : \A y \in Contents(queue[c]) \cup lost[c] : y[1] <= seq
InOrder == \A c \in Conns : Tidy(queue[c], lost[c])

DueIsQueued == \A c \in Conns : conn[c] = "open" /\ Registered(c) => due[c] = Contents(queue[c])

\* The wallet's replay buffer, and that it has what was offered and not sent.
ReplayInOrder ==
  /\ Ascending(replay["wallet"]) /\ Len(replay["wallet"]) <= ReplaySize
  /\ \A m \in Contents(replay["wallet"]) : m <= seq

Kept ==
  \A c \in Conns : \A x \in Contents(queue[c]) \cup lost[c] :
    x[2] = "wallet" => Replayable(x[1], replay["wallet"])

IInv ==
  /\ TypeOK /\ NothingLeaks /\ RegisteredOpen /\ Fresh /\ Numbered /\ InOrder
  /\ DueIsQueued /\ StaysRegistered /\ ReplayInOrder /\ Kept

\* Every step but Publish.
Quiet ==
  \E c \in Conns :
    \/ Connect(c) \/ RefusalCloses(c) \/ SocketCloses(c) \/ Cleanup(c)
    \/ \E hs \in Requests : Subscribe(c, hs) \/ Unsubscribe(c, hs)
    \/ Send(c) \/ RateLimited(c)

LEMMA InitInv == Init => IInv
  <1> SUFFICES ASSUME Init PROVE IInv
    OBVIOUS
  <1> USE ServerAssumption
  <1>1. TypeOK
    <2>1. queue \in [Conns -> Seq(Items)] /\ \A c \in Conns : Len(queue[c]) <= QueueDepth
      <3>1. <<>> \in Seq(Items) /\ Len(<<>>) = 0
        OBVIOUS
      <3> QED BY <3>1 DEF Init
    <2>2. replay \in [Channels -> Seq(1 .. MaxEvents)]
      BY DEF Init
    <2>3. drops \in [Conns -> Nat] /\ requests \in 0 .. MaxRequests /\ seq \in 0 .. MaxEvents
      BY DEF Init
    <2> QED BY <2>1, <2>2, <2>3 DEF Init, TypeOK
  <1>2. NothingLeaks
    <2>1. Sessions = {}
      BY DEF Init, Sessions
    <2>2. Cardinality(Sessions) = 0
      BY <2>1, FS_EmptySet
    <2> QED BY <2>2 DEF Init, NothingLeaks
  <1>3. Contents(<<>>) = {}
    BY DEF Contents
  <1>4. RegisteredOpen /\ Fresh /\ Numbered /\ StaysRegistered
    BY <1>3 DEF Init, RegisteredOpen, Fresh, Numbered, StaysRegistered, OnlyOne
  <1>5. InOrder /\ DueIsQueued
    BY <1>3 DEF Init, InOrder, Tidy, Ordered, DueIsQueued
  <1>6. ReplayInOrder
    <2>1. replay["wallet"] = <<>>
      BY DEF Init, Channels
    <2> QED BY <2>1, <1>3 DEF ReplayInOrder, Ascending
  <1>7. Kept
    BY <1>3 DEF Init, Kept
  <1> QED BY <1>1, <1>2, <1>4, <1>5, <1>6, <1>7 DEF IInv

------------------------------------------------------------------------------
(* Steps that publish nothing: what each kind of them does *)

Froze(c) ==
  /\ frozen' = TRUE
  /\ subscribed' \in {subscribed, [subscribed EXCEPT ![Sub[c]] = {}]}
  /\ UNCHANGED <<policy, conn, closed, registered, outbox, requests, stream, lock>>

Refused(c) ==
  /\ conn[c] = "new" /\ conn' = [conn EXCEPT ![c] = "refused"] /\ lock' = c
  /\ UNCHANGED <<policy, closed, registry, outbox, requests, stream, frozen>>

Opened(c) ==
  /\ conn[c] = "new" /\ conn' = [conn EXCEPT ![c] = "open"]
  /\ ~ (Cardinality(Sessions) >= MaxClients)
  /\ registered' = [registered EXCEPT ![Sub[c]] = c]
  /\ UNCHANGED <<policy, closed, subscribed, outbox, requests, stream, lock, frozen>>

Left(c) ==
  /\ conn[c] \in {"refused", "open"}
  /\ Unsubscribed(c) /\ Forget(c)
  /\ lock' \in {lock, None}
  /\ closed' \in {closed, closed \ {c}}
  /\ \/ UNCHANGED outbox
     \/ /\ queue' = [queue EXCEPT ![c] = <<>>] /\ drops' = [drops EXCEPT ![c] = 0]
        /\ due' = [due EXCEPT ![c] = {}] /\ lost' = [lost EXCEPT ![c] = {}]
  /\ UNCHANGED <<policy, requests, stream, frozen>>

Asked(c) ==
  /\ conn[c] = "open" /\ requests < MaxRequests /\ requests' = requests + 1
  /\ \E s \in SUBSET Channels : subscribed' = [subscribed EXCEPT ![Sub[c]] = s]
  /\ UNCHANGED <<policy, conn, closed, registered, outbox, stream, lock, frozen>>

Taken(c) ==
  /\ conn[c] = "open" /\ queue[c] # <<>>
  /\ queue' = [queue EXCEPT ![c] = Tail(queue[c])]
  /\ due' = [due EXCEPT ![c] = due[c] \ {Head(queue[c])}]
  /\ \E l \in {lost[c], lost[c] \cup {Head(queue[c])}} : lost' = [lost EXCEPT ![c] = l]
  /\ UNCHANGED <<policy, conn, closed, registry, drops, requests, stream, lock, frozen>>

Kind(c) ==
  Froze(c) \/ Refused(c) \/ Opened(c) \/ SocketCloses(c) \/ Left(c) \/ Asked(c) \/ Taken(c)

LEMMA QuietKinds ==
  ASSUME TypeOK, Quiet
  PROVE  \E c \in Conns : Kind(c)
  <1> USE ServerAssumption DEF outbox, stream, registry
  <1>1. PICK c \in Conns :
          \/ Connect(c) \/ RefusalCloses(c) \/ SocketCloses(c) \/ Cleanup(c)
          \/ \E hs \in Requests : Subscribe(c, hs) \/ Unsubscribe(c, hs)
          \/ Send(c) \/ RateLimited(c)
    BY DEF Quiet
  <1>2. CASE Connect(c)
    <2>1. CASE lock # None
      <3>1. Froze(c)
        BY <1>2, <2>1 DEF Connect, Locked, Froze
      <3> QED BY <3>1 DEF Kind
    <2>2. CASE lock = None /\ Cardinality(Sessions) >= MaxClients
      <3>1. Refused(c)
        BY <1>2, <2>2 DEF Connect, Locked, Refused
      <3> QED BY <3>1 DEF Kind
    <2>3. CASE lock = None /\ ~ (Cardinality(Sessions) >= MaxClients)
      <3>1. Opened(c)
        BY <1>2, <2>3 DEF Connect, Locked, Opened
      <3> QED BY <3>1 DEF Kind
    <2> QED BY <2>1, <2>2, <2>3
  <1>3. CASE RefusalCloses(c)
    <2>1. Left(c)
      BY <1>3 DEF RefusalCloses, Left
    <2> QED BY <2>1 DEF Kind
  <1>4. CASE SocketCloses(c)
    BY <1>4 DEF Kind
  <1>5. CASE Cleanup(c)
    <2>1. CASE lock # None
      <3>1. Froze(c)
        BY <1>5, <2>1 DEF Cleanup, Locked, Unsubscribed, Froze
      <3> QED BY <3>1 DEF Kind
    <2>2. CASE lock = None
      <3>1. Left(c)
        BY <1>5, <2>2 DEF Cleanup, Locked, Ended, Left
      <3> QED BY <3>1 DEF Kind
    <2> QED BY <2>1, <2>2
  <1>6. CASE \E hs \in Requests : Subscribe(c, hs) \/ Unsubscribe(c, hs)
    <2>1. PICK hs \in Requests : Subscribe(c, hs) \/ Unsubscribe(c, hs)
      BY <1>6
    <2>2. hs \subseteq Channels /\ subscribed[Sub[c]] \subseteq Channels
      BY DEF TypeOK, Channels
    <2>3. Asked(c)
      <3>1. CASE Subscribe(c, hs)
        <4>1. subscribed[Sub[c]] \cup hs \in SUBSET Channels
          BY <2>2
        <4> QED BY <3>1, <4>1 DEF Subscribe, Request, Asked
      <3>2. CASE Unsubscribe(c, hs)
        <4>1. subscribed[Sub[c]] \ hs \in SUBSET Channels
          BY <2>2
        <4> QED BY <3>2, <4>1 DEF Unsubscribe, Request, Asked
      <3> QED BY <2>1, <3>1, <3>2
    <2> QED BY <2>3 DEF Kind
  <1>7. CASE Send(c)
    <2>1. lost' = [lost EXCEPT ![c] = lost[c]]
      BY <1>7 DEF Send, TypeOK
    <2>2. Taken(c)
      BY <1>7, <2>1 DEF Send, Taken
    <2> QED BY <2>2 DEF Kind
  <1>8. CASE RateLimited(c)
    <2>1. Taken(c)
      BY <1>8 DEF RateLimited, Taken
    <2> QED BY <2>1 DEF Kind
  <1> QED BY <1>1, <1>2, <1>3, <1>4, <1>5, <1>6, <1>7, <1>8

\* What such a step may do to a connection's queue.
Untouched(c) ==
  queue'[c] = queue[c] /\ lost'[c] = lost[c] /\ due'[c] = due[c] /\ drops'[c] = drops[c]
Emptied(c) == queue'[c] = <<>> /\ lost'[c] = {} /\ due'[c] = {} /\ conn'[c] = "gone"
Dequeued(c) ==
  /\ conn[c] = "open" /\ conn'[c] = "open" /\ queue[c] # <<>>
  /\ queue'[c] = Tail(queue[c]) /\ drops'[c] = drops[c]
  /\ due'[c] = due[c] \ {Head(queue[c])}
  /\ lost'[c] \in {lost[c], lost[c] \cup {Head(queue[c])}}

LEMMA QuietFrame ==
  ASSUME TypeOK, NEW c \in Conns, Kind(c)
  PROVE  /\ UNCHANGED <<stream, policy>>
         /\ \A d \in Conns : Untouched(d) \/ Emptied(d) \/ Dequeued(d)
         /\ \A d \in Conns : conn'[d] = "new" => conn[d] = "new" /\ Untouched(d)
         /\ \A d \in Conns : conn'[d] = "open" /\ conn[d] # "open" => conn[d] = "new" /\ Untouched(d)
  <1> USE DEF TypeOK, outbox, stream, registry
  <1>1. CASE Froze(c)
    BY <1>1 DEF Froze, Untouched
  <1>2. CASE Refused(c)
    BY <1>2 DEF Refused, Untouched
  <1>3. CASE Opened(c)
    BY <1>3 DEF Opened, Untouched
  <1>4. CASE SocketCloses(c)
    BY <1>4 DEF SocketCloses, Untouched
  <1>5. CASE Left(c)
    <2>1. conn'[c] = "gone" /\ \A d \in Conns \ {c} : conn'[d] = conn[d]
      BY <1>5 DEF Left, Forget
    <2>2. \A d \in Conns \ {c} : Untouched(d)
      BY <1>5 DEF Left, Untouched
    <2>3. Untouched(c) \/ Emptied(c)
      BY <1>5, <2>1 DEF Left, Untouched, Emptied
    <2>4. UNCHANGED <<stream, policy>>
      BY <1>5 DEF Left
    <2> QED BY <2>1, <2>2, <2>3, <2>4
  <1>6. CASE Asked(c)
    BY <1>6 DEF Asked, Untouched
  <1>7. CASE Taken(c)
    <2>1. UNCHANGED <<stream, policy, conn>> /\ conn[c] = "open"
      BY <1>7 DEF Taken
    <2>2. \A d \in Conns \ {c} : Untouched(d)
      BY <1>7 DEF Taken, Untouched
    <2>3. Dequeued(c)
      BY <1>7 DEF Taken, Dequeued
    <2> QED BY <2>1, <2>2, <2>3
  <1> QED BY <1>1, <1>2, <1>3, <1>4, <1>5, <1>6, <1>7 DEF Kind

LEMMA QuietType ==
  ASSUME TypeOK, NEW c \in Conns, Kind(c)
  PROVE  TypeOK'
  <1>0. Sub[c] \in Clients
    BY ServerAssumption
  <1>1. CASE Froze(c)
    <2>1. subscribed' \in [Clients -> SUBSET Channels]
      BY <1>0, <1>1 DEF Froze, TypeOK
    <2>2. UNCHANGED <<policy, conn, closed, registered, queue, drops, due, lost, requests,
                      seq, replay, lock>> /\ frozen' \in BOOLEAN
      BY <1>1 DEF Froze, outbox, stream
    <2> QED BY <2>1, <2>2 DEF TypeOK
  <1>2. CASE Refused(c)
    BY <1>2 DEF TypeOK, Refused, registry, outbox, stream
  <1>3. CASE Opened(c)
    <2>1. registered' \in [Clients -> Conns \cup {None}]
      BY <1>0, <1>3 DEF Opened, TypeOK
    <2>2. conn' \in [Conns -> {"new", "refused", "open", "gone"}]
      BY <1>3 DEF Opened, TypeOK
    <2> QED BY <2>1, <2>2, <1>3 DEF TypeOK, Opened, outbox, stream
  <1>4. CASE SocketCloses(c)
    BY <1>4 DEF TypeOK, SocketCloses, registry, outbox, stream
  <1>5. CASE Left(c)
    <2>1. registered' \in [Clients -> Conns \cup {None}] /\ subscribed' \in [Clients -> SUBSET Channels]
      BY <1>0, <1>5 DEF Left, Forget, Unsubscribed, TypeOK
    <2>2. conn' \in [Conns -> {"new", "refused", "open", "gone"}]
      BY <1>5 DEF Left, Forget, TypeOK
    <2>3. lock' \in Conns \cup {None} /\ closed' \in SUBSET Conns
      BY <1>5 DEF Left, TypeOK
    <2>4. /\ queue' \in [Conns -> Seq(Items)] /\ \A d \in Conns : Len(queue'[d]) <= QueueDepth
      <3>1. <<>> \in Seq(Items) /\ Len(<<>>) = 0 /\ QueueDepth \in Nat
        BY ServerAssumption
      <3>2. CASE queue' = queue
        BY <3>2 DEF TypeOK
      <3>3. CASE queue' = [queue EXCEPT ![c] = <<>>]
        BY <3>1, <3>3 DEF TypeOK
      <3> QED BY <3>2, <3>3, <1>5 DEF Left, outbox
    <2>5. /\ drops' \in [Conns -> Nat] /\ due' \in [Conns -> SUBSET Items]
          /\ lost' \in [Conns -> SUBSET Items]
      <3>1. CASE UNCHANGED outbox
        BY <3>1 DEF TypeOK, outbox
      <3>2. CASE /\ drops' = [drops EXCEPT ![c] = 0]
                 /\ due' = [due EXCEPT ![c] = {}] /\ lost' = [lost EXCEPT ![c] = {}]
        BY <3>2 DEF TypeOK
      <3> QED BY <3>1, <3>2, <1>5 DEF Left
    <2>6. UNCHANGED <<policy, requests, seq, replay, frozen>>
      BY <1>5 DEF Left, stream
    <2> QED BY <2>1, <2>2, <2>3, <2>4, <2>5, <2>6 DEF TypeOK
  <1>6. CASE Asked(c)
    <2>1. subscribed' \in [Clients -> SUBSET Channels]
      BY <1>0, <1>6 DEF Asked, TypeOK
    <2>2. requests' \in 0 .. MaxRequests
      BY <1>6, ServerAssumption DEF Asked, TypeOK
    <2> QED BY <2>1, <2>2, <1>6 DEF TypeOK, Asked, outbox, stream
  <1>7. CASE Taken(c)
    <2>1. queue[c] \in Seq(Items) /\ queue[c] # <<>> /\ Len(queue[c]) <= QueueDepth
      BY <1>7 DEF TypeOK, Taken
    <2>2. /\ Tail(queue[c]) \in Seq(Items) /\ Head(queue[c]) \in Items
          /\ Len(Tail(queue[c])) <= QueueDepth
      BY <2>1, RangeTail, ServerAssumption
    <2>3. queue' \in [Conns -> Seq(Items)] /\ \A d \in Conns : Len(queue'[d]) <= QueueDepth
      BY <1>7, <2>2 DEF TypeOK, Taken
    <2>4. due' \in [Conns -> SUBSET Items]
      BY <1>7 DEF TypeOK, Taken
    <2>5. lost' \in [Conns -> SUBSET Items]
      BY <1>7, <2>2 DEF TypeOK, Taken
    <2> QED BY <2>3, <2>4, <2>5, <1>7 DEF TypeOK, Taken, registry, stream
  <1> QED BY <1>1, <1>2, <1>3, <1>4, <1>5, <1>6, <1>7 DEF Kind

LEMMA QuietRegisteredOpen ==
  ASSUME TypeOK, RegisteredOpen, NEW c \in Conns, Kind(c)
  PROVE  RegisteredOpen'
  <1>0. Sub[c] \in Clients /\ None \notin Conns
    BY ServerAssumption
  <1>1. SUFFICES ASSUME NEW i \in Clients, registered'[i] # None
                 PROVE  conn'[registered'[i]] = "open" /\ Sub[registered'[i]] = i
    BY DEF RegisteredOpen
  <1>2. registered[i] # None => /\ conn[registered[i]] = "open" /\ Sub[registered[i]] = i
                                /\ registered[i] \in Conns
    BY DEF RegisteredOpen, TypeOK
  <1>3. CASE Froze(c) \/ SocketCloses(c) \/ Asked(c) \/ Taken(c)
    <2>1. registered' = registered /\ conn' = conn
      BY <1>3 DEF Froze, SocketCloses, Asked, Taken, registry
    <2> QED BY <2>1, <1>1, <1>2
  <1>4. CASE Refused(c)
    BY <1>1, <1>2, <1>4 DEF Refused, registry, TypeOK
  <1>5. CASE Opened(c)
    <2>1. CASE i = Sub[c]
      BY <2>1, <1>0, <1>5 DEF Opened, TypeOK
    <2>2. CASE i # Sub[c]
      <3>1. registered'[i] = registered[i]
        BY <2>2, <1>5 DEF Opened, TypeOK
      <3>2. registered[i] # c
        BY <2>2, <3>1, <1>1, <1>2
      <3> QED BY <3>1, <3>2, <1>1, <1>2, <1>5 DEF Opened, TypeOK
    <2> QED BY <2>1, <2>2
  <1>6. CASE Left(c)
    <2>1. i # Sub[c] /\ registered'[i] = registered[i]
      BY <1>0, <1>1, <1>6 DEF Left, Forget, TypeOK
    <2>2. registered[i] # c
      BY <2>1, <1>1, <1>2
    <2> QED BY <2>1, <2>2, <1>1, <1>2, <1>6 DEF Left, Forget, TypeOK
  <1> QED BY <1>3, <1>4, <1>5, <1>6 DEF Kind

LEMMA SessionsFinite ==
  ASSUME TypeOK
  PROVE  IsFiniteSet(Sessions) /\ Cardinality(Sessions) \in Nat
  <1>1. Sessions \subseteq Clients
    BY DEF Sessions
  <1>2. IsFiniteSet(Sessions)
    BY <1>1, ServerAssumption, FS_Subset
  <1> QED BY <1>2, FS_CardinalityType

LEMMA QuietNothingLeaks ==
  ASSUME TypeOK, NothingLeaks, NEW c \in Conns, Kind(c)
  PROVE  NothingLeaks'
  <1>0. Sub[c] \in Clients /\ None \notin Conns
    BY ServerAssumption
  <1> DEFINE Finished(i) == \A d \in Conns : Sub[d] = i => conn[d] # "open"
             Free(i) == registered[i] = None /\ subscribed[i] = {}
  <1>1. \A i \in Clients : Finished(i) => Free(i)
    BY DEF NothingLeaks
  <1>2. Cardinality(Sessions') <= MaxClients
    <2>1. IsFiniteSet(Sessions) /\ Cardinality(Sessions) \in Nat
      BY SessionsFinite
    <2>2. CASE Froze(c) \/ Refused(c) \/ SocketCloses(c) \/ Asked(c) \/ Taken(c)
      <3>1. registered' = registered
        BY <2>2 DEF Froze, Refused, SocketCloses, Asked, Taken, registry
      <3>2. Sessions' = Sessions
        BY <3>1 DEF Sessions
      <3> QED BY <3>2 DEF NothingLeaks
    <2>3. CASE Opened(c)
      <3>1. Sessions' \subseteq Sessions \cup {Sub[c]}
        BY <2>3 DEF Opened, Sessions, TypeOK
      <3>2. /\ IsFiniteSet(Sessions \cup {Sub[c]})
            /\ Cardinality(Sessions \cup {Sub[c]}) <= Cardinality(Sessions) + 1
        BY <2>1, FS_AddElement
      <3>3. Cardinality(Sessions') <= Cardinality(Sessions \cup {Sub[c]})
        BY <3>1, <3>2, FS_Subset
      <3>4. Cardinality(Sessions) < MaxClients
        BY <2>1, <2>3, ServerAssumption DEF Opened
      <3>5. IsFiniteSet(Sessions') /\ Cardinality(Sessions') \in Nat
            /\ Cardinality(Sessions \cup {Sub[c]}) \in Nat
        BY <3>1, <3>2, FS_Subset, FS_CardinalityType
      <3> QED BY <2>1, <3>2, <3>3, <3>4, <3>5, ServerAssumption
    <2>4. CASE Left(c)
      <3>1. Sessions' \subseteq Sessions
        BY <2>4, <1>0 DEF Left, Forget, Sessions, TypeOK
      <3>2. IsFiniteSet(Sessions') /\ Cardinality(Sessions') <= Cardinality(Sessions)
        BY <2>1, <3>1, FS_Subset
      <3>3. Cardinality(Sessions') \in Nat
        BY <3>2, FS_CardinalityType
      <3> QED BY <2>1, <3>2, <3>3, ServerAssumption DEF NothingLeaks
    <2> QED BY <2>2, <2>3, <2>4 DEF Kind
  <1>3. ASSUME NEW i \in Clients, Finished(i)' PROVE Free(i)'
    <2>1. CASE Froze(c)
      <3>1. Free(i)
        BY <1>1, <1>3, <2>1 DEF Froze
      <3> QED BY <3>1, <2>1 DEF Froze, TypeOK
    <2>2. CASE Refused(c)
      <3>1. Finished(i)
        BY <1>3, <2>2 DEF Refused, TypeOK
      <3> QED BY <3>1, <1>1, <2>2 DEF Refused, registry
    <2>3. CASE Opened(c)
      <3>1. i # Sub[c]
        BY <1>3, <2>3 DEF Opened, TypeOK
      <3>2. Finished(i)
        BY <1>3, <2>3, <3>1 DEF Opened, TypeOK
      <3> QED BY <3>1, <3>2, <1>1, <2>3 DEF Opened, TypeOK
    <2>4. CASE SocketCloses(c) \/ Taken(c)
      <3>1. UNCHANGED <<conn, registered, subscribed>>
        BY <2>4 DEF SocketCloses, Taken, registry
      <3> QED BY <3>1, <1>1, <1>3
    <2>5. CASE Left(c)
      <3>1. CASE i = Sub[c]
        BY <3>1, <1>0, <2>5 DEF Left, Forget, Unsubscribed, TypeOK
      <3>2. CASE i # Sub[c]
        <4>1. Finished(i)
          BY <1>3, <2>5, <3>2 DEF Left, Forget, TypeOK
        <4> QED BY <4>1, <1>1, <2>5, <3>2 DEF Left, Forget, Unsubscribed, TypeOK
      <3> QED BY <3>1, <3>2
    <2>6. CASE Asked(c)
      <3>1. i # Sub[c] /\ conn' = conn
        BY <1>3, <2>6 DEF Asked
      <3>2. Free(i)
        BY <3>1, <1>1, <1>3
      <3> QED BY <3>1, <3>2, <2>6 DEF Asked, TypeOK
    <2> QED BY <2>1, <2>2, <2>3, <2>4, <2>5, <2>6 DEF Kind
  <1> QED BY <1>2, <1>3 DEF NothingLeaks

LEMMA QuietStaysRegistered ==
  ASSUME TypeOK, StaysRegistered, NEW c \in Conns, Kind(c)
  PROVE  StaysRegistered'
  <1> DEFINE Slow(d) == drops[d] > IF policy = "disconnect" THEN 0 ELSE MaxDrops
  <1>1. SUFFICES ASSUME NEW d \in Conns, conn'[d] = "open", d \notin closed', OnlyOne(d)'
                 PROVE  Registered(d)' \/ Slow(d)'
    BY DEF StaysRegistered
  <1>2. conn[d] = "open" /\ d \notin closed /\ OnlyOne(d) => Registered(d) \/ Slow(d)
    BY DEF StaysRegistered
  <1>0. Sub[c] \in Clients /\ Sub[d] \in Clients
    BY ServerAssumption
  <1>3. CASE Froze(c) \/ Asked(c) \/ Taken(c)
    <2>1. UNCHANGED <<conn, closed, registered, drops, policy>>
      BY <1>3 DEF Froze, Asked, Taken, outbox, registry
    <2> QED BY <2>1, <1>1, <1>2 DEF OnlyOne, Registered
  <1>4. CASE SocketCloses(c)
    <2>1. UNCHANGED <<conn, registered, drops, policy>> /\ d \notin closed
      BY <1>1, <1>4 DEF SocketCloses, outbox, registry
    <2> QED BY <2>1, <1>1, <1>2 DEF OnlyOne, Registered
  <1>5. CASE Refused(c)
    <2>1. UNCHANGED <<closed, registered, drops, policy>>
      BY <1>5 DEF Refused, outbox, registry
    <2>2. conn[d] = "open" /\ OnlyOne(d)
      BY <1>1, <1>5 DEF Refused, OnlyOne, TypeOK
    <2> QED BY <2>1, <2>2, <1>1, <1>2 DEF Registered
  <1>6. CASE Opened(c)
    <2>1. CASE d = c
      BY <2>1, <1>0, <1>6 DEF Opened, Registered, TypeOK
    <2>2. CASE d # c
      <3>1. Sub[d] # Sub[c]
        BY <2>2, <1>1, <1>6 DEF Opened, OnlyOne, TypeOK
      <3>2. conn[d] = "open" /\ OnlyOne(d)
        BY <1>1, <1>6, <2>2 DEF Opened, OnlyOne, TypeOK
      <3>3. registered'[Sub[d]] = registered[Sub[d]]
        BY <3>1, <1>0, <1>6 DEF Opened, TypeOK
      <3>4. UNCHANGED <<closed, drops, policy>>
        BY <1>6 DEF Opened, outbox
      <3> QED BY <3>2, <3>3, <3>4, <1>1, <1>2 DEF Registered
    <2> QED BY <2>1, <2>2
  <1>7. CASE Left(c)
    <2>1. d # c /\ conn'[c] = "gone"
      BY <1>1, <1>7 DEF Left, Forget, TypeOK
    <2>2. Sub[d] # Sub[c]
      BY <2>1, <1>1 DEF OnlyOne
    <2>3. conn[d] = "open" /\ d \notin closed
      BY <2>1, <1>1, <1>7 DEF Left, Forget, TypeOK
    <2>4. OnlyOne(d)
      BY <1>1, <2>2, <1>7 DEF OnlyOne, Left, Forget, TypeOK
    <2>5. registered'[Sub[d]] = registered[Sub[d]]
      BY <2>2, <1>0, <1>7 DEF Left, Forget, TypeOK
    <2>6. drops'[d] = drops[d] /\ policy' = policy
      BY <2>1, <1>7 DEF Left, outbox, TypeOK
    <2> QED BY <2>3, <2>4, <2>5, <2>6, <1>2 DEF Registered
  <1> QED BY <1>3, <1>4, <1>5, <1>6, <1>7 DEF Kind

\* The queues: what is in order, due, and kept for replay.
LEMMA QuietQueues ==
  ASSUME TypeOK, RegisteredOpen, Fresh, Numbered, InOrder, DueIsQueued, ReplayInOrder, Kept,
         NEW c \in Conns, Kind(c)
  PROVE  Fresh' /\ Numbered' /\ InOrder' /\ DueIsQueued' /\ ReplayInOrder' /\ Kept'
  <1>0. /\ UNCHANGED <<seq, replay>>
        /\ \A d \in Conns : Untouched(d) \/ Emptied(d) \/ Dequeued(d)
        /\ \A d \in Conns : conn'[d] = "new" => conn[d] = "new" /\ Untouched(d)
        /\ \A d \in Conns : conn'[d] = "open" /\ conn[d] # "open" => conn[d] = "new" /\ Untouched(d)
    BY QuietFrame DEF stream
  <1>1. Contents(<<>>) = {}
    BY DEF Contents
  <1> DEFINE Had(d) == Contents(queue[d]) \cup lost[d]
  <1>2. ASSUME NEW d \in Conns
        PROVE  /\ Contents(queue'[d]) \cup lost'[d] \subseteq Had(d)
               /\ Tidy(queue'[d], lost'[d])
               /\ due[d] = Contents(queue[d]) => due'[d] = Contents(queue'[d])
    <2>0. Tidy(queue[d], lost[d]) /\ queue[d] \in Seq(Items)
      BY DEF InOrder, TypeOK
    <2>1. CASE Untouched(d)
      BY <2>0, <2>1 DEF Untouched
    <2>2. CASE Emptied(d)
      BY <2>2, <1>1 DEF Emptied, Tidy, Ordered
    <2>3. CASE Dequeued(d)
      <3> DEFINE q == queue[d]
                 l == lost[d]
      <3>1. /\ Ordered(Tail(q)) /\ Contents(Tail(q)) = Contents(q) \ {Head(q)}
            /\ Contents(q) = Contents(Tail(q)) \cup {Head(q)}
        <4>1. q # <<>> /\ Ordered(q) /\ q \in Seq(Items)
          BY <2>0, <2>3 DEF Dequeued, Tidy
        <4> HIDE DEF q
        <4> QED BY <4>1, OrderedTail, RangeTail
      <3>2. /\ queue'[d] = Tail(q) /\ lost'[d] \in {l, l \cup {Head(q)}}
            /\ due'[d] = due[d] \ {Head(q)}
        BY <2>3 DEF Dequeued
      <3>3. Contents(q) \cap l = {}
        BY <2>0 DEF Tidy
      <3> HIDE DEF q, l
      <3>4. Contents(queue'[d]) \cap lost'[d] = {}
        BY <3>1, <3>2, <3>3
      <3>5. Contents(queue'[d]) \cup lost'[d] \subseteq Contents(q) \cup l
        BY <3>1, <3>2
      <3>6. due[d] = Contents(q) => due'[d] = Contents(queue'[d])
        BY <3>1, <3>2
      <3>7. Ordered(queue'[d])
        BY <3>1, <3>2
      <3> QED BY <3>4, <3>5, <3>6, <3>7 DEF Tidy, q, l
    <2> QED BY <2>1, <2>2, <2>3, <1>0
  <1>3. InOrder'
    BY <1>2 DEF InOrder
  <1>4. Numbered' /\ Kept' /\ ReplayInOrder'
    <2>1. ASSUME NEW d \in Conns, NEW y \in Contents(queue'[d]) \cup lost'[d]
          PROVE  y[1] <= seq /\ (y[2] = "wallet" => Replayable(y[1], replay["wallet"]))
      BY <1>2, <2>1 DEF Numbered, Kept
    <2>2. Numbered'
      BY <2>1, <1>0 DEF Numbered
    <2>3. Kept'
      BY <2>1, <1>0 DEF Kept
    <2>4. ReplayInOrder'
      BY <1>0 DEF ReplayInOrder
    <2> QED BY <2>2, <2>3, <2>4
  <1>5. Fresh'
    BY <1>0 DEF Fresh, Untouched
  <1>6. DueIsQueued'
    <2>1. SUFFICES ASSUME NEW d \in Conns, conn'[d] = "open", registered'[Sub[d]] = d
                   PROVE  due'[d] = Contents(queue'[d])
      BY DEF DueIsQueued, Registered
    <2>2. CASE conn[d] # "open"
      <3>1. conn[d] = "new" /\ Untouched(d)
        BY <2>1, <2>2, <1>0
      <3> QED BY <3>1, <1>1 DEF Fresh, Untouched
    <2>3. CASE conn[d] = "open"
      <3>1. registered[Sub[d]] = d
        <4>0. Sub[c] \in Clients /\ Sub[d] \in Clients /\ None \notin Conns
          BY ServerAssumption
        <4>1. CASE Froze(c) \/ Refused(c) \/ SocketCloses(c) \/ Asked(c) \/ Taken(c)
          BY <2>1, <4>1 DEF Froze, Refused, SocketCloses, Asked, Taken, registry
        <4>2. CASE Opened(c)
          BY <2>1, <2>3, <4>0, <4>2 DEF Opened, TypeOK
        <4>3. CASE Left(c)
          BY <2>1, <4>0, <4>3 DEF Left, Forget, TypeOK
        <4> QED BY <4>1, <4>2, <4>3 DEF Kind
      <3> QED BY <3>1, <2>3, <1>2 DEF DueIsQueued, Registered
    <2> QED BY <2>2, <2>3
  <1> QED BY <1>3, <1>4, <1>5, <1>6

------------------------------------------------------------------------------
(* Publish *)

\* What delivering the next event does to connection c and to the registry.
LEMMA DeliverFacts ==
  ASSUME TypeOK, RegisteredOpen, Deliver(seq + 1)
  PROVE  /\ \A c \in Conns : Registered(c) =>
              LET a == Offered(c, seq + 1)
              IN  /\ queue'[c] = a.queue /\ drops'[c] = a.drops /\ lost'[c] = a.lost
                  /\ due'[c] = IF a.up THEN (due[c] \cup ({seq + 1} \X Routes(Sub[c]))) \ a.lost
                               ELSE due[c]
                  /\ registered'[Sub[c]] = IF a.up THEN c ELSE None
         /\ \A c \in Conns : ~Registered(c) => Untouched(c)
         /\ \A i \in Clients : registered[i] = None => registered'[i] = None
         /\ \A i \in Clients : registered'[i] \in {registered[i], None}
         /\ registered' \in [Clients -> Conns \cup {None}]
         /\ DOMAIN queue' = Conns /\ DOMAIN drops' = Conns /\ DOMAIN lost' = Conns
         /\ DOMAIN due' = Conns
         /\ queue' = [c \in Conns |-> queue'[c]] /\ drops' = [c \in Conns |-> drops'[c]]
         /\ lost' = [c \in Conns |-> lost'[c]] /\ due' = [c \in Conns |-> due'[c]]
  <1> DEFINE n == seq + 1
             after == [c \in Conns |-> IF Registered(c) THEN Offered(c, n)
                                       ELSE [Box(c) EXCEPT !.up = FALSE]]
  <1>0. \A i \in Clients : registered[i] # None => registered[i] \in Conns /\ Registered(registered[i])
    BY DEF RegisteredOpen, Registered, TypeOK
  <1>1. /\ queue' = [c \in Conns |-> after[c].queue]
        /\ drops' = [c \in Conns |-> after[c].drops]
        /\ lost' = [c \in Conns |-> after[c].lost]
        /\ due' = [c \in Conns |-> IF after[c].up
                                   THEN (due[c] \cup ({n} \X Routes(Sub[c]))) \ after[c].lost
                                   ELSE due[c]]
        /\ registered' = [i \in Clients |->
                            IF registered[i] # None /\ after[registered[i]].up
                            THEN registered[i] ELSE None]
    BY DEF Deliver
  <1>2. \A c \in Conns : Registered(c) => after[c] = Offered(c, n)
    OBVIOUS
  <1>3. \A c \in Conns : ~Registered(c) =>
          /\ after[c].queue = queue[c] /\ after[c].drops = drops[c]
          /\ after[c].lost = lost[c] /\ after[c].up = FALSE
    BY DEF Box
  <1> HIDE DEF after, n
  <1>4. ASSUME NEW c \in Conns, Registered(c)
        PROVE  LET a == Offered(c, n)
               IN  /\ queue'[c] = a.queue /\ drops'[c] = a.drops /\ lost'[c] = a.lost
                   /\ due'[c] = IF a.up THEN (due[c] \cup ({n} \X Routes(Sub[c]))) \ a.lost
                                ELSE due[c]
                   /\ registered'[Sub[c]] = IF a.up THEN c ELSE None
    <2>1. Sub[c] \in Clients /\ registered[Sub[c]] = c /\ c # None
      BY <1>4, ServerAssumption DEF Registered
    <2> QED BY <2>1, <1>1, <1>2, <1>4
  <1>5. \A c \in Conns : ~Registered(c) => Untouched(c)
    BY <1>1, <1>3 DEF Untouched
  <1>6. \A i \in Clients : registered[i] = None => registered'[i] = None
    BY <1>1
  <1>7. \A i \in Clients : registered'[i] \in {registered[i], None}
    BY <1>1
  <1>8. registered' \in [Clients -> Conns \cup {None}]
    BY <1>0, <1>1
  <1>9. DOMAIN queue' = Conns /\ DOMAIN drops' = Conns /\ DOMAIN lost' = Conns /\ DOMAIN due' = Conns
        /\ queue' = [c \in Conns |-> queue'[c]] /\ drops' = [c \in Conns |-> drops'[c]]
        /\ lost' = [c \in Conns |-> lost'[c]] /\ due' = [c \in Conns |-> due'[c]]
    BY <1>1
  <1> QED BY <1>4, <1>5, <1>6, <1>7, <1>8, <1>9 DEF n

LEMMA StoredFacts ==
  ASSUME TypeOK, ReplayInOrder, seq < MaxEvents, Stored(seq + 1)
  PROVE  /\ replay' \in [Channels -> Seq(1 .. MaxEvents)]
         /\ Ascending(replay'["wallet"]) /\ Len(replay'["wallet"]) <= ReplaySize
         /\ \A m \in Contents(replay'["wallet"]) : m <= seq + 1
         /\ \A v \in 1 .. seq : Replayable(v, replay["wallet"]) => Replayable(v, replay'["wallet"])
         /\ Subscribers("wallet") # {} => seq + 1 \in Contents(replay'["wallet"])
  <1> DEFINE n == seq + 1
             s == replay["wallet"]
  <1>1. /\ seq \in Nat /\ n \in 1 .. MaxEvents /\ n - 1 = seq /\ s \in Seq(1 .. MaxEvents)
        /\ "wallet" \in Channels /\ \A h \in Channels : replay[h] \in Seq(1 .. MaxEvents)
    BY ServerAssumption DEF TypeOK, Channels
  <1>2. Ascending(s) /\ Len(s) <= ReplaySize /\ \A m \in Contents(s) : m \in 1 .. MaxEvents /\ m <= seq
    <2>1. \A m \in Contents(s) : m \in 1 .. MaxEvents
      BY <1>1, Elements
    <2> QED BY <2>1 DEF ReplayInOrder
  <1>3. \A m \in Contents(s) : m < n /\ m <= seq + 1
    BY <1>1, <1>2
  <1>4. CASE Subscribers("wallet") = {}
    BY <1>1, <1>2, <1>3, <1>4 DEF Stored, TypeOK
  <1>5. CASE Subscribers("wallet") # {}
    <2>1. replay' = [h \in Channels |-> Last(Append(replay[h], n), ReplaySize)]
      BY <1>5 DEF Stored
    <2> HIDE DEF n, s
    <2>2. replay' \in [Channels -> Seq(1 .. MaxEvents)]
      BY <2>1, <1>1, LastType
    <2>3. replay'["wallet"] = Last(Append(s, n), ReplaySize)
      BY <2>1, <1>1 DEF s
    <2>4. LET r == Last(Append(s, n), ReplaySize)
          IN  /\ Ascending(r) /\ Len(r) <= ReplaySize
              /\ \A m \in Contents(r) : m <= n
              /\ n \in Contents(r)
              /\ \A v \in 1 .. n - 1 : Replayable(v, s) => Replayable(v, r)
      BY <1>1, <1>2, <1>3, LastKeeps
    <2> QED BY <2>2, <2>3, <2>4, <1>1 DEF n, s
  <1> QED BY <1>4, <1>5

\* The event finds the lock held: it gets its number and nothing else happens.
LEMMA PublishFrozen ==
  ASSUME IInv, seq < MaxEvents, seq' = seq + 1, frozen' = TRUE,
         UNCHANGED <<registered, outbox, replay, policy, conn, closed, subscribed, requests, lock>>
  PROVE  IInv'
  <1>0. /\ UNCHANGED <<registered, queue, drops, due, lost, replay, policy, conn, closed,
                       subscribed, requests, lock>>
        /\ seq \in Nat /\ seq' \in 0 .. MaxEvents /\ seq <= seq'
    BY ServerAssumption DEF outbox, IInv, TypeOK
  <1>1. TypeOK'
    BY <1>0 DEF IInv, TypeOK
  <1>2. NothingLeaks' /\ RegisteredOpen' /\ Fresh' /\ StaysRegistered'
    <2>1. Sessions' = Sessions
      BY <1>0 DEF Sessions
    <2> QED BY <2>1, <1>0 DEF IInv, NothingLeaks, RegisteredOpen, Fresh, StaysRegistered,
                              OnlyOne, Registered
  <1>3. InOrder' /\ DueIsQueued' /\ Kept'
    BY <1>0 DEF IInv, InOrder, DueIsQueued, Kept, Registered
  <1>4. Numbered'
    <2>1. ASSUME NEW c \in Conns, NEW y \in Contents(queue[c]) \cup lost[c] PROVE y[1] <= seq'
      <3>1. y \in Items
        BY Elements DEF IInv, TypeOK
      <3>2. y[1] \in Nat /\ y[1] <= seq
        BY <3>1 DEF Items, IInv, Numbered
      <3> QED BY <3>2, <1>0
    <2> QED BY <2>1, <1>0 DEF Numbered
  <1>5. ReplayInOrder'
    <2>1. \A m \in Contents(replay["wallet"]) : m \in Nat /\ m <= seq
      <3>1. replay["wallet"] \in Seq(1 .. MaxEvents)
        BY DEF IInv, TypeOK, Channels
      <3>2. \A m \in Contents(replay["wallet"]) : m \in 1 .. MaxEvents
        BY <3>1, Elements
      <3> QED BY <3>2 DEF IInv, ReplayInOrder
    <2> QED BY <2>1, <1>0 DEF IInv, ReplayInOrder
  <1> QED BY <1>1, <1>2, <1>3, <1>4, <1>5 DEF IInv

\* Otherwise every registered connection is offered the event.
LEMMA PublishDelivers ==
  ASSUME IInv, seq < MaxEvents, seq' = seq + 1, Deliver(seq + 1), Stored(seq + 1),
         UNCHANGED <<policy, conn, closed, subscribed, requests, lock, frozen>>
  PROVE  IInv'
  <1> DEFINE n == seq + 1
             a(c) == Offered(c, n)
             all(c) == Contents(queue[c]) \cup lost[c]
             new(c) == {n} \X Routes(Sub[c])
  <1>t. /\ TypeOK /\ NothingLeaks /\ RegisteredOpen /\ Fresh /\ Numbered /\ InOrder
        /\ DueIsQueued /\ StaysRegistered /\ ReplayInOrder /\ Kept
    BY DEF IInv
  <1>n. seq \in Nat /\ n \in 1 .. MaxEvents /\ seq' \in 0 .. MaxEvents /\ seq' = n
    BY <1>t, ServerAssumption DEF TypeOK
  <1>o. ASSUME NEW c \in Conns
        PROVE  /\ Fits(a(c)) /\ lost[c] \subseteq a(c).lost
               /\ Held(a(c)) \subseteq all(c) \cup new(c)
               /\ Tidy(a(c).queue, a(c).lost)
               /\ a(c).up => Held(a(c)) = all(c) \cup new(c)
               /\ ~a(c).up => a(c).drops > Limit
    <2>1. Tidy(queue[c], lost[c]) /\ \A y \in Contents(queue[c]) \cup lost[c] : y[1] <= seq
      BY <1>t DEF InOrder, Numbered
    <2> QED BY <2>1, <1>t, OfferedFacts
  <1>d. /\ \A c \in Conns : Registered(c) =>
              /\ queue'[c] = a(c).queue /\ drops'[c] = a(c).drops /\ lost'[c] = a(c).lost
              /\ due'[c] = IF a(c).up THEN (due[c] \cup new(c)) \ a(c).lost ELSE due[c]
              /\ registered'[Sub[c]] = IF a(c).up THEN c ELSE None
        /\ \A c \in Conns : ~Registered(c) => Untouched(c)
        /\ \A i \in Clients : registered[i] = None => registered'[i] = None
        /\ \A i \in Clients : registered'[i] \in {registered[i], None}
        /\ registered' \in [Clients -> Conns \cup {None}]
        /\ queue' = [c \in Conns |-> queue'[c]] /\ drops' = [c \in Conns |-> drops'[c]]
        /\ lost' = [c \in Conns |-> lost'[c]] /\ due' = [c \in Conns |-> due'[c]]
    BY <1>t, DeliverFacts
  <1>r. /\ replay' \in [Channels -> Seq(1 .. MaxEvents)]
        /\ Ascending(replay'["wallet"]) /\ Len(replay'["wallet"]) <= ReplaySize
        /\ \A m \in Contents(replay'["wallet"]) : m <= n
        /\ \A v \in 1 .. seq : Replayable(v, replay["wallet"]) => Replayable(v, replay'["wallet"])
        /\ Subscribers("wallet") # {} => n \in Contents(replay'["wallet"])
    BY <1>t, StoredFacts
  <1>s. \A c \in Conns : Sub[c] \in Clients /\ c # None
    BY ServerAssumption
  <1> HIDE DEF n, a
  <1>i. \A c \in Conns : all(c) \subseteq Items /\ new(c) \subseteq Items
    <2>1. ASSUME NEW c \in Conns PROVE all(c) \subseteq Items /\ new(c) \subseteq Items
      <3>1. Contents(queue[c]) \subseteq Items /\ lost[c] \subseteq Items
        BY <1>t, Elements DEF TypeOK
      <3>2. Routes(Sub[c]) \subseteq Channels
        BY <1>t, <1>s DEF TypeOK, Routes, Channels
      <3> QED BY <3>1, <3>2, <1>n DEF Items
    <2> QED BY <2>1
  \* What a connection holds afterwards it held before or is the new event.
  <1>h. ASSUME NEW c \in Conns
        PROVE  /\ Tidy(queue'[c], lost'[c])
               /\ Contents(queue'[c]) \cup lost'[c] \subseteq all(c) \cup new(c)
    <2>1. CASE Registered(c)
      BY <2>1, <1>o, <1>d DEF Held
    <2>2. CASE ~Registered(c)
      BY <2>2, <1>d, <1>t DEF Untouched, InOrder
    <2> QED BY <2>1, <2>2
  <1>1. TypeOK'
    <2>1. ASSUME NEW c \in Conns
          PROVE  /\ queue'[c] \in Seq(Items) /\ Len(queue'[c]) <= QueueDepth
                 /\ drops'[c] \in Nat /\ lost'[c] \subseteq Items /\ due'[c] \subseteq Items
      <3>1. CASE Registered(c)
        <4>1. /\ a(c).queue \in Seq(Items) /\ Len(a(c).queue) <= QueueDepth
              /\ a(c).drops \in Nat /\ a(c).lost \subseteq Items
          BY <1>o DEF Fits, Boxes
        <4>2. due[c] \subseteq Items /\ new(c) \subseteq Items
          BY <1>t, <1>i DEF TypeOK
        <4>3. due'[c] \subseteq due[c] \cup new(c)
          BY <3>1, <1>d
        <4> QED BY <3>1, <4>1, <4>2, <4>3, <1>d
      <3>2. CASE ~Registered(c)
        BY <3>2, <1>d, <1>t DEF Untouched, TypeOK
      <3> QED BY <3>1, <3>2
    <2>2. queue' \in [Conns -> Seq(Items)] /\ \A c \in Conns : Len(queue'[c]) <= QueueDepth
      BY <2>1, <1>d
    <2>3. drops' \in [Conns -> Nat]
      BY <2>1, <1>d
    <2>4. lost' \in [Conns -> SUBSET Items]
      BY <2>1, <1>d
    <2>5. due' \in [Conns -> SUBSET Items]
      BY <2>1, <1>d
    <2> QED BY <2>2, <2>3, <2>4, <2>5, <1>d, <1>n, <1>r, <1>t DEF TypeOK
  <1>2. NothingLeaks'
    <2>1. Sessions' \subseteq Sessions
      BY <1>d DEF Sessions
    <2>2. IsFiniteSet(Sessions) /\ Cardinality(Sessions) \in Nat
      BY <1>t, SessionsFinite
    <2>3. IsFiniteSet(Sessions') /\ Cardinality(Sessions') <= Cardinality(Sessions)
      BY <2>1, <2>2, FS_Subset
    <2>4. Cardinality(Sessions') \in Nat
      BY <2>3, FS_CardinalityType
    <2>5. Cardinality(Sessions') <= MaxClients
      BY <2>2, <2>3, <2>4, <1>t, ServerAssumption DEF NothingLeaks
    <2> QED BY <2>5, <1>t, <1>d DEF NothingLeaks
  <1>3. RegisteredOpen'
    BY <1>t, <1>d DEF RegisteredOpen
  <1>4. Fresh'
    <2>1. ASSUME NEW c \in Conns, conn[c] = "new" PROVE ~Registered(c)
      BY <2>1, <1>t, <1>s DEF RegisteredOpen, Registered
    <2> QED BY <2>1, <1>t, <1>d DEF Fresh, Untouched
  <1>5. InOrder'
    BY <1>h DEF InOrder
  <1>6. Numbered' /\ Kept'
    <2>1. ASSUME NEW c \in Conns, NEW y \in Contents(queue'[c]) \cup lost'[c]
          PROVE  y[1] <= n /\ (y[2] = "wallet" => Replayable(y[1], replay'["wallet"]))
      <3>1. y \in Items /\ y[1] \in 1 .. MaxEvents
        BY <1>h, <1>i DEF Items
      <3>2. CASE y \in all(c)
        <4>1. y[1] <= seq /\ (y[2] = "wallet" => Replayable(y[1], replay["wallet"]))
          BY <3>2, <1>t DEF Numbered, Kept
        <4>2. y[1] \in 1 .. seq /\ y[1] <= n
          BY <3>1, <4>1, <1>n DEF n
        <4> QED BY <4>1, <4>2, <1>r
      <3>3. CASE y \in new(c)
        <4>1. y[1] = n /\ y[2] \in Routes(Sub[c])
          BY <3>3
        <4>2. y[2] = "wallet" => Subscribers("wallet") # {}
          BY <4>1, <1>s DEF Routes, Subscribers
        <4>3. y[2] = "wallet" => n \in Contents(replay'["wallet"])
          BY <4>2, <1>r
        <4> QED BY <4>1, <4>3, <1>n DEF Replayable
      <3> QED BY <3>2, <3>3, <1>h
    <2> QED BY <2>1, <1>n DEF Numbered, Kept
  <1>7. DueIsQueued'
    <2>1. SUFFICES ASSUME NEW c \in Conns, conn[c] = "open", registered'[Sub[c]] = c
                   PROVE  due'[c] = Contents(queue'[c])
      BY DEF DueIsQueued, Registered
    <2>2. Registered(c)
      BY <2>1, <1>d, <1>s DEF Registered
    <2>3. a(c).up
      BY <2>1, <2>2, <1>d, <1>s
    <2>4. due[c] = Contents(queue[c])
      BY <2>1, <2>2, <1>t DEF DueIsQueued
    <2>5. due'[c] = (due[c] \cup new(c)) \ a(c).lost
      BY <2>2, <2>3, <1>d
    <2>6. /\ Contents(a(c).queue) \cup a(c).lost = all(c) \cup new(c)
          /\ Contents(a(c).queue) \cap a(c).lost = {} /\ lost[c] \subseteq a(c).lost
      BY <2>3, <1>o DEF Held, Tidy
    <2>7. Contents(a(c).queue) = (Contents(queue[c]) \cup new(c)) \ a(c).lost
      BY <2>6
    <2> QED BY <2>2, <2>4, <2>5, <2>7, <1>d
  <1>8. StaysRegistered'
    <2>1. SUFFICES ASSUME NEW c \in Conns, conn[c] = "open", c \notin closed, OnlyOne(c)
                   PROVE  registered'[Sub[c]] = c \/ drops'[c] > Limit
      BY DEF StaysRegistered, OnlyOne, Registered, Limit
    <2>2. CASE Registered(c)
      BY <2>2, <1>d, <1>o
    <2>3. CASE ~Registered(c)
      BY <2>1, <2>3, <1>d, <1>t DEF StaysRegistered, Untouched, Limit
    <2> QED BY <2>2, <2>3
  <1>9. ReplayInOrder'
    BY <1>r, <1>n DEF ReplayInOrder
  <1> QED BY <1>1, <1>2, <1>3, <1>4, <1>5, <1>6, <1>7, <1>8, <1>9 DEF IInv

LEMMA StepInv == IInv /\ [Next]_vars => IInv'
  <1> SUFFICES ASSUME IInv, [Next]_vars PROVE IInv'
    OBVIOUS
  <1>1. CASE Quiet
    <2>1. PICK c \in Conns : Kind(c)
      BY <1>1, QuietKinds DEF IInv
    <2> QED BY <2>1, QuietType, QuietNothingLeaks, QuietRegisteredOpen, QuietStaysRegistered,
               QuietQueues DEF IInv
  <1>2. CASE Publish
    <2>1. CASE lock # None /\ \E h \in Channels : Subscribers(h) # {}
      BY <1>2, <2>1, PublishFrozen DEF Publish
    <2>2. CASE ~ (lock # None /\ \E h \in Channels : Subscribers(h) # {})
      BY <1>2, <2>2, PublishDelivers DEF Publish
    <2> QED BY <2>1, <2>2
  <1>3. CASE UNCHANGED vars
    <2>1. UNCHANGED <<policy, conn, closed, registered, subscribed, queue, drops, due, lost,
                      requests, seq, replay, lock, frozen>>
      BY <1>3 DEF vars, registry, outbox, stream
    <2>2. TypeOK' /\ RegisteredOpen' /\ Fresh' /\ StaysRegistered'
      BY <2>1 DEF IInv, TypeOK, RegisteredOpen, Fresh, StaysRegistered, OnlyOne, Registered
    <2>3. NothingLeaks'
      <3>1. Sessions' = Sessions
        BY <2>1 DEF Sessions
      <3> QED BY <2>1, <3>1 DEF IInv, NothingLeaks
    <2>4. Numbered' /\ InOrder' /\ DueIsQueued' /\ ReplayInOrder' /\ Kept'
      BY <2>1 DEF IInv, Numbered, InOrder, DueIsQueued, ReplayInOrder, Kept, Registered
    <2> QED BY <2>2, <2>3, <2>4 DEF IInv
  <1> QED BY <1>1, <1>2, <1>3 DEF Next, Quiet

------------------------------------------------------------------------------
(* Theorems *)

LEMMA Inductive == Spec => []IInv
  <1> QED BY InitInv, StepInv, PTL DEF Spec

\* Every variable of the server keeps its type, and no outbound queue exceeds
\* WS_CLIENT_QUEUE_DEPTH.
THEOREM TypeCorrect == Spec => []TypeOK
  <1>1. IInv => TypeOK
    BY DEF IInv
  <1> QED BY <1>1, Inductive, PTL

\* Whatever the order of connections and cleanups, WS_MAX_CLIENTS bounds the
\* entries of _clients and a client id with no open connection has left nothing
\* in _clients or in the router.
THEOREM NoLeak == Spec => []NothingLeaks
  <1>1. IInv => NothingLeaks
    BY DEF IInv
  <1> QED BY <1>1, Inductive, PTL

\* Between publish_score_update and send nothing disappears from a registered
\* connection's queue, and updates leave it by sequence number.
THEOREM NoUpdateVanishes == Spec => []NothingVanishes
  <1>1. IInv => NothingVanishes
    <2>1. SUFFICES ASSUME IInv, NEW c \in Conns, conn[c] = "open", Registered(c)
                   PROVE  /\ due[c] = Contents(queue[c])
                          /\ \A j, k \in DOMAIN queue[c] : j < k => queue[c][j][1] <= queue[c][k][1]
      BY DEF NothingVanishes
    <2>2. due[c] = Contents(queue[c])
      BY <2>1 DEF IInv, DueIsQueued
    <2>3. Ordered(queue[c]) /\ queue[c] \in Seq(Items)
      BY <2>1 DEF IInv, InOrder, Tidy, TypeOK
    <2>4. ASSUME NEW j \in DOMAIN queue[c], NEW k \in DOMAIN queue[c], j < k
          PROVE  queue[c][j][1] <= queue[c][k][1]
      <3>1. j \in 1 .. Len(queue[c]) /\ k \in 1 .. Len(queue[c])
            /\ queue[c][j] \in Items /\ queue[c][k] \in Items
        BY <2>3, Elements
      <3>2. Earlier(queue[c][j], queue[c][k])
        BY <3>1, <2>3, <2>4 DEF Ordered
      <3>3. queue[c][j][1] \in Nat /\ queue[c][k][1] \in Nat
        BY <3>1 DEF Items
      <3> QED BY <3>2, <3>3 DEF Earlier
    <2> QED BY <2>2, <2>4
  <1> QED BY <1>1, Inductive, PTL

\* Only its own cleanup, another connection under its client id, or too many
\* drops takes an open connection out of _clients.
THEOREM ReadersStayRegistered == Spec => []StaysRegistered
  <1>1. IInv => StaysRegistered
    BY DEF IInv
  <1> QED BY <1>1, Inductive, PTL

\* A wallet's subscriber finds in the replay buffer what back-pressure or the
\* rate limiter took, until ReplaySize newer events were kept.
THEOREM ReplayCoversLosses == Spec => []LossesCanBeReplayed
  <1>1. IInv => LossesCanBeReplayed
    <2>1. SUFFICES ASSUME IInv, NEW c \in Conns, NEW x \in lost[c], x[2] = "wallet"
                   PROVE  \/ x[1] \in Contents(replay["wallet"])
                          \/ /\ Len(replay["wallet"]) = ReplaySize
                             /\ \A m \in Contents(replay["wallet"]) : m > x[1]
      BY DEF LossesCanBeReplayed
    <2>2. Replayable(x[1], replay["wallet"])
      BY <2>1 DEF IInv, Kept
    <2> QED BY <2>2 DEF Replayable
  <1> QED BY <1>1, Inductive, PTL
==============================================================================
