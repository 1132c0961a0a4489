-------------------------- MODULE FeatureBufferProofs --------------------------
(***************************************************************************)
(* Theorems about FeatureBuffer for every set of threads, wallets and      *)
(* trades and every bound: its types and memory bound, that whoever holds  *)
(* a wallet's lock finds it whole, and that it implements WalletWindows.   *)
(***************************************************************************)
EXTENDS FeatureBuffer, TLAPS

------------------------------------------------------------------------------
(* Sequences: the LRU order and the windows *)

LEMMA Elements ==
  ASSUME NEW S, NEW s \in Seq(S)
  PROVE  /\ DOMAIN s = 1 .. Len(s) /\ Len(s) \in Nat
         /\ \A y : y \in Members(s) <=> \E k \in 1 .. Len(s) : y = s[k]
         /\ Members(s) \subseteq S
  BY DEF Members

LEMMA Appended ==
  ASSUME NEW S, NEW s \in Seq(S), NEW x \in S
  PROVE  /\ Append(s, x) \in Seq(S)
         /\ Len(Append(s, x)) = Len(s) + 1
         /\ Members(Append(s, x)) = Members(s) \cup {x}
         /\ NoRepeats(s) /\ x \notin Members(s) => NoRepeats(Append(s, x))
  <1> DEFINE a == Append(s, x)
  <1>1. /\ a \in Seq(S) /\ Len(a) = Len(s) + 1 /\ Len(s) \in Nat
        /\ a[Len(s) + 1] = x /\ \A k \in 1 .. Len(s) : a[k] = s[k]
    OBVIOUS
  <1>2. DOMAIN a = 1 .. Len(s) + 1 /\ DOMAIN s = 1 .. Len(s)
    BY <1>1
  <1> HIDE DEF a
  <1>3. /\ \A y : y \in Members(a) <=> \E k \in 1 .. Len(s) + 1 : y = a[k]
        /\ \A y : y \in Members(s) <=> \E k \in 1 .. Len(s) : y = s[k]
    BY <1>1, Elements
  <1>4. ASSUME NEW y \in Members(a) PROVE y \in Members(s) \cup {x}
    BY <1>1, <1>3
  <1>5. ASSUME NEW y \in Members(s) \cup {x} PROVE y \in Members(a)
    <2>1. CASE y = x
      <3>1. Len(s) + 1 \in 1 .. Len(s) + 1
        BY <1>1
      <3> QED BY <2>1, <3>1, <1>1, <1>3
    <2>2. CASE y # x
      <3>1. PICK k \in 1 .. Len(s) : y = s[k]
        BY <2>2, <1>3
      <3>2. k \in 1 .. Len(s) + 1 /\ a[k] = s[k]
        BY <1>1
      <3> QED BY <3>1, <3>2, <1>3
    <2> QED BY <2>1, <2>2
  <1>6. ASSUME NoRepeats(s), x \notin Members(s) PROVE NoRepeats(a)
    <2> SUFFICES ASSUME NEW i \in 1 .. Len(s) + 1, NEW j \in 1 .. Len(s) + 1, a[i] = a[j]
                 PROVE  i = j
      BY <1>2 DEF NoRepeats
    <2>1. \A k \in 1 .. Len(s) : a[k] # x
      BY <1>1, <1>3, <1>6
    <2>2. CASE i = Len(s) + 1 \/ j = Len(s) + 1
      BY <1>1, <2>1, <2>2
    <2>3. CASE i # Len(s) + 1 /\ j # Len(s) + 1
      <3>1. i \in 1 .. Len(s) /\ j \in 1 .. Len(s)
        BY <1>1, <2>3
      <3> QED BY <1>1, <1>2, <1>6, <3>1 DEF NoRepeats
    <2> QED BY <2>2, <2>3
  <1> QED BY <1>1, <1>4, <1>5, <1>6 DEF a

LEMMA Beheaded ==
  ASSUME NEW S, NEW s \in Seq(S), Len(s) > 0
  PROVE  /\ Head(s) \in Members(s) /\ Tail(s) \in Seq(S)
         /\ Len(Tail(s)) = Len(s) - 1
         /\ NoRepeats(s) => NoRepeats(Tail(s)) /\ Members(Tail(s)) = Members(s) \ {Head(s)}
  <1> DEFINE t == Tail(s)
  <1>1. /\ Head(s) = s[1] /\ t \in Seq(S) /\ Len(t) = Len(s) - 1
        /\ Len(s) \in Nat \ {0} /\ \A k \in 1 .. Len(s) - 1 : t[k] = s[k + 1]
    OBVIOUS
  <1>2. DOMAIN t = 1 .. Len(s) - 1 /\ DOMAIN s = 1 .. Len(s)
    BY <1>1
  <1> HIDE DEF t
  <1>3. /\ \A y : y \in Members(t) <=> \E k \in 1 .. Len(s) - 1 : y = t[k]
        /\ \A y : y \in Members(s) <=> \E k \in 1 .. Len(s) : y = s[k]
    BY <1>1, Elements
  <1>4. Head(s) \in Members(s)
    <2>1. 1 \in 1 .. Len(s)
      BY <1>1
    <2> QED BY <1>1, <1>3, <2>1
  <1>5. ASSUME NoRepeats(s) PROVE NoRepeats(t) /\ Members(t) = Members(s) \ {Head(s)}
    <2>1. NoRepeats(t)
      <3> SUFFICES ASSUME NEW i \in 1 .. Len(s) - 1, NEW j \in 1 .. Len(s) - 1, t[i] = t[j]
                   PROVE  i = j
        BY <1>2 DEF NoRepeats
      <3>1. i + 1 \in 1 .. Len(s) /\ j + 1 \in 1 .. Len(s) /\ s[i + 1] = s[j + 1]
        BY <1>1
      <3>2. i + 1 = j + 1
        BY <1>2, <1>5, <3>1 DEF NoRepeats
      <3> QED BY <3>2
    <2>2. ASSUME NEW y \in Members(t) PROVE y \in Members(s) \ {Head(s)}
      <3>1. PICK k \in 1 .. Len(s) - 1 : y = t[k]
        BY <1>3, <2>2
      <3>2. k + 1 \in 1 .. Len(s) /\ 1 \in 1 .. Len(s) /\ k + 1 # 1 /\ y = s[k + 1]
        BY <1>1, <3>1
      <3> QED BY <1>1, <1>2, <1>3, <1>5, <3>2 DEF NoRepeats
    <2>3. ASSUME NEW y \in Members(s), y # Head(s) PROVE y \in Members(t)
      <3>1. PICK k \in 1 .. Len(s) : y = s[k]
        BY <1>3, <2>3
      <3>2. k - 1 \in 1 .. Len(s) - 1 /\ t[k - 1] = s[k]
        BY <1>1, <2>3, <3>1
      <3> QED BY <1>3, <3>1, <3>2
    <2> QED BY <2>1, <2>2, <2>3
  <1> QED BY <1>1, <1>4, <1>5 DEF t

\* Moving a member to the end changes the order only.
LEMMA MovedToEnd ==
  ASSUME NEW S, NEW s \in Seq(S), NEW i \in DOMAIN s, NoRepeats(s)
  PROVE  /\ Append(Without(s, i), s[i]) \in Seq(S)
         /\ Len(Append(Without(s, i), s[i])) = Len(s)
         /\ Members(Append(Without(s, i), s[i])) = Members(s)
         /\ NoRepeats(Append(Without(s, i), s[i]))
  <1> DEFINE u == Without(s, i)
  <1>1. Len(s) \in Nat /\ DOMAIN s = 1 .. Len(s) /\ i \in 1 .. Len(s) /\ s[i] \in S
    OBVIOUS
  <1>2. /\ u = [j \in 1 .. Len(s) - 1 |-> IF j < i THEN s[j] ELSE s[j + 1]]
        /\ \A j \in 1 .. Len(s) - 1 : u[j] = IF j < i THEN s[j] ELSE s[j + 1]
    BY DEF Without
  <1>3. \A j \in 1 .. Len(s) - 1 : j \in 1 .. Len(s) /\ j + 1 \in 1 .. Len(s)
    BY <1>1
  <1>4. u \in [1 .. Len(s) - 1 -> S] /\ Len(s) - 1 \in Nat
    <2>1. \A j \in 1 .. Len(s) - 1 : u[j] \in S
      BY <1>1, <1>2, <1>3
    <2> QED BY <1>1, <1>2, <2>1
  <1>5. u \in Seq(S) /\ Len(u) = Len(s) - 1 /\ DOMAIN u = 1 .. Len(s) - 1
    BY <1>4
  <1> HIDE DEF u
  <1>6. /\ \A y : y \in Members(u) <=> \E k \in 1 .. Len(s) - 1 : y = u[k]
        /\ \A y : y \in Members(s) <=> \E k \in 1 .. Len(s) : y = s[k]
    BY <1>5, Elements
  <1>7. NoRepeats(u)
    <2> SUFFICES ASSUME NEW j \in 1 .. Len(s) - 1, NEW k \in 1 .. Len(s) - 1, u[j] = u[k]
                 PROVE  j = k
      BY <1>5 DEF NoRepeats
    <2>1. PICK j1 \in 1 .. Len(s) : u[j] = s[j1] /\ j1 = IF j < i THEN j ELSE j + 1
      BY <1>2, <1>3
    <2>2. PICK k1 \in 1 .. Len(s) : u[k] = s[k1] /\ k1 = IF k < i THEN k ELSE k + 1
      BY <1>2, <1>3
    <2>3. j1 = k1
      BY <1>1, <2>1, <2>2 DEF NoRepeats
    <2> QED BY <1>1, <2>1, <2>2, <2>3
  <1>8. s[i] \notin Members(u)
    <2> SUFFICES ASSUME NEW j \in 1 .. Len(s) - 1, s[i] = u[j]
                 PROVE  FALSE
      BY <1>6
    <2>1. PICK j1 \in 1 .. Len(s) : u[j] = s[j1] /\ j1 # i
      BY <1>1, <1>2, <1>3
    <2> QED BY <1>1, <2>1 DEF NoRepeats
  <1>9. Members(u) \cup {s[i]} = Members(s)
    <2>1. ASSUME NEW y \in Members(u) PROVE y \in Members(s)
      BY <1>2, <1>3, <1>6, <2>1
    <2>2. ASSUME NEW y \in Members(s), y # s[i] PROVE y \in Members(u)
      <3>1. PICK k \in 1 .. Len(s) : y = s[k] /\ k # i
        BY <1>6, <2>2
      <3>2. CASE k < i
        <4>1. k \in 1 .. Len(s) - 1
          BY <1>1, <3>2
        <4> QED BY <1>2, <1>6, <3>1, <3>2, <4>1
      <3>3. CASE k > i
        <4>1. k - 1 \in 1 .. Len(s) - 1 /\ ~(k - 1 < i) /\ (k - 1) + 1 = k
          BY <1>1, <3>1, <3>3
        <4> QED BY <1>2, <1>6, <3>1, <4>1
      <3> QED BY <1>1, <3>1, <3>2, <3>3
    <2>3. s[i] \in Members(s)
      BY <1>1, <1>6
    <2> QED BY <2>1, <2>2, <2>3
  <1>10. /\ Append(u, s[i]) \in Seq(S) /\ Len(Append(u, s[i])) = Len(s)
         /\ Members(Append(u, s[i])) = Members(s) /\ NoRepeats(Append(u, s[i]))
    <2>1. Len(Append(u, s[i])) = Len(u) + 1 /\ Append(u, s[i]) \in Seq(S)
      BY <1>1, <1>5, Appended
    <2>2. Members(Append(u, s[i])) = Members(s)
      <3>1. Members(Append(u, s[i])) = Members(u) \cup {s[i]}
        BY <1>1, <1>5, Appended
      <3> QED BY <1>9, <3>1
    <2>3. NoRepeats(Append(u, s[i]))
      BY <1>1, <1>5, <1>7, <1>8, Appended
    <2> QED BY <1>1, <1>5, <2>1, <2>2, <2>3
  <1> QED BY <1>10 DEF u
------------------------------------------------------------------------------
(* The inductive invariant *)

Counts == {"append", "count"}

\* What a thread holds at each place.
Shape ==
  \A h \in Threads :
    /\ pc[h] # "idle" => todo[h] # <<>>
    /\ AtWork(h) <=> lock[h] # None
    /\ pc[h] \in Counts <=> seen[h] # None
    /\ pc[h] \in {"check"} \cup Counts => trade[h] \in Trades

\* The registry and its LRU order have the same wallets, each with an entry of
\* its own.
Registered ==
  /\ NoRepeats(recent)
  /\ \A w \in Wallets : entry[w] # None <=> w \in Members(recent)
  /\ \A v, w \in Wallets : entry[v] = entry[w] /\ entry[v] # None => v = w

\* No entry is ever taken for that of another wallet.
OwnEntry ==
  \A h \in Threads, w \in Wallets :
    entry[w] # None /\ entry[w] \in {lock[h], seen[h]} => w = Wallet(h)

\* The lock and the index a thread has are those of the registry, unless the
\* wallet was evicted under its hands.
UpToDate ==
  \A h \in Threads :
    AtWork(h) /\ Wallet(h) \notin torn =>
      /\ lock[h] = entry[Wallet(h)]
      /\ pc[h] \in Counts => seen[h] = entry[Wallet(h)]

\* A lock has one holder.
Exclusive ==
  \A g, h \in Threads : Holds(g) /\ Holds(h) /\ lock[g] = lock[h] => g = h

\* An entry that was not evicted under a thread's hands is whole but for what
\* its holder is about to count.
Whole ==
  \A w \in Wallets :
    Known(w) =>
      /\ Members(window[w]) = index[entry[w]]
      /\ NoRepeats(window[w])
      /\ Members(window[w]) \subseteq sketched[w] \cup Counting(w)

\* What the index said is still true when the trade is appended.
StillNew ==
  \A h \in Threads :
    pc[h] = "append" /\ Wallet(h) \notin torn => trade[h] \notin index[entry[Wallet(h)]]

Inv ==
  /\ TypeOK /\ Shape /\ Registered /\ OwnEntry /\ UpToDate /\ Exclusive
  /\ Whole /\ StillNew

------------------------------------------------------------------------------
(* Types *)

LEMMA WalletFacts ==
  ASSUME TypeOK, NEW h \in Threads, todo[h] # <<>>
  PROVE  Wallet(h) \in Wallets
  BY DEF TypeOK, Wallet

\* After any number of wallets, a call has the rest of them to deal with.
LEMMA RestFacts ==
  ASSUME TypeOK, NEW h \in Threads, todo[h] # <<>>
  PROVE  /\ Tail(todo[h]) \in Seq(Wallets)
         /\ Len(todo[h]) # 1 => Tail(todo[h]) # <<>>
  <1>1. todo[h] \in Seq(Wallets) /\ Len(todo[h]) \in Nat /\ Len(todo[h]) # 0
    BY DEF TypeOK
  <1>2. Tail(todo[h]) \in Seq(Wallets) /\ Len(Tail(todo[h])) = Len(todo[h]) - 1
    BY <1>1, Beheaded
  <1>3. Len(todo[h]) # 1 => Len(Tail(todo[h])) # 0
    BY <1>1, <1>2
  <1>4. Len(<<>>) = 0
    OBVIOUS
  <1> QED BY <1>2, <1>3, <1>4

\* A call is about one wallet, or about the two accounts of a trade.
LEMMA CallFacts ==
  ASSUME NEW h \in Threads, Update(h) \/ GetFeatureRow(h)
  PROVE  \E wallets \in Seq(Wallets), t \in Trades \cup {None} :
           wallets # <<>> /\ Call(h, wallets, t)
  <1>1. CASE Update(h)
    <2>1. PICK t \in Trades : Call(h, Parties[t], t)
      BY <1>1 DEF Update
    <2>2. PICK v \in Wallets, w \in Wallets : Parties[t] = <<v, w>>
      BY <2>1, BufferAssumption
    <2>3. <<v, w>> \in Seq(Wallets) /\ <<v, w>> # <<>>
      OBVIOUS
    <2> QED BY <2>1, <2>2, <2>3
  <1>2. CASE GetFeatureRow(h)
    <2>1. PICK w \in Wallets : Call(h, <<w>>, None)
      BY <1>2 DEF GetFeatureRow
    <2>2. <<w>> \in Seq(Wallets) /\ <<w>> # <<>>
      OBVIOUS
    <2> QED BY <2>1, <2>2
  <1> QED BY <1>1, <1>2

LEMMA NextWalletTypes ==
  ASSUME TypeOK, NEW h \in Threads, todo[h] # <<>>, NextWallet(h)
  PROVE  /\ pc' \in [Threads -> {"idle", "ensure", "lock"} \cup Held]
         /\ todo' \in [Threads -> Seq(Wallets)]
         /\ lock' \in [Threads -> Entries \cup {None}]
         /\ seen' \in [Threads -> Entries \cup {None}]
         /\ trade' = trade
  BY RestFacts DEF TypeOK, NextWallet

LEMMA NewEntryTypes ==
  ASSUME TypeOK, NEW h \in Threads, NEW e \in Entries, NEW wallets, NewEntry(h, e, wallets)
  PROVE  /\ pc' \in [Threads -> {"idle", "ensure", "lock"} \cup Held]
         /\ lock' \in [Threads -> Entries \cup {None}]
         /\ window' \in [Wallets -> Seq(Trades)]
         /\ \A w \in Wallets : Len(window'[w]) <= MaxTrades
         /\ sketched' \in [Wallets -> SUBSET Trades]
         /\ index' \in [Entries -> SUBSET Trades]
         /\ UNCHANGED <<todo, trade, seen>>
  <1>1. window' = [w \in Wallets |-> IF w \in wallets THEN <<>> ELSE window[w]]
    BY DEF NewEntry
  <1>2. \A w \in Wallets : window'[w] \in Seq(Trades) /\ Len(window'[w]) <= MaxTrades
    <2> TAKE w \in Wallets
    <2>1. CASE w \in wallets
      BY <1>1, <2>1, BufferAssumption
    <2>2. CASE w \notin wallets
      BY <1>1, <2>2 DEF TypeOK
    <2> QED BY <2>1, <2>2
  <1>3. window' \in [Wallets -> Seq(Trades)]
    BY <1>1, <1>2
  <1>4. sketched' \in [Wallets -> SUBSET Trades] /\ index' \in [Entries -> SUBSET Trades]
    BY DEF TypeOK, NewEntry
  <1>5. /\ pc' \in [Threads -> {"idle", "ensure", "lock"} \cup Held]
        /\ lock' \in [Threads -> Entries \cup {None}]
        /\ UNCHANGED <<todo, trade, seen>>
    BY DEF TypeOK, NewEntry, GivenLock
  <1> QED BY <1>2, <1>3, <1>4, <1>5

\* At most max_wallets are kept, at most max_trades of each.
LEMMA TypeStep ==
  ASSUME TypeOK, Shape, Registered, [Next]_vars
  PROVE  TypeOK'
  <1> USE BufferAssumption DEF TypeOK
  <1>1. ASSUME NEW h \in Threads, Update(h) \/ GetFeatureRow(h)
        PROVE  TypeOK'
    <2>1. PICK wallets \in Seq(Wallets), t \in Trades \cup {None} : Call(h, wallets, t)
      BY <1>1, CallFacts
    <2> QED BY <2>1 DEF Call, registry, contents
  <1>2. ASSUME NEW h \in Threads, pc[h] # "idle"
        PROVE  todo[h] # <<>> /\ Wallet(h) \in Wallets
    BY <1>2, WalletFacts DEF Shape
  <1>3. ASSUME NEW h \in Threads, EnsureTracked(h)
        PROVE  TypeOK'
    <2>1. PICK i \in DOMAIN recent : recent' = Append(Without(recent, i), recent[i])
      BY <1>3 DEF EnsureTracked
    <2>2. recent' \in Seq(Wallets) /\ Len(recent') = Len(recent)
      BY <2>1, MovedToEnd DEF Registered
    <2> QED BY <1>2, <1>3, <2>2 DEF EnsureTracked, GivenLock, contents
  <1>4. ASSUME NEW h \in Threads, EnsureNew(h)
        PROVE  TypeOK'
    <2>1. PICK e \in Entries : /\ NewEntry(h, e, {Wallet(h)})
                               /\ entry' = [entry EXCEPT ![Wallet(h)] = e]
      BY <1>4 DEF EnsureNew
    <2>2. Wallet(h) \in Wallets
      BY <1>2, <1>4 DEF EnsureNew
    <2>3. recent' \in Seq(Wallets) /\ Len(recent') = Len(recent) + 1
      BY <1>4, <2>2, Appended DEF EnsureNew
    <2>4. bound' = bound /\ torn' = torn /\ (bound # 0 => Len(recent') <= bound)
      BY <1>4, <2>3 DEF EnsureNew, Full
    <2>5. entry' \in [Wallets -> Entries \cup {None}]
      BY <2>1
    <2> QED BY <2>1, <2>3, <2>4, <2>5, NewEntryTypes
  <1>5. ASSUME NEW h \in Threads, EnsureByEviction(h)
        PROVE  TypeOK'
    <2>0. Wallet(h) \in Wallets /\ Len(recent) > 0
      BY <1>2, <1>5 DEF EnsureByEviction, Full
    <2>1. PICK e \in Entries :
            /\ NewEntry(h, e, {Head(recent), Wallet(h)})
            /\ entry' = [entry EXCEPT ![Head(recent)] = None, ![Wallet(h)] = e]
      BY <1>5 DEF EnsureByEviction
    <2>2. Tail(recent) \in Seq(Wallets) /\ Len(Tail(recent)) = Len(recent) - 1
      BY <2>0, Beheaded
    <2>3. recent' \in Seq(Wallets) /\ Len(recent') = Len(recent)
      BY <1>5, <2>0, <2>2, Appended DEF EnsureByEviction
    <2>4. bound' = bound /\ (bound # 0 => Len(recent') <= bound)
      BY <1>5, <2>3 DEF EnsureByEviction
    <2>5. entry' \in [Wallets -> Entries \cup {None}]
      BY <2>1
    <2>6. torn' \in SUBSET Wallets
      BY <1>5, <2>0 DEF EnsureByEviction
    <2> QED BY <2>1, <2>3, <2>4, <2>5, <2>6, NewEntryTypes
  <1>6. ASSUME NEW h \in Threads, Acquire(h) \/ CheckNew(h)
        PROVE  TypeOK'
    <2>1. CASE Acquire(h)
      BY <2>1 DEF Acquire, registry, contents, Held
    <2>2. CASE CheckNew(h)
      BY <1>2, <2>2 DEF CheckNew, registry, contents, Held
    <2> QED BY <1>6, <2>1, <2>2
  <1>7. ASSUME NEW h \in Threads, CheckSkips(h) \/ ReadRow(h)
        PROVE  TypeOK'
    <2>1. NextWallet(h) /\ todo[h] # <<>> /\ UNCHANGED <<registry, contents>>
      BY <1>2, <1>7 DEF CheckSkips, ReadRow
    <2> QED BY <2>1, NextWalletTypes DEF registry, contents
  <1>8. ASSUME NEW h \in Threads, AppendTrade(h)
        PROVE  TypeOK'
    <2>0. /\ Wallet(h) \in Wallets /\ trade[h] \in Trades /\ window[Wallet(h)] \in Seq(Trades)
          /\ Len(window[Wallet(h)]) <= MaxTrades
      BY <1>2, <1>8 DEF AppendTrade, Shape, Counts
    <2> DEFINE old == window[Wallet(h)]
               kept == IF Len(old) >= MaxTrades THEN Tail(old) ELSE old
    <2>1. window' = [window EXCEPT ![Wallet(h)] = Append(kept, trade[h])]
      BY <1>8 DEF AppendTrade, AppendRecord
    <2>2. kept \in Seq(Trades) /\ Len(kept) + 1 <= MaxTrades
      <3>1. CASE Len(old) >= MaxTrades
        <4>1. Tail(old) \in Seq(Trades) /\ Len(Tail(old)) = Len(old) - 1
          BY <2>0, <3>1, Beheaded
        <4> QED BY <2>0, <3>1, <4>1
      <3>2. CASE ~(Len(old) >= MaxTrades)
        BY <2>0, <3>2
      <3> QED BY <3>1, <3>2
    <2> HIDE DEF kept
    <2>3. Append(kept, trade[h]) \in Seq(Trades) /\ Len(Append(kept, trade[h])) <= MaxTrades
      BY <2>0, <2>2
    <2>4. /\ window' \in [Wallets -> Seq(Trades)]
          /\ \A w \in Wallets : Len(window'[w]) <= MaxTrades
      BY <2>0, <2>1, <2>3
    <2>5. index' \in [Entries -> SUBSET Trades]
      BY <1>8, <2>0 DEF AppendTrade, AppendRecord
    <2>6. pc' \in [Threads -> {"idle", "ensure", "lock"} \cup Held]
      BY <1>8 DEF AppendTrade, Held
    <2> QED BY <1>8, <2>4, <2>5, <2>6 DEF AppendTrade, registry
  <1>9. ASSUME NEW h \in Threads, Count(h)
        PROVE  TypeOK'
    <2>0. Wallet(h) \in Wallets /\ todo[h] # <<>> /\ trade[h] \in Trades
      BY <1>2, <1>9 DEF Count, Shape, Counts
    <2>1. NextWallet(h) /\ sketched' \in [Wallets -> SUBSET Trades]
      BY <1>9, <2>0 DEF Count
    <2> QED BY <1>9, <2>0, <2>1, NextWalletTypes DEF Count, registry
  <1>10. ASSUME NEW h \in Threads, KeyError(h)
         PROVE  TypeOK'
    BY <1>10 DEF KeyError, Raise, registry, contents
  <1>11. CASE UNCHANGED vars
    BY <1>11 DEF vars, registry, contents, threadVars
  <1> QED BY <1>1, <1>3, <1>4, <1>5, <1>6, <1>7, <1>8, <1>9, <1>10, <1>11 DEF Next, Step

------------------------------------------------------------------------------
(* The kinds of steps *)

Others(h) ==
  \A g \in Threads \ {h} :
    /\ pc'[g] = pc[g] /\ todo'[g] = todo[g] /\ trade'[g] = trade[g]
    /\ lock'[g] = lock[g] /\ seen'[g] = seen[g]

Called(h) ==
  /\ pc[h] = "idle" /\ pc'[h] = "ensure" /\ todo'[h] # <<>>
  /\ lock'[h] = lock[h] /\ seen'[h] = seen[h]
  /\ UNCHANGED <<registry, contents>>

\* The registry gives h the lock of an entry it has,
Finds(h) ==
  /\ pc[h] = "ensure" /\ pc'[h] = "lock"
  /\ lock'[h] = entry[Wallet(h)] /\ entry[Wallet(h)] # None
  /\ NoRepeats(recent') /\ Members(recent') = Members(recent)
  /\ UNCHANGED <<todo, trade, seen, bound, entry, torn, contents>>

\* The wallet that must go to make room for another one.
Gone == IF Full THEN {Head(recent)} ELSE {}

\* or of a new entry e, when the entry of the wallet that must go is dropped.
Makes(h, e) ==
  /\ pc[h] = "ensure" /\ pc'[h] = "lock"
  /\ entry[Wallet(h)] = None /\ e \notin Alive /\ lock'[h] = e
  /\ Gone \subseteq Members(recent) /\ Wallet(h) \notin Gone
  /\ NoRepeats(recent') /\ Members(recent') = (Members(recent) \ Gone) \cup {Wallet(h)}
  /\ \A w \in Wallets :
       /\ entry'[w] = IF w = Wallet(h) THEN e ELSE IF w \in Gone THEN None ELSE entry[w]
       /\ window'[w] = IF w \in Gone \cup {Wallet(h)} THEN <<>> ELSE window[w]
       /\ sketched'[w] = IF w \in Gone \cup {Wallet(h)} THEN {} ELSE sketched[w]
       /\ w \in torn' <=> IF w \in Gone THEN \E g \in Threads : AtWork(g) /\ Wallet(g) = w
                                         ELSE w \in torn
  /\ index' = [index EXCEPT ![e] = {}]
  /\ UNCHANGED <<todo, trade, seen>>

Acquires(h) ==
  /\ pc[h] = "lock" /\ pc'[h] \in {"row", "check"}
  /\ pc'[h] = "check" => trade[h] \in Trades
  /\ \A g \in Threads : Holds(g) => lock[g] # lock[h]
  /\ UNCHANGED <<todo, trade, lock, seen, registry, contents>>

Checks(h) ==
  /\ pc[h] = "check" /\ pc'[h] = "append"
  /\ entry[Wallet(h)] # None /\ trade[h] \notin index[entry[Wallet(h)]]
  /\ seen'[h] = entry[Wallet(h)]
  /\ UNCHANGED <<todo, trade, lock, registry, contents>>

Appends(h) ==
  /\ pc[h] = "append" /\ pc'[h] = "count"
  /\ entry[Wallet(h)] # None /\ AppendRecord(h, Wallet(h))
  /\ UNCHANGED <<todo, trade, lock, seen, registry, sketched>>

\* h gives the lock back, having counted the trade if it had got that far and
\* the wallet was still there.
Leaves(h) ==
  /\ pc[h] \in Held /\ pc'[h] \in {"idle", "ensure"}
  /\ pc'[h] = "ensure" => todo'[h] # <<>>
  /\ lock'[h] = None /\ seen'[h] = None
  /\ sketched' = IF pc[h] = "count" /\ entry[Wallet(h)] # None
                 THEN [sketched EXCEPT ![Wallet(h)] = @ \cup {trade[h]}] ELSE sketched
  /\ UNCHANGED <<trade, registry, window, index>>

Kind(h) ==
  \/ Called(h) \/ Finds(h) \/ Acquires(h) \/ Checks(h) \/ Appends(h) \/ Leaves(h)
  \/ \E e \in Entries : Makes(h, e)

LEMMA OthersWait ==
  ASSUME TypeOK, NEW h \in Threads, Update(h) \/ GetFeatureRow(h) \/ Step(h)
  PROVE  Others(h)
  <1> USE DEF TypeOK, Others
  <1>1. CASE Update(h) \/ GetFeatureRow(h)
    BY <1>1 DEF Update, GetFeatureRow, Call
  <1>2. CASE EnsureTracked(h) \/ EnsureNew(h) \/ EnsureByEviction(h)
    BY <1>2 DEF EnsureTracked, EnsureNew, EnsureByEviction, NewEntry, GivenLock
  <1>3. CASE Acquire(h) \/ CheckNew(h) \/ AppendTrade(h)
    BY <1>3 DEF Acquire, CheckNew, AppendTrade
  <1>4. CASE CheckSkips(h) \/ Count(h) \/ ReadRow(h)
    BY <1>4 DEF CheckSkips, Count, ReadRow, NextWallet
  <1>5. CASE KeyError(h)
    BY <1>5 DEF KeyError, Raise
  <1> QED BY <1>1, <1>2, <1>3, <1>4, <1>5 DEF Step

LEMMA LeavesFacts ==
  ASSUME TypeOK, Shape, NEW h \in Threads,
         CheckSkips(h) \/ ReadRow(h) \/ Count(h) \/ KeyError(h)
  PROVE  Leaves(h)
  <1>0. pc[h] \in Held /\ todo[h] # <<>>
    BY DEF CheckSkips, ReadRow, Count, KeyError, Held, Shape
  <1>1. CASE CheckSkips(h) \/ ReadRow(h) \/ Count(h)
    <2>1. NextWallet(h)
      BY <1>1 DEF CheckSkips, ReadRow, Count
    <2>2. /\ todo'[h] = Tail(todo[h])
          /\ pc'[h] = IF Len(todo[h]) = 1 THEN "idle" ELSE "ensure"
          /\ lock'[h] = None /\ seen'[h] = None /\ UNCHANGED trade
      BY <2>1 DEF NextWallet, TypeOK
    <2>3. pc'[h] = "ensure" => todo'[h] # <<>>
      BY <1>0, <2>2, RestFacts
    <2>4. /\ sketched' = IF pc[h] = "count" /\ entry[Wallet(h)] # None
                         THEN [sketched EXCEPT ![Wallet(h)] = @ \cup {trade[h]}] ELSE sketched
          /\ UNCHANGED <<registry, window, index>>
      BY <1>1 DEF CheckSkips, ReadRow, Count, contents
    <2> QED BY <1>0, <2>2, <2>3, <2>4 DEF Leaves
  <1>2. CASE KeyError(h)
    BY <1>0, <1>2 DEF KeyError, Raise, Leaves, TypeOK, contents
  <1> QED BY <1>1, <1>2

LEMMA MakesFacts ==
  ASSUME TypeOK, Shape, Registered, NEW h \in Threads, EnsureNew(h) \/ EnsureByEviction(h)
  PROVE  \E e \in Entries : Makes(h, e)
  <1>0. todo[h] # <<>> /\ Wallet(h) \in Wallets /\ entry[Wallet(h)] = None /\ pc[h] = "ensure"
    BY WalletFacts DEF Shape, EnsureNew, EnsureByEviction
  <1>1. Wallet(h) \notin Members(recent)
    BY <1>0 DEF Registered
  <1>2. ASSUME NEW e \in Entries, NEW gone, NewEntry(h, e, gone \cup {Wallet(h)})
        PROVE  /\ pc'[h] = "lock" /\ e \notin Alive /\ lock'[h] = e
               /\ \A w \in Wallets :
                    /\ window'[w] = IF w \in gone \cup {Wallet(h)} THEN <<>> ELSE window[w]
                    /\ sketched'[w] = IF w \in gone \cup {Wallet(h)} THEN {} ELSE sketched[w]
               /\ index' = [index EXCEPT ![e] = {}]
               /\ UNCHANGED <<todo, trade, seen>>
    BY <1>2 DEF NewEntry, GivenLock, TypeOK
  <1>3. CASE EnsureNew(h)
    <2>1. PICK e \in Entries :
            NewEntry(h, e, {} \cup {Wallet(h)}) /\ entry' = [entry EXCEPT ![Wallet(h)] = e]
      BY <1>3 DEF EnsureNew
    <2>2. NoRepeats(recent') /\ Members(recent') = (Members(recent) \ {}) \cup {Wallet(h)}
      <3>1. recent' = Append(recent, Wallet(h))
        BY <1>3 DEF EnsureNew
      <3>2. Members(recent') = Members(recent) \cup {Wallet(h)}
        BY <1>0, <3>1, Appended DEF TypeOK
      <3>3. NoRepeats(recent')
        BY <1>0, <1>1, <3>1, Appended DEF TypeOK, Registered
      <3> QED BY <3>2, <3>3
    <2>3. \A w \in Wallets : entry'[w] = IF w = Wallet(h) THEN e ELSE entry[w]
      BY <2>1 DEF TypeOK
    <2>4. torn' = torn
      BY <1>3 DEF EnsureNew
    <2>5. Gone = {}
      BY <1>3 DEF EnsureNew, Gone
    <2>6. Makes(h, e)
      BY <1>0, <1>2, <2>1, <2>2, <2>3, <2>4, <2>5 DEF Makes
    <2> QED BY <2>6
  <1>4. CASE EnsureByEviction(h)
    <2> DEFINE v == Head(recent)
    <2>0. Full /\ recent \in Seq(Wallets) /\ Len(recent) > 0 /\ NoRepeats(recent)
      BY <1>4, BufferAssumption DEF EnsureByEviction, Full, TypeOK, Registered
    <2>1. PICK e \in Entries :
            /\ NewEntry(h, e, {v, Wallet(h)})
            /\ entry' = [entry EXCEPT ![v] = None, ![Wallet(h)] = e]
      BY <1>4 DEF EnsureByEviction
    <2>2. /\ v \in Members(recent) /\ Tail(recent) \in Seq(Wallets) /\ NoRepeats(Tail(recent))
          /\ Members(Tail(recent)) = Members(recent) \ {v}
      BY <2>0, Beheaded
    <2>3. v \in Wallets /\ v # Wallet(h)
      BY <1>1, <2>0, <2>2, Elements
    <2>4. recent' = Append(Tail(recent), Wallet(h))
      BY <1>4 DEF EnsureByEviction
    <2>5. torn' = IF \E g \in Threads : AtWork(g) /\ Wallet(g) = v
                  THEN torn \cup {v} ELSE torn \ {v}
      BY <1>4 DEF EnsureByEviction
    <2> DEFINE rest == Tail(recent)
    <2> HIDE DEF v, rest
    <2>6. Members(recent') = (Members(recent) \ {v}) \cup {Wallet(h)}
      <3>1. rest \in Seq(Wallets) /\ Members(rest) = Members(recent) \ {v}
        BY <2>2 DEF rest
      <3>2. Members(Append(rest, Wallet(h))) = Members(rest) \cup {Wallet(h)}
        BY <1>0, <3>1, Appended
      <3> QED BY <2>4, <3>1, <3>2 DEF rest
    <2>7. NoRepeats(recent')
      <3>1. rest \in Seq(Wallets) /\ NoRepeats(rest) /\ Wallet(h) \notin Members(rest)
        BY <1>1, <2>2 DEF rest
      <3>2. NoRepeats(Append(rest, Wallet(h)))
        BY <1>0, <3>1, Appended
      <3> QED BY <2>4, <3>2 DEF rest
    <2>8. \A w \in Wallets :
            entry'[w] = IF w = Wallet(h) THEN e ELSE IF w \in {v} THEN None ELSE entry[w]
      BY <2>1, <2>3 DEF TypeOK
    <2>9. \A w \in Wallets :
            w \in torn' <=> IF w \in {v} THEN \E g \in Threads : AtWork(g) /\ Wallet(g) = w
                                         ELSE w \in torn
      BY <2>5
    <2>10. NewEntry(h, e, {v} \cup {Wallet(h)})
      <3>1. {v} \cup {Wallet(h)} = {v, Wallet(h)}
        OBVIOUS
      <3> QED BY <2>1, <3>1
    <2>11. Gone = {v}
      BY <2>0 DEF Gone, v
    <2>12. Makes(h, e)
      BY <1>0, <1>2, <2>2, <2>3, <2>6, <2>7, <2>8, <2>9, <2>10, <2>11 DEF Makes
    <2> QED BY <2>12
  <1> QED BY <1>3, <1>4

LEMMA Kinds ==
  ASSUME TypeOK, Shape, Registered, NEW h \in Threads, Update(h) \/ GetFeatureRow(h) \/ Step(h)
  PROVE  Others(h) /\ Kind(h)
  <1> USE DEF Kind
  <1>1. CASE Update(h) \/ GetFeatureRow(h)
    <2>1. PICK wallets \in Seq(Wallets), t \in Trades \cup {None} :
            wallets # <<>> /\ Call(h, wallets, t)
      BY <1>1, CallFacts
    <2> QED BY <2>1, OthersWait DEF Call, Called, TypeOK
  <1>2. CASE EnsureTracked(h)
    <2>1. PICK i \in DOMAIN recent : recent' = Append(Without(recent, i), recent[i])
      BY <1>2 DEF EnsureTracked
    <2>2. NoRepeats(recent') /\ Members(recent') = Members(recent)
      BY <2>1, MovedToEnd DEF Registered, TypeOK
    <2> QED BY <1>2, <2>2, OthersWait DEF EnsureTracked, GivenLock, Finds, TypeOK
  <1>3. CASE EnsureNew(h) \/ EnsureByEviction(h)
    BY <1>3, MakesFacts, OthersWait DEF Step
  <1>4. CASE Acquire(h)
    BY <1>4, OthersWait DEF Acquire, Acquires, TypeOK
  <1>5. CASE CheckNew(h)
    BY <1>5, OthersWait DEF CheckNew, Checks, TypeOK
  <1>6. CASE AppendTrade(h)
    BY <1>6, OthersWait DEF AppendTrade, Appends, TypeOK
  <1>7. CASE CheckSkips(h) \/ ReadRow(h) \/ Count(h) \/ KeyError(h)
    BY <1>7, LeavesFacts, OthersWait DEF Step
  <1> QED BY <1>1, <1>2, <1>3, <1>4, <1>5, <1>6, <1>7 DEF Step

\* The other threads stay where they are.
LEMMA OthersSame ==
  ASSUME NEW h \in Threads, Others(h), NEW g \in Threads, g # h
  PROVE  /\ pc'[g] = pc[g] /\ Wallet(g)' = Wallet(g) /\ todo'[g] = todo[g]
         /\ trade'[g] = trade[g] /\ lock'[g] = lock[g] /\ seen'[g] = seen[g]
         /\ AtWork(g)' <=> AtWork(g)
         /\ Holds(g)' <=> Holds(g)
  BY DEF Others, Wallet, AtWork, Holds

\* The entry of a wallet is one of Entries, and so is a lock or an index held.
LEMMA EntryFacts ==
  ASSUME TypeOK
  PROVE  /\ \A w \in Wallets : entry[w] \in Entries \cup {None} /\ entry[w] \in Alive
         /\ \A h \in Threads : /\ lock[h] \in Entries \cup {None} /\ lock[h] \in Alive
                              /\ seen[h] \in Entries \cup {None} /\ seen[h] \in Alive
  BY DEF TypeOK, Alive

------------------------------------------------------------------------------
(* The invariant is inductive *)

LEMMA ShapeStep ==
  ASSUME TypeOK, Shape, NEW h \in Threads, Others(h), Kind(h)
  PROVE  Shape'
  <1>1. ASSUME NEW g \in Threads, g # h
        PROVE  /\ pc'[g] # "idle" => todo'[g] # <<>>
               /\ AtWork(g)' <=> lock'[g] # None
               /\ pc'[g] \in Counts <=> seen'[g] # None
               /\ pc'[g] \in {"check"} \cup Counts => trade'[g] \in Trades
    BY <1>1, OthersSame DEF Shape
  <1>2. /\ pc'[h] # "idle" => todo'[h] # <<>>
        /\ AtWork(h)' <=> lock'[h] # None
        /\ pc'[h] \in Counts <=> seen'[h] # None
        /\ pc'[h] \in {"check"} \cup Counts => trade'[h] \in Trades
    <2> USE DEF Shape, AtWork, Held, Counts
    <2>1. CASE Called(h)
      BY <2>1 DEF Called
    <2>2. CASE Finds(h)
      BY <2>2 DEF Finds
    <2>3. CASE \E e \in Entries : Makes(h, e)
      BY <2>3, BufferAssumption DEF Makes
    <2>4. CASE Acquires(h)
      BY <2>4 DEF Acquires
    <2>5. CASE Checks(h)
      BY <2>5 DEF Checks
    <2>6. CASE Appends(h)
      BY <2>6 DEF Appends
    <2>7. CASE Leaves(h)
      BY <2>7 DEF Leaves
    <2> QED BY <2>1, <2>2, <2>3, <2>4, <2>5, <2>6, <2>7 DEF Kind
  <1> QED BY <1>1, <1>2 DEF Shape

LEMMA RegisteredStep ==
  ASSUME TypeOK, Registered, NEW h \in Threads, Kind(h)
  PROVE  Registered'
  <1>1. CASE Finds(h)
    BY <1>1 DEF Finds, Registered
  <1>2. CASE \E e \in Entries : Makes(h, e)
    <2>1. PICK e \in Entries : Makes(h, e)
      BY <1>2
    <2>2. \A w \in Wallets :
            entry'[w] = IF w = Wallet(h) THEN e ELSE IF w \in Gone THEN None ELSE entry[w]
      BY <2>1 DEF Makes
    <2>3. e # None /\ \A w \in Wallets : entry[w] # e
      BY <2>1, EntryFacts, BufferAssumption DEF Makes
    <2>4. /\ Wallet(h) \notin Gone /\ NoRepeats(recent')
          /\ Members(recent') = (Members(recent) \ Gone) \cup {Wallet(h)}
      BY <2>1 DEF Makes
    <2>5. \A w \in Wallets : entry'[w] # None <=> w \in Members(recent')
      BY <2>2, <2>3, <2>4 DEF Registered
    <2>6. \A v, w \in Wallets : entry'[v] = entry'[w] /\ entry'[v] # None => v = w
      BY <2>2, <2>3 DEF Registered
    <2> QED BY <2>4, <2>5, <2>6 DEF Registered
  <1>3. CASE UNCHANGED registry
    BY <1>3 DEF registry, Registered
  <1> QED BY <1>1, <1>2, <1>3 DEF Kind, Called, Acquires, Checks, Appends, Leaves

LEMMA OwnEntryStep ==
  ASSUME TypeOK, Shape, Registered, OwnEntry, NEW h \in Threads, Others(h), Kind(h)
  PROVE  OwnEntry'
  <1> SUFFICES ASSUME NEW g \in Threads, NEW w \in Wallets, entry'[w] # None,
                      entry'[w] \in {lock'[g], seen'[g]}
               PROVE  w = Wallet(g)'
    BY DEF OwnEntry
  <1>1. g # h => lock'[g] = lock[g] /\ seen'[g] = seen[g] /\ Wallet(g)' = Wallet(g)
    BY OthersSame
  <1>2. CASE Called(h)
    <2>1. lock'[h] = None /\ seen'[h] = None /\ entry' = entry
      BY <1>2 DEF Called, Shape, AtWork, Held, Counts, registry
    <2> QED BY <1>1, <2>1 DEF OwnEntry
  <1>3. CASE Finds(h)
    <2>1. seen'[h] = None /\ lock'[h] = entry[Wallet(h)] /\ entry' = entry /\ Wallet(h)' = Wallet(h)
      BY <1>3 DEF Finds, Shape, Counts, Wallet
    <2>2. pc[h] = "ensure"
      BY <1>3 DEF Finds
    <2>3. Wallet(h) \in Wallets
      BY <2>2, WalletFacts DEF Shape
    <2> QED BY <1>1, <2>1, <2>3 DEF OwnEntry, Registered
  <1>4. CASE \E e \in Entries : Makes(h, e)
    <2>1. PICK e \in Entries : Makes(h, e)
      BY <1>4
    <2>2. seen'[h] = None /\ lock'[h] = e /\ Wallet(h)' = Wallet(h)
      BY <2>1 DEF Makes, Shape, Counts, Wallet
    <2>3. lock[g] # e /\ seen[g] # e /\ entry[w] # e
      BY <2>1, EntryFacts DEF Makes
    <2>4. entry'[w] = e \/ entry'[w] = entry[w]
      BY <2>1 DEF Makes
    <2>5. entry'[w] = e => w = Wallet(h)
      BY <2>1, <2>3, BufferAssumption DEF Makes
    <2> QED BY <1>1, <2>2, <2>3, <2>4, <2>5 DEF OwnEntry
  <1>5. CASE Acquires(h) \/ Appends(h)
    <2>1. UNCHANGED <<lock, seen, entry, todo>>
      BY <1>5 DEF Acquires, Appends, registry
    <2> QED BY <2>1 DEF OwnEntry, Wallet
  <1>6. CASE Checks(h)
    <2>1. /\ lock' = lock /\ seen'[h] = entry[Wallet(h)] /\ entry' = entry
          /\ Wallet(h)' = Wallet(h) /\ pc[h] = "check"
      BY <1>6 DEF Checks, Wallet, registry
    <2>2. Wallet(h) \in Wallets
      BY <2>1, WalletFacts DEF Shape
    <2> QED BY <1>1, <2>1, <2>2 DEF OwnEntry, Registered
  <1>7. CASE Leaves(h)
    <2>1. lock'[h] = None /\ seen'[h] = None /\ entry' = entry
      BY <1>7 DEF Leaves, registry
    <2> QED BY <1>1, <2>1 DEF OwnEntry
  <1> QED BY <1>2, <1>3, <1>4, <1>5, <1>6, <1>7 DEF Kind

\* What a thread at work finds of its wallet is not disturbed by a new entry of
\* another wallet, nor by an eviction, unless the eviction tears the wallet.
LEMMA Untouched ==
  ASSUME TypeOK, Shape, UpToDate, NEW h \in Threads, NEW e \in Entries, Makes(h, e),
         NEW g \in Threads, AtWork(g), Wallet(g) \notin torn'
  PROVE  /\ Wallet(g) \notin torn
         /\ entry'[Wallet(g)] = entry[Wallet(g)] /\ entry[Wallet(g)] # e
         /\ index'[entry[Wallet(g)]] = index[entry[Wallet(g)]]
  <1>1. Wallet(g) \in Wallets
    BY WalletFacts DEF Shape, AtWork, Held
  <1>2. Wallet(g) \notin Gone /\ Wallet(g) \notin torn
    BY <1>1 DEF Makes
  <1>3. Wallet(g) # Wallet(h)
    <2>1. lock[g] # None /\ lock[g] = entry[Wallet(g)]
      BY <1>2 DEF UpToDate, Shape
    <2> QED BY <2>1 DEF Makes
  <1>4. entry'[Wallet(g)] = entry[Wallet(g)] /\ entry[Wallet(g)] # e
    BY <1>1, <1>2, <1>3, EntryFacts DEF Makes
  <1>5. index'[entry[Wallet(g)]] = index[entry[Wallet(g)]]
    BY <1>1, <1>4, EntryFacts DEF Makes, TypeOK
  <1> QED BY <1>2, <1>4, <1>5

LEMMA UpToDateStep ==
  ASSUME TypeOK, Shape, UpToDate, NEW h \in Threads, Others(h), Kind(h)
  PROVE  UpToDate'
  <1> SUFFICES ASSUME NEW g \in Threads, AtWork(g)', Wallet(g)' \notin torn'
               PROVE  /\ lock'[g] = entry'[Wallet(g)']
                      /\ pc'[g] \in Counts => seen'[g] = entry'[Wallet(g)']
    BY DEF UpToDate
  <1>0. g # h => /\ lock'[g] = lock[g] /\ seen'[g] = seen[g] /\ Wallet(g)' = Wallet(g)
                 /\ pc'[g] = pc[g] /\ AtWork(g)
    BY OthersSame
  <1>1. CASE UNCHANGED <<entry, torn>> /\ g # h
    BY <1>0, <1>1 DEF UpToDate
  <1>2. CASE Called(h) \/ Leaves(h)
    <2>1. UNCHANGED <<entry, torn>> /\ ~AtWork(h)'
      BY <1>2 DEF Called, Leaves, AtWork, Held, registry
    <2> QED BY <1>1, <2>1
  <1>3. CASE Finds(h)
    BY <1>1, <1>3 DEF Finds, Wallet, Counts
  <1>4. CASE \E e \in Entries : Makes(h, e)
    <2>1. PICK e \in Entries : Makes(h, e)
      BY <1>4
    <2>2. CASE g = h
      <3>1. Wallet(h) \in Wallets /\ Wallet(h)' = Wallet(h)
        BY <2>1, WalletFacts DEF Shape, Makes, Wallet
      <3> QED BY <2>1, <2>2, <3>1 DEF Makes, Counts
    <2>3. CASE g # h
      <3>1. Wallet(g) \notin torn /\ entry'[Wallet(g)] = entry[Wallet(g)]
        BY <1>0, <2>1, <2>3, Untouched
      <3> QED BY <1>0, <2>3, <3>1 DEF UpToDate
    <2> QED BY <2>2, <2>3
  <1>5. CASE Acquires(h)
    BY <1>1, <1>5 DEF Acquires, UpToDate, Wallet, AtWork, Held, Counts, registry
  <1>6. CASE Checks(h)
    BY <1>1, <1>6 DEF Checks, UpToDate, Wallet, AtWork, Held, Counts, registry
  <1>7. CASE Appends(h)
    BY <1>1, <1>7 DEF Appends, UpToDate, Wallet, AtWork, Held, Counts, registry
  <1> QED BY <1>2, <1>3, <1>4, <1>5, <1>6, <1>7 DEF Kind

LEMMA ExclusiveStep ==
  ASSUME TypeOK, Exclusive, NEW h \in Threads, Others(h), Kind(h)
  PROVE  Exclusive'
  <1>1. \A g \in Threads : g # h => (Holds(g)' <=> Holds(g)) /\ lock'[g] = lock[g]
    BY OthersSame
  <1>2. CASE ~Holds(h)'
    BY <1>1, <1>2 DEF Exclusive
  <1>3. CASE Acquires(h)
    BY <1>1, <1>3 DEF Acquires, Exclusive
  <1>4. CASE Checks(h) \/ Appends(h)
    <2>1. Holds(h) /\ lock' = lock
      BY <1>4 DEF Checks, Appends, Holds, Held
    <2> QED BY <1>1, <2>1 DEF Exclusive
  <1> QED BY <1>2, <1>3, <1>4 DEF Kind, Called, Finds, Makes, Leaves, Holds, Held

LEMMA StillNewStep ==
  ASSUME TypeOK, Shape, Registered, OwnEntry, UpToDate, Exclusive, StillNew,
         NEW h \in Threads, Others(h), Kind(h)
  PROVE  StillNew'
  <1> SUFFICES ASSUME NEW g \in Threads, pc'[g] = "append", Wallet(g)' \notin torn'
               PROVE  trade'[g] \notin index'[entry'[Wallet(g)']]
    BY DEF StillNew
  <1>0. g # h => /\ trade'[g] = trade[g] /\ Wallet(g)' = Wallet(g) /\ pc[g] = "append" /\ AtWork(g)
    BY OthersSame DEF AtWork, Held
  <1>1. CASE g # h /\ UNCHANGED <<entry, torn, index>>
    BY <1>0, <1>1 DEF StillNew
  <1>2. CASE Called(h) \/ Finds(h) \/ Acquires(h) \/ Leaves(h)
    BY <1>1, <1>2 DEF Called, Finds, Acquires, Leaves, registry, contents
  <1>3. CASE \E e \in Entries : Makes(h, e)
    <2>1. PICK e \in Entries : Makes(h, e)
      BY <1>3
    <2>2. g # h
      BY <2>1 DEF Makes
    <2>3. /\ Wallet(g) \notin torn /\ entry'[Wallet(g)] = entry[Wallet(g)]
          /\ index'[entry[Wallet(g)]] = index[entry[Wallet(g)]]
      BY <1>0, <2>1, <2>2, Untouched
    <2> QED BY <1>0, <2>2, <2>3 DEF StillNew
  <1>4. CASE Checks(h)
    BY <1>1, <1>4 DEF Checks, Wallet, registry, contents
  <1>5. CASE Appends(h)
    <2>1. g # h /\ UNCHANGED <<entry, torn>> /\ pc[h] = "append"
      BY <1>5 DEF Appends, registry
    <2>2. Wallet(g) \in Wallets /\ Wallet(h) \in Wallets
      BY <1>0, <2>1, WalletFacts DEF Shape
    <2>3. lock[g] # None /\ lock[g] = entry[Wallet(g)] /\ Wallet(g) \notin torn
      BY <1>0, <2>1 DEF Shape, UpToDate
    <2>4. seen[h] # entry[Wallet(g)]
      <3> SUFFICES ASSUME seen[h] = entry[Wallet(g)] PROVE FALSE
        OBVIOUS
      <3>1. Wallet(g) = Wallet(h)
        BY <2>2, <2>3 DEF OwnEntry
      <3>2. lock[h] = lock[g]
        BY <2>1, <2>3, <3>1 DEF UpToDate, AtWork, Held
      <3> QED BY <1>0, <2>1, <3>2 DEF Exclusive, Holds, Held
    <2>5. index'[entry[Wallet(g)]] = index[entry[Wallet(g)]]
      BY <1>5, <2>2, <2>3, <2>4, EntryFacts DEF Appends, AppendRecord, TypeOK
    <2> QED BY <1>0, <2>1, <2>3, <2>5 DEF StillNew
  <1> QED BY <1>2, <1>3, <1>4, <1>5 DEF Kind

\* Only an append makes a trade one to be counted, and only counting it, or the
\* loss of the wallet, ends that.
LEMMA CountingStep ==
  ASSUME NEW h \in Threads, Others(h), Kind(h), NEW w \in Wallets
  PROVE  /\ ~Appends(h) /\ ~Leaves(h) => Counting(w)' = Counting(w)
         /\ Appends(h) => Counting(w)' = Counting(w) \cup (IF Wallet(h) = w THEN {trade[h]} ELSE {})
         /\ Leaves(h) => Counting(w) =
              Counting(w)' \cup (IF pc[h] = "count" /\ Wallet(h) = w THEN {trade[h]} ELSE {})
  <1>1. /\ \A x : x \in Counting(w) <=>
             \E g \in Threads : pc[g] = "count" /\ Wallet(g) = w /\ x = trade[g]
        /\ \A x : x \in Counting(w)' <=>
             \E g \in Threads : pc'[g] = "count" /\ Wallet(g)' = w /\ x = trade'[g]
    BY DEF Counting
  <1>2. \A g \in Threads : g # h => pc'[g] = pc[g] /\ Wallet(g)' = Wallet(g) /\ trade'[g] = trade[g]
    BY OthersSame
  <1>3. CASE ~Appends(h) /\ ~Leaves(h)
    <2>1. pc[h] # "count" /\ pc'[h] # "count"
      BY <1>3 DEF Kind, Called, Finds, Makes, Acquires, Checks
    <2> QED BY <1>1, <1>2, <1>3, <2>1
  <1>4. CASE Appends(h)
    <2>1. pc[h] # "count" /\ pc'[h] = "count" /\ Wallet(h)' = Wallet(h) /\ trade'[h] = trade[h]
      BY <1>4 DEF Appends, Wallet
    <2>2. ~Leaves(h)
      BY <2>1 DEF Leaves
    <2> QED BY <1>1, <1>2, <1>4, <2>1, <2>2
  <1>5. CASE Leaves(h)
    <2>1. pc'[h] # "count" /\ trade' = trade /\ ~Appends(h)
      BY <1>5 DEF Leaves, Appends
    <2> QED BY <1>1, <1>2, <1>5, <2>1
  <1> QED BY <1>3, <1>4, <1>5

\* What append() does to a deque that is at most max_trades long.
LEMMA AppendedRecord ==
  ASSUME TypeOK, NEW h \in Threads, NEW w \in Wallets, trade[h] \in Trades, seen[h] \in Entries,
         AppendRecord(h, w), Members(window[w]) = index[seen[h]], NoRepeats(window[w]),
         trade[h] \notin index[seen[h]]
  PROVE  /\ Members(window'[w]) = index'[seen[h]]
         /\ NoRepeats(window'[w])
         /\ Members(window'[w]) \subseteq Members(window[w]) \cup {trade[h]}
  <1> DEFINE old == window[w]
             kept == IF Len(old) >= MaxTrades THEN Tail(old) ELSE old
             dropped == IF Len(old) >= MaxTrades THEN {Head(old)} ELSE {}
  <1>0. old \in Seq(Trades) /\ MaxTrades \in Nat \ {0}
    BY BufferAssumption DEF TypeOK
  <1>1. window'[w] = Append(kept, trade[h]) /\ index'[seen[h]] = (index[seen[h]] \ dropped) \cup {trade[h]}
    BY DEF AppendRecord, TypeOK
  <1>2. kept \in Seq(Trades) /\ NoRepeats(kept) /\ Members(kept) = Members(old) \ dropped
    <2>1. CASE Len(old) >= MaxTrades
      <3>1. Len(old) > 0
        BY <1>0, <2>1
      <3>2. /\ Tail(old) \in Seq(Trades) /\ NoRepeats(Tail(old))
            /\ Members(Tail(old)) = Members(old) \ {Head(old)}
        BY <1>0, <3>1, Beheaded
      <3> QED BY <2>1, <3>2
    <2>2. CASE ~(Len(old) >= MaxTrades)
      BY <1>0, <2>2
    <2> QED BY <2>1, <2>2
  <1> HIDE DEF kept, dropped, old
  <1>3. Members(Append(kept, trade[h])) = Members(kept) \cup {trade[h]}
    BY <1>2, Appended
  <1>4. trade[h] \notin Members(kept)
    BY <1>2 DEF old
  <1>5. NoRepeats(Append(kept, trade[h]))
    BY <1>2, <1>4, Appended
  <1> QED BY <1>1, <1>2, <1>3, <1>5 DEF old

LEMMA WholeStep ==
  ASSUME TypeOK, Shape, Registered, OwnEntry, UpToDate, StillNew, Whole,
         NEW h \in Threads, Others(h), Kind(h)
  PROVE  Whole'
  <1> SUFFICES ASSUME NEW w \in Wallets, Known(w)'
               PROVE  /\ Members(window'[w]) = index'[entry'[w]]
                      /\ NoRepeats(window'[w])
                      /\ Members(window'[w]) \subseteq sketched'[w] \cup Counting(w)'
    BY DEF Whole
  <1>0. entry[w] \in Entries \cup {None}
    BY EntryFacts
  <1>1. CASE Called(h) \/ Finds(h) \/ Acquires(h) \/ Checks(h)
    <2>1. ~Appends(h) /\ ~Leaves(h)
      BY <1>1 DEF Called, Finds, Acquires, Checks, Appends, Leaves, Held
    <2>2. Counting(w)' = Counting(w)
      BY <2>1, CountingStep
    <2>3. UNCHANGED <<entry, torn, window, sketched, index>>
      BY <1>1 DEF Called, Finds, Acquires, Checks, registry, contents
    <2> QED BY <2>2, <2>3 DEF Whole, Known
  <1>2. CASE \E e \in Entries : Makes(h, e)
    <2>1. PICK e \in Entries : Makes(h, e)
      BY <1>2
    <2>2. Counting(w)' = Counting(w)
      <3>1. ~Appends(h) /\ ~Leaves(h)
        BY <2>1 DEF Makes, Appends, Leaves, Held
      <3> QED BY <3>1, CountingStep
    <2>3. /\ entry'[w] = IF w = Wallet(h) THEN e ELSE IF w \in Gone THEN None ELSE entry[w]
          /\ window'[w] = IF w \in Gone \cup {Wallet(h)} THEN <<>> ELSE window[w]
          /\ sketched'[w] = IF w \in Gone \cup {Wallet(h)} THEN {} ELSE sketched[w]
          /\ w \notin Gone => (w \in torn' <=> w \in torn)
          /\ index' = [index EXCEPT ![e] = {}] /\ Wallet(h) \notin Gone
      BY <2>1 DEF Makes
    <2>4. CASE w = Wallet(h)
      <3>1. window'[w] = <<>> /\ index'[entry'[w]] = {}
        BY <2>3, <2>4 DEF TypeOK
      <3>2. Members(<<>>) = {} /\ NoRepeats(<<>>)
        BY DEF Members, NoRepeats
      <3> QED BY <3>1, <3>2
    <2>5. CASE w # Wallet(h)
      <3>1. w \notin Gone /\ entry'[w] = entry[w] /\ Known(w)
        BY <2>3, <2>5 DEF Known
      <3>2. entry[w] # e
        BY <2>1, EntryFacts DEF Makes
      <3>3. index'[entry[w]] = index[entry[w]]
        BY <1>0, <2>3, <3>1, <3>2 DEF TypeOK, Known
      <3> QED BY <2>2, <2>3, <2>5, <3>1, <3>3 DEF Whole
    <2> QED BY <2>4, <2>5
  <1>3. CASE Appends(h)
    <2>0. /\ UNCHANGED <<entry, torn, sketched>> /\ pc[h] = "append" /\ AppendRecord(h, Wallet(h))
          /\ AtWork(h) /\ seen[h] # None /\ trade[h] \in Trades
      BY <1>3 DEF Appends, registry, AtWork, Held, Shape, Counts
    <2>1. Known(w) /\ Wallet(h) \in Wallets /\ seen[h] \in Entries
      BY <2>0, EntryFacts, WalletFacts DEF Known, Shape
    <2>2. Counting(w)' = Counting(w) \cup (IF Wallet(h) = w THEN {trade[h]} ELSE {})
      BY <1>3, CountingStep
    <2>3. CASE w = Wallet(h)
      <3>1. seen[h] = entry[w] /\ trade[h] \notin index[entry[w]]
        BY <2>0, <2>1, <2>3 DEF UpToDate, StillNew, Counts, Known
      <3>2. Members(window[w]) = index[seen[h]] /\ NoRepeats(window[w])
            /\ Members(window[w]) \subseteq sketched[w] \cup Counting(w)
        BY <2>1, <3>1 DEF Whole
      <3>3. /\ Members(window'[w]) = index'[seen[h]] /\ NoRepeats(window'[w])
            /\ Members(window'[w]) \subseteq Members(window[w]) \cup {trade[h]}
        BY <2>0, <2>1, <2>3, <3>1, <3>2, AppendedRecord
      <3> QED BY <2>0, <2>2, <2>3, <3>1, <3>2, <3>3
    <2>4. CASE w # Wallet(h)
      <3>1. window'[w] = window[w]
        BY <2>0, <2>1, <2>4 DEF AppendRecord, TypeOK
      <3>2. seen[h] # entry[w]
        BY <2>1, <2>4 DEF OwnEntry, Known
      <3>3. index'[entry[w]] = index[entry[w]]
        BY <1>0, <2>0, <2>1, <3>2 DEF AppendRecord, TypeOK, Known
      <3> QED BY <2>0, <2>1, <2>2, <2>4, <3>1, <3>3 DEF Whole
    <2> QED BY <2>3, <2>4
  <1>4. CASE Leaves(h)
    <2>0. UNCHANGED <<entry, torn, window, index>> /\ Known(w)
      BY <1>4 DEF Leaves, registry, Known
    <2>1. Counting(w) = Counting(w)' \cup (IF pc[h] = "count" /\ Wallet(h) = w THEN {trade[h]} ELSE {})
      BY <1>4, CountingStep
    <2>2. sketched'[w] = IF pc[h] = "count" /\ Wallet(h) = w
                        THEN sketched[w] \cup {trade[h]} ELSE sketched[w]
      BY <1>4, <2>0 DEF Leaves, Known, TypeOK
    <2> QED BY <2>0, <2>1, <2>2 DEF Whole
  <1> QED BY <1>1, <1>2, <1>3, <1>4 DEF Kind

LEMMA Invariant == Spec => []Inv
  <1>1. Init => Inv
    <2> SUFFICES ASSUME Init PROVE Inv
      OBVIOUS
    <2> USE BufferAssumption DEF Init
    <2>1. <<>> \in Seq(Wallets) /\ <<>> \in Seq(Trades) /\ Len(<<>>) = 0
      OBVIOUS
    <2>2. TypeOK
      BY <2>1 DEF TypeOK, Held
    <2>3. Shape /\ OwnEntry /\ UpToDate /\ Exclusive /\ StillNew
      BY DEF Shape, OwnEntry, UpToDate, Exclusive, StillNew, AtWork, Holds, Held, Counts
    <2>4. Registered /\ Whole
      BY DEF Registered, Whole, Known, NoRepeats, Members
    <2> QED BY <2>2, <2>3, <2>4 DEF Inv
  <1>2. Inv /\ [Next]_vars => Inv'
    <2> SUFFICES ASSUME Inv, [Next]_vars PROVE Inv'
      OBVIOUS
    <2> USE DEF Inv
    <2>1. CASE UNCHANGED vars
      BY <2>1 DEF vars, registry, contents, threadVars, TypeOK, Shape, Registered, OwnEntry, UpToDate,
                  Exclusive, Whole, StillNew, AtWork, Holds, Known, Counting, Wallet
    <2>2. ASSUME NEW h \in Threads, Update(h) \/ GetFeatureRow(h) \/ Step(h)
          PROVE  Inv'
      <3>1. TypeOK'
        BY TypeStep
      <3>2. Others(h) /\ Kind(h)
        BY <2>2, Kinds
      <3> QED BY <3>1, <3>2, ShapeStep, RegisteredStep, OwnEntryStep, UpToDateStep, ExclusiveStep,
                 StillNewStep, WholeStep
    <2> QED BY <2>1, <2>2 DEF Next
  <1> QED BY <1>1, <1>2, PTL DEF Spec

\* At most max_wallets windows of at most max_trades records, whatever threads
\* that hold the lock of an evicted wallet still write.
THEOREM TypeCorrect == Spec => []TypeOK
  BY Invariant, PTL DEF Inv

\* Under the lock of a wallet that was not evicted under a thread's hands, the
\* wallet is registered and its window, index and sketches agree.
THEOREM LockedWalletWhole == Spec => []LockedWalletIsWhole
  <1>1. Inv => LockedWalletIsWhole
    <2> SUFFICES ASSUME Inv, NEW h \in Threads, Holds(h), Wallet(h) \notin torn
                 PROVE  /\ entry[Wallet(h)] # None
                        /\ Members(window[Wallet(h)]) = index[entry[Wallet(h)]]
                        /\ NoRepeats(window[Wallet(h)])
                        /\ Members(window[Wallet(h)]) \subseteq
                             sketched[Wallet(h)] \cup (IF pc[h] = "count" THEN {trade[h]} ELSE {})
      BY DEF LockedWalletIsWhole
    <2> USE DEF Inv
    <2>1. AtWork(h) /\ Wallet(h) \in Wallets
      BY WalletFacts DEF Holds, AtWork, Held, Shape
    <2>2. lock[h] = entry[Wallet(h)] /\ Known(Wallet(h))
      BY <2>1 DEF UpToDate, Shape, Known
    <2>3. ASSUME NEW g \in Threads, pc[g] = "count", Wallet(g) = Wallet(h)
          PROVE  g = h
      <3>1. lock[g] = lock[h] /\ Holds(g)
        BY <2>2, <2>3 DEF UpToDate, AtWork, Holds, Held
      <3> QED BY <3>1 DEF Exclusive
    <2>4. Counting(Wallet(h)) \subseteq IF pc[h] = "count" THEN {trade[h]} ELSE {}
      BY <2>3 DEF Counting
    <2> QED BY <2>1, <2>2, <2>4 DEF Whole, Known
  <1> QED BY <1>1, Invariant, PTL
------------------------------------------------------------------------------
(* Updates take effect at once *)

\* Nothing promised changes but when a wallet comes and when a trade is appended:
\* the sketches count a trade that was already promised.
LEMMA PromisesKept ==
  ASSUME TypeOK, NEW h \in Threads, Others(h),
         Called(h) \/ Finds(h) \/ Acquires(h) \/ Checks(h) \/ Leaves(h)
  PROVE  UNCHANGED <<PromisedWindow, PromisedSketched>>
  <1>1. UNCHANGED <<entry, torn, window>>
    BY DEF Called, Finds, Acquires, Checks, Leaves, registry, contents
  <1>2. \A w \in Wallets : Known(w)' = Known(w)
    BY <1>1 DEF Known
  <1>3. ASSUME NEW w \in Wallets, Known(w)
        PROVE  sketched'[w] \cup Counting(w)' = sketched[w] \cup Counting(w)
    <2>1. CASE Leaves(h)
      <3>1. Counting(w) = Counting(w)' \cup (IF pc[h] = "count" /\ Wallet(h) = w THEN {trade[h]} ELSE {})
        BY <2>1, CountingStep DEF Kind
      <3>2. sketched'[w] = IF pc[h] = "count" /\ Wallet(h) = w
                          THEN sketched[w] \cup {trade[h]} ELSE sketched[w]
        BY <1>3, <2>1 DEF Leaves, Known, TypeOK
      <3> QED BY <3>1, <3>2
    <2>2. CASE ~Leaves(h)
      <3>1. ~Appends(h) /\ sketched' = sketched
        BY <2>2 DEF Called, Finds, Acquires, Checks, Appends, contents
      <3> QED BY <2>2, <3>1, CountingStep DEF Kind
    <2> QED BY <2>1, <2>2
  <1>4. PromisedWindow' = PromisedWindow
    BY <1>1, <1>2 DEF PromisedWindow
  <1>5. PromisedSketched' = PromisedSketched
    BY <1>2, <1>3 DEF PromisedSketched
  <1> QED BY <1>4, <1>5

\* A new wallet starts from nothing, and nothing is left of the one that goes:
\* a thread that was about to count for either of them had its wallet torn.
LEMMA PromisesCleared ==
  ASSUME TypeOK, Shape, UpToDate, NEW h \in Threads, NEW e \in Entries, Others(h), Makes(h, e),
         NEW w \in Wallets
  PROVE  /\ PromisedWindow'[w] = IF w \in Gone THEN <<>> ELSE PromisedWindow[w]
         /\ PromisedSketched'[w] = IF w \in Gone THEN {} ELSE PromisedSketched[w]
  <1>0. /\ PromisedWindow'[w] = IF Known(w)' THEN window'[w] ELSE <<>>
        /\ PromisedSketched'[w] = IF Known(w)' THEN sketched'[w] \cup Counting(w)' ELSE {}
        /\ PromisedWindow[w] = IF Known(w) THEN window[w] ELSE <<>>
        /\ PromisedSketched[w] = IF Known(w) THEN sketched[w] \cup Counting(w) ELSE {}
    BY DEF PromisedWindow, PromisedSketched
  <1>1. Counting(w)' = Counting(w)
    <2>1. ~Appends(h) /\ ~Leaves(h)
      BY DEF Makes, Appends, Leaves, Held
    <2> QED BY <2>1, CountingStep DEF Kind
  <1>2. CASE w \in Gone
    <2>1. ~Known(w)'
      BY <1>2 DEF Makes, Known
    <2> QED BY <1>0, <1>2, <2>1
  <1>3. CASE w = Wallet(h)
    <2>1. /\ w \notin Gone /\ ~Known(w) /\ window'[w] = <<>> /\ sketched'[w] = {}
          /\ w \in torn' <=> w \in torn
      BY <1>3 DEF Makes, Known
    <2>2. ASSUME w \notin torn PROVE Counting(w) = {}
      <3> SUFFICES ASSUME NEW g \in Threads, pc[g] = "count", Wallet(g) = w PROVE FALSE
        BY DEF Counting
      <3>1. AtWork(g)
        BY DEF AtWork, Held
      <3>2. lock[g] # None /\ lock[g] = entry[w]
        BY <2>2, <3>1 DEF Shape, UpToDate
      <3> QED BY <1>3, <3>2 DEF Makes
    <2> QED BY <1>0, <1>1, <2>1, <2>2 DEF Known
  <1>4. CASE w # Wallet(h) /\ w \notin Gone
    <2>1. /\ entry'[w] = entry[w] /\ window'[w] = window[w] /\ sketched'[w] = sketched[w]
          /\ w \in torn' <=> w \in torn
      BY <1>4 DEF Makes
    <2> QED BY <1>0, <1>1, <1>4, <2>1 DEF Known
  <1> QED BY <1>2, <1>3, <1>4

\* A lookup is a Touch,
LEMMA FindsTouches ==
  ASSUME Inv, NEW h \in Threads, Others(h), EnsureTracked(h)
  PROVE  \E w \in Wallets : Windows!Touch(w)
  <1>1. Finds(h)
    <2>1. PICK i \in DOMAIN recent : recent' = Append(Without(recent, i), recent[i])
      BY DEF EnsureTracked
    <2>2. NoRepeats(recent') /\ Members(recent') = Members(recent)
      BY <2>1, MovedToEnd DEF Inv, Registered, TypeOK
    <2> QED BY <2>2 DEF EnsureTracked, GivenLock, Finds, Inv, TypeOK
  <1>2. UNCHANGED <<PromisedWindow, PromisedSketched>>
    BY <1>1, PromisesKept DEF Inv
  <1>3. Wallet(h) \in Wallets
    BY WalletFacts DEF Inv, Shape, EnsureTracked
  <1>4. PICK i \in DOMAIN recent : recent[i] = Wallet(h) /\ recent' = Append(Without(recent, i), Wallet(h))
    BY DEF EnsureTracked
  <1>5. Windows!Without(recent, i) = Without(recent, i)
    BY DEF Windows!Without, Without
  <1>6. UNCHANGED <<bound, torn>>
    BY DEF EnsureTracked
  <1>7. Windows!Touch(Wallet(h))
    BY <1>2, <1>4, <1>5, <1>6 DEF Windows!Touch
  <1> QED BY <1>3, <1>7

\* a new wallet a Track, or a Replace of the one that is dropped for it,
LEMMA MakesTracks ==
  ASSUME Inv, NEW h \in Threads, Others(h), EnsureNew(h) \/ EnsureByEviction(h)
  PROVE  \E w \in Wallets : Windows!Track(w) \/ \E v \in Wallets : Windows!Replace(v, w)
  <1> USE DEF Inv
  <1>0. PICK e \in Entries : Makes(h, e)
    BY MakesFacts
  <1>1. Wallet(h) \in Wallets /\ entry[Wallet(h)] = None
    BY WalletFacts DEF Shape, EnsureNew, EnsureByEviction
  <1>2. Wallet(h) \notin Windows!Members(recent)
    BY <1>1 DEF Registered, Members, Windows!Members
  <1>3. \A w \in Wallets :
          /\ PromisedWindow'[w] = IF w \in Gone THEN <<>> ELSE PromisedWindow[w]
          /\ PromisedSketched'[w] = IF w \in Gone THEN {} ELSE PromisedSketched[w]
    BY <1>0, PromisesCleared
  <1>4. Windows!Full <=> Full
    BY DEF Windows!Full, Full
  <1>5. CASE EnsureNew(h)
    <2>1. ~Full /\ recent' = Append(recent, Wallet(h)) /\ UNCHANGED <<bound, torn>>
      BY <1>5 DEF EnsureNew
    <2>2. PromisedWindow' = PromisedWindow /\ PromisedSketched' = PromisedSketched
      BY <1>3, <2>1 DEF Gone, PromisedWindow, PromisedSketched
    <2>3. Windows!Track(Wallet(h))
      BY <1>2, <1>4, <2>1, <2>2 DEF Windows!Track
    <2> QED BY <1>1, <2>3
  <1>6. CASE EnsureByEviction(h)
    <2> DEFINE v == Head(recent)
    <2>1. Full /\ recent' = Append(Tail(recent), Wallet(h)) /\ bound' = bound
      BY <1>6 DEF EnsureByEviction
    <2>2. torn' \in {torn \ {v}, torn \cup {v}}
      BY <1>6 DEF EnsureByEviction
    <2>3. Gone = {v}
      BY <2>1 DEF Gone
    <2>4. v \in Wallets
      BY <1>0, <2>3, Elements DEF Makes, TypeOK
    <2> HIDE DEF v
    <2>5. PromisedWindow' = [PromisedWindow EXCEPT ![v] = <<>>]
      BY <1>3, <2>3, <2>4 DEF PromisedWindow
    <2>6. PromisedSketched' = [PromisedSketched EXCEPT ![v] = {}]
      BY <1>3, <2>3, <2>4 DEF PromisedSketched
    <2>7. Windows!Replace(v, Wallet(h))
      BY <1>2, <1>4, <2>1, <2>2, <2>5, <2>6 DEF Windows!Replace, v
    <2> QED BY <1>1, <2>4, <2>7
  <1> QED BY <1>5, <1>6

\* and the append is when the update takes effect, if the wallet is not torn.
LEMMA AppendApplies ==
  ASSUME Inv, NEW h \in Threads, Others(h), AppendTrade(h)
  PROVE  \/ \E w \in Wallets, t \in Trades : Windows!Apply(w, t)
         \/ UNCHANGED <<PromisedWindow, PromisedSketched>>
  <1> USE DEF Inv
  <1>0. Appends(h) /\ AtWork(h) /\ pc[h] = "append"
    BY DEF AppendTrade, Appends, TypeOK, AtWork, Held
  <1>1. Wallet(h) \in Wallets /\ trade[h] \in Trades
    BY <1>0, WalletFacts DEF Shape, Counts
  <1>2. /\ UNCHANGED <<bound, recent, entry, torn, sketched>> /\ entry[Wallet(h)] # None
        /\ window' = [window EXCEPT ![Wallet(h)] =
                        Append(IF Len(@) >= MaxTrades THEN Tail(@) ELSE @, trade[h])]
    BY <1>0 DEF Appends, AppendRecord, registry
  <1>3. \A w \in Wallets : Known(w)' = Known(w)
    BY <1>2 DEF Known
  <1>4. \A w \in Wallets :
          Counting(w)' = Counting(w) \cup (IF Wallet(h) = w THEN {trade[h]} ELSE {})
    BY <1>0, CountingStep DEF Kind
  <1>5. CASE Wallet(h) \in torn
    <2>1. ~Known(Wallet(h))
      BY <1>5 DEF Known
    <2>2. PromisedWindow' = PromisedWindow
      BY <1>2, <1>3, <2>1 DEF PromisedWindow, TypeOK
    <2>3. PromisedSketched' = PromisedSketched
      BY <1>2, <1>3, <1>4, <2>1 DEF PromisedSketched
    <2> QED BY <2>2, <2>3
  <1>6. CASE Wallet(h) \notin torn
    <2>1. Known(Wallet(h))
      BY <1>2, <1>6 DEF Known
    <2>2. PromisedWindow[Wallet(h)] = window[Wallet(h)]
      BY <1>1, <2>1 DEF PromisedWindow
    <2>3. trade[h] \notin Windows!Members(PromisedWindow[Wallet(h)])
      <3>1. trade[h] \notin Members(window[Wallet(h)])
        BY <1>0, <1>1, <1>6, <2>1 DEF StillNew, Whole
      <3> QED BY <2>2, <3>1 DEF Windows!Members, Members
    <2>4. Wallet(h) \in Windows!Members(recent) \ torn
      BY <1>1, <1>2, <1>6 DEF Registered, Windows!Members, Members
    <2>5. PromisedWindow' = [PromisedWindow EXCEPT ![Wallet(h)] = Windows!Latest(@, trade[h])]
      BY <1>1, <1>2, <1>3, <2>1 DEF PromisedWindow, Windows!Latest, TypeOK
    <2>6. PromisedSketched' = [PromisedSketched EXCEPT ![Wallet(h)] = @ \cup {trade[h]}]
      BY <1>1, <1>2, <1>3, <1>4, <2>1 DEF PromisedSketched, TypeOK
    <2>7. Windows!Apply(Wallet(h), trade[h])
      BY <1>2, <2>3, <2>4, <2>5, <2>6 DEF Windows!Apply
    <2> QED BY <1>1, <2>7
  <1> QED BY <1>5, <1>6

\* However the threads interleave, a wallet's window and sketches take an update
\* at one instant, or not at all while the window holds its trade; and only the
\* least recently used wallet is ever dropped.
THEOREM UpdatesAtomic == Spec => UpdatesTakeEffectAtOnce
  <1>1. Init => Windows!Init
    BY BufferAssumption DEF Init, Windows!Init, PromisedWindow, PromisedSketched, Known
  <1>2. Inv /\ [Next]_vars => [Windows!Next]_(Windows!vars)
    <2> SUFFICES ASSUME Inv, [Next]_vars
                 PROVE  Windows!Next \/ UNCHANGED Windows!vars
      OBVIOUS
    <2>1. CASE UNCHANGED vars
      BY <2>1 DEF vars, registry, contents, threadVars, Windows!vars, PromisedWindow, PromisedSketched,
                  Known, Counting, Wallet
    <2>2. ASSUME NEW h \in Threads, Update(h) \/ GetFeatureRow(h) \/ Step(h)
          PROVE  Windows!Next \/ UNCHANGED Windows!vars
      <3>0. Others(h) /\ Kind(h)
        BY <2>2, Kinds DEF Inv
      <3>1. CASE EnsureTracked(h)
        BY <3>0, <3>1, FindsTouches DEF Windows!Next
      <3>2. CASE EnsureNew(h) \/ EnsureByEviction(h)
        BY <3>0, <3>2, MakesTracks DEF Windows!Next
      <3>3. CASE AppendTrade(h)
        <4>1. UNCHANGED <<bound, recent, torn>>
          BY <3>3 DEF AppendTrade, registry
        <4> QED BY <3>0, <3>3, <4>1, AppendApplies DEF Windows!Next, Windows!vars
      <3>4. CASE ~EnsureTracked(h) /\ ~EnsureNew(h) /\ ~EnsureByEviction(h) /\ ~AppendTrade(h)
        <4>1. UNCHANGED registry /\ pc'[h] # "lock" /\ ~Appends(h)
          <5>1. CASE Update(h) \/ GetFeatureRow(h)
            BY <5>1 DEF Update, GetFeatureRow, Call, Appends, Inv, TypeOK
          <5>2. CASE Acquire(h) \/ CheckNew(h)
            BY <5>2 DEF Acquire, CheckNew, Appends, Inv, TypeOK
          <5>3. CASE CheckSkips(h) \/ ReadRow(h) \/ Count(h) \/ KeyError(h)
            <6>1. Leaves(h)
              BY <5>3, LeavesFacts DEF Inv
            <6> QED BY <6>1 DEF Leaves, Appends
          <5> QED BY <2>2, <3>4, <5>1, <5>2, <5>3 DEF Step
        <4>2. UNCHANGED <<PromisedWindow, PromisedSketched>>
          BY <3>0, <4>1, PromisesKept DEF Kind, Makes, Inv
        <4> QED BY <4>1, <4>2 DEF Windows!vars, registry
      <3> QED BY <3>1, <3>2, <3>3, <3>4
    <2> QED BY <2>1, <2>2 DEF Next
  <1> QED BY <1>1, <1>2, Invariant, PTL DEF Spec, UpdatesTakeEffectAtOnce, Windows!Spec
==============================================================================
