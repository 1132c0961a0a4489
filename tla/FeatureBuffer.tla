---------------------------- MODULE FeatureBuffer ----------------------------
(***************************************************************************)
(* FeatureBuffer (streaming/feature_buffer.py): the registry of wallets,   *)
(* their locks, windows, dedup indexes and Benford sketches, and the       *)
(* threads of the pipeline (one per pair, streaming/pipeline.py) that      *)
(* update it and read feature rows from it.                                *)
(*                                                                         *)
(* A wallet's lock, window, index and sketches are made together and       *)
(* dropped together: an entry.  Window and sketches are always looked up   *)
(* in the registry, but a thread keeps the lock and the index it was given *)
(* when the registry drops the entry and makes another one, so entries     *)
(* have an identity of their own, and each lookup is a step.  What is done *)
(* under _registry_lock is one step.                                       *)
(***************************************************************************)
EXTENDS Naturals, Sequences

CONSTANTS
  Threads,
  Wallets,
  Trades,
  Parties,     \* Parties[t]: base account and counter account of t
  MaxTrades,   \* max_trades
  Bounds,      \* the values of max_wallets; 0: no bound
  Entries,     \* identities of entries: bounds those alive at one time
  None

ASSUME BufferAssumption ==
  /\ Parties \in [Trades -> Wallets \X Wallets]
  /\ MaxTrades \in Nat \ {0}
  /\ Bounds \subseteq Nat
  /\ None \notin Entries
  /\ None \notin Trades

VARIABLES
  bound,      \* max_wallets
  recent,     \* the order of _buffers: least recently used first
  entry,      \* entry[w]: the entry the registry has for w, or None
  window,     \* window[w]: the deque of w, if it has an entry
  sketched,   \* sketched[w]: the trades its sketches have counted
  index,      \* index[e]: the _seen_trade_ids of an entry
  pc,         \* pc[h]: what thread h does next
  todo,       \* todo[h]: the wallets its call has still to deal with
  trade,      \* trade[h]: the trade it updates, or None for a feature row
  lock,       \* lock[h]: the entry whose lock it has been given, or None
  seen,       \* seen[h]: the entry whose index it holds, or None
  torn        \* history: wallets evicted while a thread was at work on them

registry == <<bound, recent, entry, torn>>
contents == <<window, sketched, index>>
threadVars == <<pc, todo, trade, lock, seen>>
vars == <<registry, contents, threadVars>>

Members(s) == {s[i] : i \in DOMAIN s}

Wallet(h) == Head(todo[h])

\* h has been given the lock of its wallet; h has acquired it.
Held == {"check", "append", "count", "row"}
AtWork(h) == pc[h] \in Held \cup {"lock"}
Holds(h) == pc[h] \in Held

Init ==
  /\ bound \in Bounds
  /\ recent = <<>>
  /\ entry = [w \in Wallets |-> None]
  /\ window = [w \in Wallets |-> <<>>]
  /\ sketched = [w \in Wallets |-> {}]
  /\ index = [e \in Entries |-> {}]
  /\ pc = [h \in Threads |-> "idle"]
  /\ todo = [h \in Threads |-> <<>>]
  /\ trade = [h \in Threads |-> None]
  /\ lock = [h \in Threads |-> None]
  /\ seen = [h \in Threads |-> None]
  /\ torn = {}

------------------------------------------------------------------------------
(* Calls *)

Call(h, wallets, t) ==
  /\ pc[h] = "idle"
  /\ pc' = [pc EXCEPT ![h] = "ensure"]
  /\ todo' = [todo EXCEPT ![h] = wallets]
  /\ trade' = [trade EXCEPT ![h] = t]
  /\ UNCHANGED <<registry, contents, lock, seen>>

\* update(trade), the first time or again; the two accounts may be the same.
Update(h) == \E t \in Trades : Call(h, Parties[t], t)

GetFeatureRow(h) == \E w \in Wallets : Call(h, <<w>>, None)

\* The lock is released, and the call goes on with the next wallet.
NextWallet(h) ==
  /\ todo' = [todo EXCEPT ![h] = Tail(@)]
  /\ pc' = [pc EXCEPT ![h] = IF Len(todo[h]) = 1 THEN "idle" ELSE "ensure"]
  /\ lock' = [lock EXCEPT ![h] = None]
  /\ seen' = [seen EXCEPT ![h] = None]
  /\ UNCHANGED trade

\* KeyError: the lock is released and the call ends.
Raise(h) ==
  /\ pc' = [pc EXCEPT ![h] = "idle"]
  /\ todo' = [todo EXCEPT ![h] = <<>>]
  /\ lock' = [lock EXCEPT ![h] = None]
  /\ seen' = [seen EXCEPT ![h] = None]
  /\ UNCHANGED trade

------------------------------------------------------------------------------
(* _ensure_wallet, under _registry_lock *)

Without(s, i) == [j \in 1 .. Len(s) - 1 |-> IF j < i THEN s[j] ELSE s[j + 1]]

GivenLock(h, e) ==
  /\ lock' = [lock EXCEPT ![h] = e]
  /\ pc' = [pc EXCEPT ![h] = "lock"]
  /\ UNCHANGED <<todo, trade, seen>>

\* The wallet is there: move_to_end.
EnsureTracked(h) ==
  /\ pc[h] = "ensure"
  /\ entry[Wallet(h)] # None
  /\ \E i \in DOMAIN recent :
       /\ recent[i] = Wallet(h)
       /\ recent' = Append(Without(recent, i), Wallet(h))
  /\ GivenLock(h, entry[Wallet(h)])
  /\ UNCHANGED <<bound, entry, torn, contents>>

Alive == {entry[w] : w \in Wallets} \cup {lock[h] : h \in Threads} \cup {seen[h] : h \in Threads}

\* A new lock and a new index; the window and the sketches of the wallets are new
\* or gone.
NewEntry(h, e, wallets) ==
  /\ e \notin Alive
  /\ index' = [index EXCEPT ![e] = {}]
  /\ window' = [w \in Wallets |-> IF w \in wallets THEN <<>> ELSE window[w]]
  /\ sketched' = [w \in Wallets |-> IF w \in wallets THEN {} ELSE sketched[w]]
  /\ GivenLock(h, e)

Full == bound # 0 /\ Len(recent) >= bound

EnsureNew(h) ==
  /\ pc[h] = "ensure"
  /\ entry[Wallet(h)] = None
  /\ ~Full
  /\ \E e \in Entries :
       /\ NewEntry(h, e, {Wallet(h)})
       /\ entry' = [entry EXCEPT ![Wallet(h)] = e]
  /\ recent' = Append(recent, Wallet(h))
  /\ UNCHANGED <<bound, torn>>

\* _evict_lru first; one eviction is enough, as there are never more than
\* max_wallets.
EnsureByEviction(h) ==
  /\ pc[h] = "ensure"
  /\ entry[Wallet(h)] = None
  /\ Full
  /\ LET victim == Head(recent)
     IN  /\ \E e \in Entries :
              /\ NewEntry(h, e, {victim, Wallet(h)})
              /\ entry' = [entry EXCEPT ![victim] = None, ![Wallet(h)] = e]
         /\ torn' = IF \E g \in Threads : AtWork(g) /\ Wallet(g) = victim
                    THEN torn \cup {victim} ELSE torn \ {victim}
  /\ recent' = Append(Tail(recent), Wallet(h))
  /\ UNCHANGED bound

------------------------------------------------------------------------------
(* Under the wallet's lock *)

\* Faulty variant of Acquire: the lock is not waited for.
AcquireUnlocked(h) ==
  /\ pc[h] = "lock"
  /\ pc' = [pc EXCEPT ![h] = IF trade[h] = None THEN "row" ELSE "check"]
  /\ UNCHANGED <<registry, contents, todo, trade, lock, seen>>

Acquire(h) ==
  /\ pc[h] = "lock"
  /\ \A g \in Threads : Holds(g) => lock[g] # lock[h]
  /\ pc' = [pc EXCEPT ![h] = IF trade[h] = None THEN "row" ELSE "check"]
  /\ UNCHANGED <<registry, contents, todo, trade, lock, seen>>

\* The wallet was evicted, or already has the trade: nothing to do for it.
CheckSkips(h) ==
  /\ pc[h] = "check"
  /\ entry[Wallet(h)] # None => trade[h] \in index[entry[Wallet(h)]]
  /\ NextWallet(h)
  /\ UNCHANGED <<registry, contents>>

CheckNew(h) ==
  /\ pc[h] = "check"
  /\ entry[Wallet(h)] # None
  /\ trade[h] \notin index[entry[Wallet(h)]]
  /\ seen' = [seen EXCEPT ![h] = entry[Wallet(h)]]
  /\ pc' = [pc EXCEPT ![h] = "append"]
  /\ UNCHANGED <<registry, contents, todo, trade, lock>>

\* Faulty variants of AppendRecord: the index keeps what the deque drops; a deque
\* without maxlen.
AppendOnly(h, w) ==
  /\ window' = [window EXCEPT ![w] = Append(IF Len(@) >= MaxTrades THEN Tail(@) ELSE @, trade[h])]
  /\ index' = [index EXCEPT ![seen[h]] = @ \cup {trade[h]}]

AppendUnbounded(h, w) ==
  /\ window' = [window EXCEPT ![w] = Append(@, trade[h])]
  /\ index' = [index EXCEPT ![seen[h]] = @ \cup {trade[h]}]

\* The index drops buf[0] if it is about to go, the deque takes the record and
\* the index its id.
AppendRecord(h, w) ==
  LET full == Len(window[w]) >= MaxTrades
      dropped == IF full THEN {Head(window[w])} ELSE {}
  IN  /\ window' = [window EXCEPT ![w] = Append(IF full THEN Tail(@) ELSE @, trade[h])]
      /\ index' = [index EXCEPT ![seen[h]] = (@ \ dropped) \cup {trade[h]}]

AppendTrade(h) ==
  /\ pc[h] = "append"
  /\ entry[Wallet(h)] # None
  /\ AppendRecord(h, Wallet(h))
  /\ pc' = [pc EXCEPT ![h] = "count"]
  /\ UNCHANGED <<registry, sketched, todo, trade, lock, seen>>

\* The wallet's sketches and those of the pair.
Count(h) ==
  /\ pc[h] = "count"
  /\ entry[Wallet(h)] # None
  /\ sketched' = [sketched EXCEPT ![Wallet(h)] = @ \cup {trade[h]}]
  /\ NextWallet(h)
  /\ UNCHANGED <<registry, window, index>>

\* self._buffers[wallet] or self._benford_sketches[wallet] of an evicted wallet.
KeyError(h) ==
  /\ pc[h] \in {"append", "count"}
  /\ entry[Wallet(h)] = None
  /\ Raise(h)
  /\ UNCHANGED <<registry, contents>>

\* Window and sketches are copied, or the wallet is gone: None, or a KeyError.
ReadRow(h) ==
  /\ pc[h] = "row"
  /\ NextWallet(h)
  /\ UNCHANGED <<registry, contents>>

------------------------------------------------------------------------------
Step(h) ==
  \/ EnsureTracked(h) \/ EnsureNew(h) \/ EnsureByEviction(h) \/ Acquire(h)
  \/ CheckSkips(h) \/ CheckNew(h) \/ AppendTrade(h) \/ Count(h) \/ KeyError(h)
  \/ ReadRow(h)

Next == \E h \in Threads : Update(h) \/ GetFeatureRow(h) \/ Step(h)

Spec == Init /\ [][Next]_vars

------------------------------------------------------------------------------
(* Properties *)

\* The types, and the memory bound of the class docstring: at most max_wallets
\* windows of at most max_trades records, although wallets come, go and are
\* written by threads that hold the lock of an earlier entry.
TypeOK ==
  /\ bound \in Bounds
  /\ recent \in Seq(Wallets)
  /\ bound # 0 => Len(recent) <= bound
  /\ entry \in [Wallets -> Entries \cup {None}]
  /\ window \in [Wallets -> Seq(Trades)]
  /\ \A w \in Wallets : Len(window[w]) <= MaxTrades
  /\ sketched \in [Wallets -> SUBSET Trades]
  /\ index \in [Entries -> SUBSET Trades]
  /\ pc \in [Threads -> {"idle", "ensure", "lock"} \cup Held]
  /\ todo \in [Threads -> Seq(Wallets)]
  /\ trade \in [Threads -> Trades \cup {None}]
  /\ lock \in [Threads -> Entries \cup {None}]
  /\ seen \in [Threads -> Entries \cup {None}]
  /\ torn \in SUBSET Wallets

NoRepeats(s) == \A i, j \in DOMAIN s : s[i] = s[j] => i = j

\* Whoever holds the lock of a wallet that was not evicted under a thread's
\* hands finds it in the registry, so that no update is skipped or raises, and
\* finds it whole, so that what a feature row reads under the lock shows all of an
\* update or nothing: the dedup index is the window, no trade is in it twice, and
\* the sketches have counted all of it but the trade the holder is about to count.
LockedWalletIsWhole ==
  \A h \in Threads :
    Holds(h) /\ Wallet(h) \notin torn =>
      LET w == Wallet(h)
          counting == IF pc[h] = "count" THEN {trade[h]} ELSE {}
      IN  /\ entry[w] # None
          /\ Members(window[w]) = index[entry[w]]
          /\ NoRepeats(window[w])
          /\ Members(window[w]) \subseteq sketched[w] \cup counting

Known(w) == entry[w] # None /\ w \notin torn

\* The trades that are in w's window and that its sketches are about to count.
Counting(w) == {trade[h] : h \in {g \in Threads : pc[g] = "count" /\ Wallet(g) = w}}

\* What callers may count on of a wallet: what is in its window, and what its
\* sketches have counted or are about to count under the same lock.
PromisedWindow == [w \in Wallets |-> IF Known(w) THEN window[w] ELSE <<>>]
PromisedSketched == [w \in Wallets |-> IF Known(w) THEN sketched[w] \cup Counting(w) ELSE {}]

\* "Thread-safe": however the threads interleave, an update takes effect on a
\* wallet at one instant, on window and sketches together, and not at all while
\* the window holds its trade; readers and writers alike keep the LRU order, and
\* only the least recently used wallet is ever evicted.
Windows == INSTANCE WalletWindows WITH window <- PromisedWindow, sketched <- PromisedSketched
UpdatesTakeEffectAtOnce == Windows!Spec
==============================================================================
