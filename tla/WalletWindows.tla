---------------------------- MODULE WalletWindows ----------------------------
(***************************************************************************)
(* What the FeatureBuffer promises its callers (the docstrings of          *)
(* streaming/feature_buffer.py), without threads and locks: an update      *)
(* takes effect on a wallet at one instant, on window and sketches         *)
(* together, and only if the wallet's window does not hold the trade; the  *)
(* window keeps the latest trades; a new wallet drives out the least       *)
(* recently used one with all its state.                                   *)
(*                                                                         *)
(* Nothing is promised of a torn wallet, one that was driven out while a   *)
(* caller was at work on it, until it is driven out again.                 *)
(***************************************************************************)
EXTENDS Naturals, Sequences

CONSTANTS Wallets, Trades, MaxTrades

VARIABLES
  bound,      \* how many wallets are kept; 0: all of them
  recent,     \* the wallets kept, the least recently used first
  torn,       \* the wallets of which nothing is promised
  window,     \* window[w]: the latest trades of w, oldest first
  sketched    \* sketched[w]: the trades w's Benford sketches have counted

vars == <<bound, recent, torn, window, sketched>>

Members(s) == {s[i] : i \in DOMAIN s}

Without(s, i) == [j \in 1 .. Len(s) - 1 |-> IF j < i THEN s[j] ELSE s[j + 1]]

Latest(s, t) == Append(IF Len(s) >= MaxTrades THEN Tail(s) ELSE s, t)

Init ==
  /\ bound \in Nat
  /\ recent = <<>>
  /\ torn = {}
  /\ window = [w \in Wallets |-> <<>>]
  /\ sketched = [w \in Wallets |-> {}]

Touch(w) ==
  /\ \E i \in DOMAIN recent :
       recent[i] = w /\ recent' = Append(Without(recent, i), w)
  /\ UNCHANGED <<bound, torn, window, sketched>>

Full == bound # 0 /\ Len(recent) >= bound

Track(w) ==
  /\ w \notin Members(recent)
  /\ ~Full
  /\ recent' = Append(recent, w)
  /\ UNCHANGED <<bound, torn, window, sketched>>

Replace(v, w) ==
  /\ w \notin Members(recent)
  /\ Full
  /\ v = Head(recent)
  /\ recent' = Append(Tail(recent), w)
  /\ torn' \in {torn \ {v}, torn \cup {v}}
  /\ window' = [window EXCEPT ![v] = <<>>]
  /\ sketched' = [sketched EXCEPT ![v] = {}]
  /\ UNCHANGED bound

Apply(w, t) ==
  /\ w \in Members(recent) \ torn
  /\ t \notin Members(window[w])
  /\ window' = [window EXCEPT ![w] = Latest(@, t)]
  /\ sketched' = [sketched EXCEPT ![w] = @ \cup {t}]
  /\ UNCHANGED <<bound, recent, torn>>

Next ==
  \E w \in Wallets :
    \/ Touch(w) \/ Track(w)
    \/ \E v \in Wallets : Replace(v, w)
    \/ \E t \in Trades : Apply(w, t)

Spec == Init /\ [][Next]_vars
==============================================================================
