-------------------------- MODULE SequentialConsumer --------------------------
(***************************************************************************)
(* What a Kafka consumer group promises of the log it reads ("Delivery     *)
(* semantics" of streaming/kafka_worker.py), without workers, owners,      *)
(* fetch positions, staged keys or crashes.                                *)
(*                                                                         *)
(* While the run is "ordered" the group is one sequential reader of each   *)
(* partition: only the first unacknowledged message is at work, wallet     *)
(* after wallet, an attempt that is cut short starts again, and a message  *)
(* is acknowledged after all of it, one at a time.  A "lossless" run may   *)
(* work on any trade and acknowledge several messages at once, but never   *)
(* one that is not settled; a "lossy" run may skip messages.  In every run *)
(* acknowledgements only move forward, a trade's base wallet comes before  *)
(* its counter wallet, and a trade is done only after both.                *)
(***************************************************************************)
EXTENDS Naturals, Sequences

CONSTANTS Partitions, Trades, Log, Poison, DeadLetter

VARIABLES
  mode,       \* "ordered", "lossless" or "lossy"
  acked,      \* acked[p]: how many messages of p are acknowledged
  progress,   \* progress[p]: the wallets the attempt at p's next message is past
  handled,    \* handled[t]: the wallets of t that have been processed
  done        \* the trades known to be done

vars == <<mode, acked, progress, handled, done>>

Wallets == 1 .. 2
NoProgress == [p \in Partitions |-> 0]

Init ==
  /\ mode = "ordered"
  /\ acked = [p \in Partitions |-> 0]
  /\ progress = NoProgress
  /\ handled = [t \in Trades |-> {}]
  /\ done = {}

\* Nobody is to process the message, or its trade has been processed.
Settled(p, o) ==
  \/ p \in DeadLetter
  \/ Log[p][o] = Poison
  \/ handled[Log[p][o]] = Wallets

------------------------------------------------------------------------------
(* An ordered run *)

NextTrade(p, t) ==
  /\ mode = "ordered"
  /\ p \notin DeadLetter
  /\ acked[p] < Len(Log[p])
  /\ t = Log[p][acked[p] + 1]

\* The next wallet of the next message, unless its trade is known to be done.
Work(p, t) ==
  /\ NextTrade(p, t)
  /\ t \notin done
  /\ progress[p] < 2
  /\ progress' = [progress EXCEPT ![p] = @ + 1]
  /\ handled' = [handled EXCEPT ![t] = @ \cup {progress[p] + 1}]
  /\ UNCHANGED <<mode, acked, done>>

Finish(p, t) ==
  /\ NextTrade(p, t)
  /\ progress[p] = 2
  /\ handled[t] = Wallets
  /\ done' = done \cup {t}
  /\ UNCHANGED <<mode, acked, progress, handled>>

Acknowledge(p) ==
  /\ mode = "ordered"
  /\ acked[p] < Len(Log[p])
  /\ Settled(p, acked[p] + 1)
  /\ acked' = [acked EXCEPT ![p] = @ + 1]
  /\ progress' = [progress EXCEPT ![p] = 0]
  /\ UNCHANGED <<mode, handled, done>>

\* The attempt is cut short: redo the message.
Abandon(p) ==
  /\ mode = "ordered"
  /\ progress' = [progress EXCEPT ![p] = 0]
  /\ UNCHANGED <<mode, acked, handled, done>>

------------------------------------------------------------------------------
(* Any other run *)

\* A run gets worse, never better.
Degraded ==
  /\ mode' \in IF mode = "lossy" THEN {"lossy"} ELSE {"lossless", "lossy"}
  /\ progress' = NoProgress

WorkAnyhow(t) ==
  /\ \E l \in Wallets :
       /\ l = 2 => 1 \in handled[t]
       /\ handled' = [handled EXCEPT ![t] = @ \cup {l}]
  /\ UNCHANGED <<acked, done>>

FinishAnyhow(t) ==
  /\ handled[t] = Wallets
  /\ done' = done \cup {t}
  /\ UNCHANGED <<acked, handled>>

AcknowledgeUpTo(p, n) ==
  /\ n > acked[p]
  /\ mode' = "lossy" \/ \A o \in acked[p] + 1 .. n : Settled(p, o)
  /\ acked' = [acked EXCEPT ![p] = n]
  /\ UNCHANGED <<handled, done>>

------------------------------------------------------------------------------
\* What is known of a trade is forgotten.
Forget(t) ==
  /\ done' = done \ {t}
  /\ UNCHANGED <<mode, acked, progress, handled>>

Next ==
  \/ \E p \in Partitions, t \in Trades : Work(p, t) \/ Finish(p, t)
  \/ \E p \in Partitions : Acknowledge(p) \/ Abandon(p)
  \/ /\ Degraded
     /\ \/ \E t \in Trades : WorkAnyhow(t) \/ FinishAnyhow(t)
        \/ \E p \in Partitions : \E n \in 1 .. Len(Log[p]) : AcknowledgeUpTo(p, n)
        \/ UNCHANGED <<acked, handled, done>>
  \/ \E t \in Trades : Forget(t)

Spec == Init /\ [][Next]_vars
==============================================================================
