------------------------- MODULE KafkaConsumerProofs -------------------------
(***************************************************************************)
(* The consumer group of KafkaWorker implements SequentialConsumer, for    *)
(* every set of workers and partitions, every log and every fault.         *)
(*                                                                         *)
(* An ordered run maps step by step: the member that owns a partition is   *)
(* working on the first message that is not committed (OrderInv), and is   *)
(* the only one at work on its trade (KafkaWorkerProofs).                  *)
(***************************************************************************)
EXTENDS KafkaWorkerProofs

\* The faults after which the run is no longer ordered.
Disturbing == SkippingFaults \cup {"offset", "rebalance"}

\* A member has been given what is committed of a partition it owns, and the
\* message it is working on.
OrderInv ==
  \A p \in Partitions, w \in Workers :
    owner[p] = w =>
      pos[w][p] = IF Busy(w) /\ Part(w) = p THEN committed[p] + 1 ELSE committed[p]

\* A key is committed after both wallets.
LegInv == \A w \in Workers : pc[w] \in {"commitKey", "ackTrade"} => leg[w] = 2

------------------------------------------------------------------------------
\* Every step of an undisturbed run preserves OrderInv.
LEMMA OrderStep ==
  ASSUME TypeOK, Shape, OwnInv, PosInv, OrderInv, [Next]_vars,
         \A k \in Disturbing : ~Fault(k)
  PROVE  OrderInv'
  <1>0. /\ committed \in [Partitions -> Nat] /\ pos \in [Workers -> [Partitions -> Nat]]
        /\ owner \in [Partitions -> Workers \cup {Nobody}]
        /\ cur \in [Workers -> Messages \cup {NoMessage}]
        /\ Nobody \notin Workers
    BY ControlAssumption DEF TypeOK
  <1>1. CASE UNCHANGED <<owner, committed, pos, pc, cur>>
    BY <1>1 DEF OrderInv, Busy, Part
  <1>2. ASSUME NEW w \in Workers, Quiet(w)
        PROVE  OrderInv'
    <2>1. \A v \in Workers : (Busy(v)' <=> Busy(v)) /\ Part(v)' = Part(v)
      BY <1>2 DEF Quiet, Busy, Part
    <2> QED BY <1>2, <2>1 DEF Quiet, OrderInv
  <1>3. ASSUME NEW w \in Workers, Fetched(w)
        PROVE  OrderInv'
    <2>1. PICK q \in Partitions :
            /\ owner[q] = w /\ ~Busy(w)
            /\ pos' = [pos EXCEPT ![w][q] = @ + 1]
            /\ cur' = [cur EXCEPT ![w] = <<q, pos[w][q] + 1>>]
            /\ cur'[w][1] = q /\ Busy(w)'
            /\ \A v \in Workers \ {w} : pc'[v] = pc[v]
            /\ UNCHANGED <<owner, committed>>
      BY <1>3 DEF Fetched
    <2>2. \A p \in Partitions : owner[p] = w => pos[w][p] = committed[p]
      BY <2>1 DEF OrderInv
    <2>3. /\ Busy(w)' /\ Part(w)' = q
          /\ \A p \in Partitions : pos'[w][p] = IF p = q THEN pos[w][p] + 1 ELSE pos[w][p]
      BY <1>0, <2>1 DEF Part
    <2>4. \A v \in Workers \ {w} : (Busy(v)' <=> Busy(v)) /\ Part(v)' = Part(v) /\ pos'[v] = pos[v]
      BY <1>0, <2>1 DEF Busy, Part
    <2> QED BY <2>1, <2>2, <2>3, <2>4 DEF OrderInv
  <1>4. ASSUME NEW w \in Workers, Finished(w)
        PROVE  OrderInv'
    <2>1. /\ ~Busy(w)' /\ UNCHANGED pos
          /\ \A v \in Workers \ {w} : (Busy(v)' <=> Busy(v)) /\ Part(v)' = Part(v)
      BY <1>4 DEF Finished, Busy, Part
    <2>2. CASE Busy(w) /\ CommitOffset(w) /\ UNCHANGED owner
      <3>1. PICK q \in Partitions : q = Part(w)
        BY <2>2, BusyFacts
      <3>2. owner[q] = w /\ Offset(w) = pos[w][q]
        BY <2>2, <3>1 DEF CommitOffset, PosInv
      <3>3. \A p \in Partitions : committed'[p] = IF p = q THEN pos[w][p] ELSE committed[p]
        BY <1>0, <2>2, <3>1, <3>2 DEF CommitOffset
      <3>4. \A p \in Partitions : owner[p] = w /\ p # q => pos[w][p] = committed[p]
        BY <3>1 DEF OrderInv
      <3> QED BY <2>1, <2>2, <3>1, <3>2, <3>3, <3>4 DEF OrderInv
    <2>3. CASE Release(w) /\ UNCHANGED committed
      <3>1. \A p \in Partitions, v \in Workers : owner'[p] = v => owner[p] = v /\ v # w
        BY <1>0, <2>3 DEF Release
      <3> QED BY <2>1, <2>3, <3>1 DEF OrderInv
    <2>4. ~(/\ Busy(w)
            /\ owner[Part(w)] # w \/ \E k \in {"dispatch", "dedup", "offset"} : Fault(k))
      BY DEF OwnInv, Disturbing, SkippingFaults
    <2> QED BY <1>4, <2>2, <2>3, <2>4 DEF Finished
  <1>5. ASSUME NEW w \in Workers, Moved(w)
        PROVE  OrderInv'
    <2>1. \A v \in Workers : (Busy(v)' <=> Busy(v)) /\ Part(v)' = Part(v)
      BY <1>5 DEF Moved, Busy, Part
    <2>2. PICK q \in Partitions :
            /\ owner[q] = Nobody /\ ~Busy(w)
            /\ owner' = [owner EXCEPT ![q] = w]
            /\ pos' = [pos EXCEPT ![w][q] = committed[q]]
            /\ UNCHANGED committed
      BY <1>5 DEF Moved, Disturbing
    <2>3. \A p \in Partitions, v \in Workers :
            owner'[p] = v => \/ owner[p] = v /\ pos'[v][p] = pos[v][p]
                             \/ v = w /\ p = q /\ pos'[v][p] = committed[p]
      BY <1>0, <2>2
    <2> QED BY <2>1, <2>2, <2>3 DEF OrderInv
  <1> QED BY <1>1, <1>2, <1>3, <1>4, <1>5, StepKinds

\* Every step preserves LegInv.
LEMMA LegStep ==
  ASSUME TypeOK, Shape, LegInv, [Next]_vars
  PROVE  LegInv'
  <1> SUFFICES ASSUME NEW w \in Workers, pc'[w] \in {"commitKey", "ackTrade"}
               PROVE  leg'[w] = 2
    BY DEF LegInv
  <1>1. CASE UNCHANGED <<pc, leg>>
    BY <1>1 DEF LegInv
  <1>2. ASSUME NEW v \in Workers, Poll(v)
        PROVE  leg'[w] = 2
    BY <1>2 DEF Poll, PollDeadLetter, PollPoison, PollTrade, Take, TypeOK, LegInv
  <1>3. ASSUME NEW v \in Workers, Advance(v)
        PROVE  leg'[w] = 2
    <2>1. CASE Stage(v) \/ Get(v)
      BY <2>1 DEF Stage, Get, Process, TypeOK, LegInv
    <2>2. CASE ProcessLeg(v)
      BY <2>2 DEF ProcessLeg, TypeOK, LegInv
    <2>3. CASE CommitKey(v)
      BY <2>3 DEF CommitKey, TypeOK, LegInv
    <2>4. CASE AckDeadLetter(v) \/ AckSkipped(v) \/ AckTrade(v)
      <3>1. BackToPoll(v)
        BY <2>4 DEF AckDeadLetter, AckSkipped, AckTrade
      <3> QED BY <3>1 DEF BackToPoll, TypeOK, LegInv
    <2> QED BY <1>3, <2>1, <2>2, <2>3, <2>4 DEF Advance
  <1>4. ASSUME NEW v \in Workers, Raise(v)
        PROVE  leg'[w] = 2
    <2>1. BackToPoll(v)
      BY <1>4 DEF Raise, StageFails, LegRaises, CommitKeyFails, AckRaises, AckFenced
    <2> QED BY <2>1 DEF BackToPoll, TypeOK, LegInv
  <1>5. ASSUME NEW v \in Workers, Lifecycle(v)
        PROVE  leg'[w] = 2
    <2>1. CASE Crash(v) \/ Close(v) \/ DrainTimeout(v)
      BY <2>1 DEF Crash, Close, DrainTimeout, Die, TypeOK, LegInv
    <2>2. CASE Restart(v)
      BY <2>2 DEF Restart, TypeOK, LegInv
    <2>3. CASE ~(Crash(v) \/ Close(v) \/ DrainTimeout(v) \/ Restart(v))
      BY <1>1, <1>5, <2>3 DEF Lifecycle, RequestShutdown, PollIntervalExceeded, Assign, Revoke
    <2> QED BY <2>1, <2>2, <2>3
  <1> QED BY <1>1, <1>2, <1>3, <1>4, <1>5 DEF Next, PollNothing, ExpireKey, vars

------------------------------------------------------------------------------
\* All that the mapping rests on, each part under the faults it withstands.
ConsumerInv ==
  /\ TypeOK /\ Shape /\ KeyInv /\ PosInv /\ ForwardInv /\ LegInv
  /\ None(SkippingFaults) => LossInv
  /\ None({"rebalance"}) => OwnInv /\ LegsInv
  /\ None(Disturbing) => OrderInv

\* What an undisturbed run has not seen.
LEMMA Undisturbed ==
  ASSUME None(Disturbing)
  PROVE  None(SkippingFaults) /\ None({"rebalance"})
  BY DEF None, Disturbing

LEMMA NoFault ==
  ASSUME TypeOK, NEW kinds \in SUBSET FaultKinds, None(kinds)', NEW k \in kinds
  PROVE  ~Fault(k)
  BY DEF None, Fault, TypeOK

LEMMA ConsumerInvariant == Spec => []ConsumerInv
  <1>1. Init => ConsumerInv
    <2> SUFFICES ASSUME Init PROVE ConsumerInv
      OBVIOUS
    <2>1. \A w \in Workers : pc[w] = "down" /\ ~Busy(w)
      BY DEF Init, Busy, Handling, Ack
    <2>2. KeyInv /\ PosInv /\ ForwardInv /\ LegInv /\ OwnInv /\ LegsInv
      BY <2>1, ControlAssumption
      DEF Init, KeyInv, CommittedMeansHandled, PosInv, ForwardInv, LegInv, OwnInv, LegsInv, Handling
    <2>3. LossInv /\ OrderInv
      BY <2>1, ControlAssumption DEF Init, LossInv, NoSilentLoss, OrderInv
    <2> QED BY <2>2, <2>3, InitShape DEF ConsumerInv
  <1>2. ConsumerInv /\ [Next]_vars => ConsumerInv'
    <2> SUFFICES ASSUME ConsumerInv, [Next]_vars PROVE ConsumerInv'
      OBVIOUS
    <2> USE DEF ConsumerInv
    <2>0. /\ SkippingFaults \in SUBSET FaultKinds /\ Disturbing \in SUBSET FaultKinds
          /\ {"rebalance"} \in SUBSET FaultKinds
      BY DEF SkippingFaults, Disturbing, FaultKinds
    <2>1. TypeOK' /\ Shape' /\ KeyInv' /\ PosInv' /\ ForwardInv' /\ LegInv'
      BY TypeStep, KeyStep, PosStep, ForwardStep, LegStep
    <2>2. None(SkippingFaults)' => LossInv'
      BY LossStep, SkippingIsRemembered
    <2>3. ASSUME None({"rebalance"})'
          PROVE  OwnInv' /\ LegsInv'
      <3>1. None({"rebalance"}) /\ ~Fault("rebalance")
        BY <2>0, <2>3, FaultsAreRemembered, NoFault
      <3> QED BY <3>1, OwnStep, LegsStep
    <2>4. ASSUME None(Disturbing)'
          PROVE  OrderInv'
      <3>1. None(Disturbing) /\ \A k \in Disturbing : ~Fault(k)
        BY <2>0, <2>4, FaultsAreRemembered, NoFault
      <3> QED BY <3>1, OrderStep, Undisturbed
    <2> QED BY <2>1, <2>2, <2>3, <2>4
  <1> QED BY <1>1, <1>2, PTL DEF Spec

------------------------------------------------------------------------------
(* The mapping: mode and progress *)

\* The places at which an attempt is past the dedup key.
Past == {"legs", "commitKey", "ackTrade"}

LEMMA Modes ==
  /\ Mode \in {"ordered", "lossless", "lossy"}
  /\ Mode = "ordered" <=> None(Disturbing)
  /\ Mode = "lossy" <=> ~None(SkippingFaults)
  BY DEF Mode, None, Disturbing, SkippingFaults

LEMMA ModeStep ==
  ASSUME TypeOK, [Next]_vars
  PROVE  /\ Mode' \in {"ordered", "lossless", "lossy"}
         /\ Mode' = "ordered" <=> None(Disturbing)'
         /\ Mode' = "lossy" <=> ~None(SkippingFaults)'
         /\ Mode' = "ordered" => Mode = "ordered"
         /\ Mode = "lossy" => Mode' = "lossy"
  <1>1. /\ Mode' \in {"ordered", "lossless", "lossy"}
        /\ Mode' = "ordered" <=> None(Disturbing)'
        /\ Mode' = "lossy" <=> ~None(SkippingFaults)'
    BY DEF Mode, None, Disturbing, SkippingFaults
  <1>2. Disturbing \in SUBSET FaultKinds
    BY DEF Disturbing, SkippingFaults, FaultKinds
  <1> QED BY <1>1, <1>2, Modes, FaultsAreRemembered, SkippingIsRemembered

\* In an ordered run, a member's step touches the progress of the partition of
\* its message only.
LEMMA ProgressStep ==
  ASSUME TypeOK, Mode = "ordered", Mode' = "ordered", NEW w \in Workers,
         \A v \in Workers \ {w} : pc'[v] = pc[v] /\ cur'[v] = cur[v] /\ leg'[v] = leg[v],
         \A q \in Partitions :
           \/ owner'[q] = owner[q]
           \/ owner[q] = w /\ owner'[q] = Nobody
           \/ owner[q] = Nobody /\ owner'[q] = w /\ pc'[w] \notin Past,
         pc'[w] \in Past => cur'[w] = cur[w] /\ (pc[w] \in Past \/ leg'[w] = 0),
         NEW q \in Partitions
  PROVE  Progress(q)' =
           IF pc[w] \in Past /\ Part(w) = q /\ owner[q] = w
           THEN IF pc'[w] \in Past /\ owner'[q] = w THEN leg'[w] ELSE 0
           ELSE Progress(q)
  <1>0. owner[q] \in Workers \cup {Nobody} /\ Nobody \notin Workers
    BY ControlAssumption DEF TypeOK
  <1>1. CASE owner[q] = w
    BY <1>0, <1>1 DEF Progress, Past, Part
  <1>2. CASE owner[q] # w /\ owner'[q] = owner[q]
    BY <1>0, <1>2 DEF Progress, Past, Part
  <1>3. CASE owner[q] = Nobody /\ owner'[q] = w /\ pc'[w] \notin Past
    BY <1>0, <1>3 DEF Progress, Past, Part
  <1> QED BY <1>1, <1>2, <1>3

\* There is no progress in a run that is not ordered.
LEMMA NoProgressLeft ==
  ASSUME NEW p \in Partitions, Mode' # "ordered"
  PROVE  Progress(p)' = 0
  BY DEF Progress

------------------------------------------------------------------------------
(* The mapping: the data *)

Done == {t \in Trades : key[t] = "committed"}

\* What a step may do to the wallets, the keys and the offsets.
DataKept == committed' = committed /\ handled' = handled /\ Done' = Done

KeyCommitted(w) ==
  /\ pc[w] = "commitKey"
  /\ Done' = Done \cup {Trade(w)}
  /\ UNCHANGED <<committed, handled>>

OffsetCommitted(w) ==
  /\ Busy(w)
  /\ CommitOffset(w)
  /\ UNCHANGED <<handled, key>>

LEMMA DataKinds ==
  ASSUME TypeOK, Shape, [Next]_vars
  PROVE  \/ DataKept
         \/ \E w \in Workers : ProcessLeg(w) \/ KeyCommitted(w) \/ OffsetCommitted(w)
         \/ \E t \in Trades : ExpireKey(t)
  <1> USE DEF brokerVars, controlVars
  <1>1. CASE UNCHANGED <<committed, handled, key>>
    BY <1>1 DEF DataKept, Done
  <1>2. ASSUME NEW w \in Workers, Poll(w) \/ PollNothing(w)
        PROVE  UNCHANGED <<committed, handled, key>>
    BY <1>2 DEF Poll, PollDeadLetter, PollPoison, PollTrade, Take, PollNothing, vars
  <1>3. ASSUME NEW w \in Workers, Stage(w) \/ StageFails(w)
        PROVE  DataKept
    BY <1>3 DEF Stage, StageFails, DataKept, Done, TypeOK
  <1>4. ASSUME NEW w \in Workers, CommitKey(w) \/ CommitKeyFails(w)
        PROVE  DataKept \/ KeyCommitted(w)
    <2>1. Trade(w) \in Trades /\ pc[w] = "commitKey" /\ UNCHANGED <<committed, handled>>
      BY <1>4 DEF CommitKey, CommitKeyFails, Shape, Handling
    <2>2. CASE UNCHANGED key
      BY <2>1, <2>2 DEF DataKept, Done
    <2>3. CASE key' = [key EXCEPT ![Trade(w)] = "committed"]
      <3>1. \A t \in Trades : key'[t] = IF t = Trade(w) THEN "committed" ELSE key[t]
        BY <2>1, <2>3 DEF TypeOK
      <3> QED BY <2>1, <3>1 DEF KeyCommitted, Done
    <2> QED BY <1>4, <2>2, <2>3 DEF CommitKey, CommitKeyFails
  <1>5. ASSUME NEW w \in Workers, Get(w) \/ LegRaises(w) \/ AckFenced(w)
        PROVE  UNCHANGED <<committed, handled, key>>
    BY <1>5 DEF Get, LegRaises, AckFenced
  <1>6. ASSUME NEW w \in Workers, AckDeadLetter(w) \/ AckSkipped(w) \/ AckTrade(w) \/ AckRaises(w)
        PROVE  UNCHANGED <<committed, handled, key>> \/ OffsetCommitted(w)
    BY <1>6 DEF AckDeadLetter, AckSkipped, AckTrade, AckRaises, OffsetCommitted, Busy, Ack
  <1>7. ASSUME NEW w \in Workers, Lifecycle(w)
        PROVE  UNCHANGED <<committed, handled, key>>
    BY <1>7 DEF Lifecycle, Crash, RequestShutdown, Close, DrainTimeout, Restart,
                PollIntervalExceeded, Assign, Revoke, Die
  <1> QED BY <1>1, <1>2, <1>3, <1>4, <1>5, <1>6, <1>7 DEF Next, Advance, Raise, vars

------------------------------------------------------------------------------
(* The mapping, step by step *)

\* An expired key is forgotten, in every run.
LEMMA ExpiryForgets ==
  ASSUME TypeOK, NEW t \in Trades, ExpireKey(t)
  PROVE  Consumer!Forget(t)
  <1>1. Done' = Done \ {t}
    BY DEF ExpireKey, Done, TypeOK
  <1>2. Mode' = Mode
    BY DEF ExpireKey, Fault, TypeOK, FaultKinds, Mode, None
  <1>3. \A p \in Partitions : Progress(p)' = Progress(p)
    BY <1>2 DEF ExpireKey, Progress, brokerVars, Part
  <1> QED BY <1>1, <1>2, <1>3 DEF Consumer!Forget, ExpireKey, Done, brokerVars

\* A step of a run that is, or by this step becomes, lossless or lossy.
LEMMA DegradedStep ==
  ASSUME ConsumerInv, ConsumerInv', [Next]_vars, Mode' # "ordered"
  PROVE  Consumer!Next
  <1> USE DEF ConsumerInv
  <1>1. Consumer!Degraded
    <2>1. Mode' \in IF Mode = "lossy" THEN {"lossy"} ELSE {"lossless", "lossy"}
      BY ModeStep
    <2>2. [p \in Partitions |-> Progress(p)]' = [p \in Partitions |-> 0]
      BY NoProgressLeft
    <2> QED BY <2>1, <2>2 DEF Consumer!Degraded, Consumer!NoProgress
  <1>2. CASE DataKept
    BY <1>1, <1>2 DEF Consumer!Next, DataKept, Done
  <1>3. ASSUME NEW w \in Workers, ProcessLeg(w)
        PROVE  Consumer!Next
    <2>1. Trade(w) \in Trades /\ leg[w] \in 0 .. 1 /\ pc[w] = "legs"
      BY <1>3 DEF ProcessLeg, Shape, TypeOK, Handling
    <2>2. leg[w] + 1 \in 1 .. 2 /\ (leg[w] + 1 = 2 => 1 \in handled[Trade(w)])
      BY <2>1 DEF KeyInv
    <2>3. Consumer!WorkAnyhow(Trade(w))
      BY <1>3, <2>1, <2>2 DEF Consumer!WorkAnyhow, Consumer!Wallets, ProcessLeg, brokerVars
    <2> QED BY <1>1, <2>1, <2>3 DEF Consumer!Next
  <1>4. ASSUME NEW w \in Workers, KeyCommitted(w)
        PROVE  Consumer!Next
    <2>1. PICK t \in Trades : t = Trade(w) /\ handled[t] = Legs
      BY <1>4 DEF KeyCommitted, Shape, Handling, KeyInv
    <2>2. Consumer!FinishAnyhow(t)
      BY <1>4, <2>1 DEF Consumer!FinishAnyhow, Consumer!Wallets, Legs, KeyCommitted, Done
    <2> QED BY <1>1, <2>2 DEF Consumer!Next
  <1>5. ASSUME NEW w \in Workers, OffsetCommitted(w)
        PROVE  Consumer!Next
    <2>1. PICK p \in Partitions, n \in Nat :
            p = Part(w) /\ n = Offset(w) /\ n \in 1 .. Len(Log[p])
      BY <1>5, BusyFacts DEF OffsetCommitted
    <2>2. n > committed[p] /\ committed' = [committed EXCEPT ![p] = n]
      BY <1>5, <2>1, BusyFacts DEF OffsetCommitted, CommitOffset, PosInv, TypeOK
    <2>3. ASSUME Mode' # "lossy", NEW o \in committed[p] + 1 .. n
          PROVE  Consumer!Settled(p, o)
      <3>1. NoSilentLoss'
        BY <2>3, ModeStep DEF LossInv
      <3>2. o \in 1 .. committed'[p]
        BY <2>1, <2>2, BusyFacts DEF TypeOK
      <3>3. Settled(p, o)'
        BY <3>1, <3>2 DEF NoSilentLoss
      <3> QED BY <1>5, <3>3 DEF Settled, Consumer!Settled, Consumer!Wallets, Legs, OffsetCommitted
    <2>4. Consumer!AcknowledgeUpTo(p, n)
      BY <1>5, <2>2, <2>3 DEF Consumer!AcknowledgeUpTo, OffsetCommitted
    <2> QED BY <1>1, <2>1, <2>4 DEF Consumer!Next
  <1>6. ASSUME NEW t \in Trades, ExpireKey(t)
        PROVE  Consumer!Next
    BY <1>6, ExpiryForgets DEF Consumer!Next
  <1> QED BY <1>2, <1>3, <1>4, <1>5, <1>6, DataKinds

\* In an ordered run a busy member is at the next message of a partition it owns.
LEMMA AtNext ==
  ASSUME ConsumerInv, Mode = "ordered", NEW w \in Workers, Busy(w)
  PROVE  /\ Part(w) \in Partitions
         /\ owner[Part(w)] = w
         /\ committed[Part(w)] \in Nat
         /\ committed[Part(w)] < Len(Log[Part(w)])
         /\ Offset(w) = committed[Part(w)] + 1
  <1> USE DEF ConsumerInv
  <1>1. OwnInv /\ OrderInv
    BY Modes, Undisturbed
  <1>2. /\ Part(w) \in Partitions /\ Offset(w) \in 1 .. Len(Log[Part(w)])
        /\ committed[Part(w)] \in Nat /\ Len(Log[Part(w)]) \in Nat
    BY BusyFacts DEF TypeOK
  <1>3. owner[Part(w)] = w /\ Offset(w) = committed[Part(w)] + 1
    BY <1>1, <1>2 DEF OwnInv, OrderInv, PosInv
  <1> QED BY <1>2, <1>3

\* Steps that keep the offsets, the wallets and the keys, and reach no wallet.
LEMMA OrderedStutter ==
  ASSUME DataKept, Mode' = Mode, \A p \in Partitions : Progress(p)' = Progress(p)
  PROVE  UNCHANGED Consumer!vars
  BY DEF Consumer!vars, DataKept, Done

\* A member's offset commit acknowledges the next message.
LEMMA OrderedAcknowledge ==
  ASSUME ConsumerInv, Mode = "ordered", Mode' = "ordered", NEW w \in Workers,
         AckDeadLetter(w) \/ AckSkipped(w) \/ AckTrade(w)
  PROVE  \E p \in Partitions : Consumer!Acknowledge(p)
  <1> USE DEF ConsumerInv, brokerVars
  <1>1. Busy(w) /\ pc[w] \in Ack /\ CommitOffset(w) /\ BackToPoll(w) /\ UNCHANGED <<owner, handled, key>>
    BY DEF AckDeadLetter, AckSkipped, AckTrade, Busy, Ack
  <1>2. PICK p \in Partitions : p = Part(w)
    BY <1>1, AtNext
  <1>3. /\ owner[p] = w /\ committed[p] < Len(Log[p]) /\ Offset(w) = committed[p] + 1
        /\ committed' = [committed EXCEPT ![p] = @ + 1]
    BY <1>1, <1>2, AtNext DEF CommitOffset
  <1>4. Consumer!Settled(p, committed[p] + 1)
    <2>1. \/ p \in DeadLetter
          \/ Trade(w) = Poison
          \/ handled[Trade(w)] = Legs
      BY <1>1, <1>2 DEF Ack, Shape, KeyInv
    <2> QED BY <1>2, <1>3, <2>1 DEF Consumer!Settled, Consumer!Wallets, Legs, Trade
  <1>5. /\ pc'[w] = "poll" /\ pc'[w] \notin Past
        /\ \A v \in Workers \ {w} : pc'[v] = pc[v] /\ cur'[v] = cur[v] /\ leg'[v] = leg[v]
    BY <1>1 DEF BackToPoll, TypeOK, Past
  <1>6. \A q \in Partitions : Progress(q)' = IF q = p THEN 0 ELSE Progress(q)
    <2>1. ASSUME NEW q \in Partitions
          PROVE  Progress(q)' =
                   IF pc[w] \in Past /\ Part(w) = q /\ owner[q] = w THEN 0 ELSE Progress(q)
      BY <1>1, <1>5, ProgressStep
    <2>2. pc[w] \notin Past => Progress(p) = 0
      BY <1>3 DEF Progress, Past
    <2> QED BY <1>2, <1>3, <2>1, <2>2
  <1>7. [q \in Partitions |-> Progress(q)]'
          = [[q \in Partitions |-> Progress(q)] EXCEPT ![p] = 0]
    BY <1>6
  <1>8. Consumer!Acknowledge(p)
    BY <1>1, <1>3, <1>4, <1>7 DEF Consumer!Acknowledge
  <1> QED BY <1>8

\* The end of a process abandons the attempt it was at.
LEMMA OrderedDeath ==
  ASSUME ConsumerInv, Mode = "ordered", Mode' = "ordered", NEW w \in Workers, Die(w)
  PROVE  UNCHANGED Consumer!vars \/ \E p \in Partitions : Consumer!Abandon(p)
  <1> USE DEF ConsumerInv
  <1>1. /\ pc'[w] = "down" /\ pc'[w] \notin Past
        /\ \A v \in Workers \ {w} : pc'[v] = pc[v] /\ cur'[v] = cur[v] /\ leg'[v] = leg[v]
        /\ \A q \in Partitions : owner'[q] = owner[q] \/ (owner[q] = w /\ owner'[q] = Nobody)
        /\ UNCHANGED <<committed, key, handled>>
    <2>1. \A q \in Partitions : owner'[q] = owner[q] \/ (owner[q] = w /\ owner'[q] = Nobody)
      BY DEF Die, Release
    <2>2. pc'[w] = "down" /\ UNCHANGED <<committed, key, handled>>
      BY DEF Die, TypeOK
    <2>3. \A v \in Workers \ {w} : pc'[v] = pc[v] /\ cur'[v] = cur[v] /\ leg'[v] = leg[v]
      BY DEF Die, TypeOK
    <2> QED BY <2>1, <2>2, <2>3 DEF Past
  <1>2. ASSUME NEW q \in Partitions
        PROVE  Progress(q)' =
                 IF pc[w] \in Past /\ Part(w) = q /\ owner[q] = w THEN 0 ELSE Progress(q)
    BY <1>1, ProgressStep
  <1>3. CASE pc[w] \in Past
    <2>1. PICK p \in Partitions : p = Part(w) /\ owner[p] = w
      BY <1>3, AtNext DEF Past, Busy, Handling, Ack
    <2>2. [q \in Partitions |-> Progress(q)]'
            = [[q \in Partitions |-> Progress(q)] EXCEPT ![p] = 0]
      BY <1>2, <1>3, <2>1
    <2>3. Consumer!Abandon(p)
      BY <1>1, <2>2 DEF Consumer!Abandon
    <2> QED BY <2>3
  <1>4. CASE pc[w] \notin Past
    BY <1>1, <1>2, <1>4, OrderedStutter DEF DataKept, Done
  <1> QED BY <1>3, <1>4

\* A step of an ordered run.
LEMMA OrderedStep ==
  ASSUME ConsumerInv, ConsumerInv', [Next]_vars, Mode' = "ordered"
  PROVE  [Consumer!Next]_Consumer!vars
  <1> USE DEF ConsumerInv, brokerVars, controlVars
  <1>0. /\ Mode = "ordered"
        /\ \A k \in Disturbing : ~Fault(k)
        /\ LegsInv /\ OwnInv
    <2>1. Mode = "ordered" /\ None(Disturbing)'
      BY ModeStep
    <2>2. Disturbing \in SUBSET FaultKinds
      BY DEF Disturbing, SkippingFaults, FaultKinds
    <2> QED BY <2>1, <2>2, Modes, Undisturbed, NoFault
  <1>1. CASE UNCHANGED vars
    <2>1. \A p \in Partitions : Progress(p)' = Progress(p)
      BY <1>0, <1>1 DEF vars, Progress, Part
    <2> QED BY <1>0, <1>1, <2>1, OrderedStutter DEF vars, DataKept, Done
  <1>2. ASSUME NEW t \in Trades, ExpireKey(t)
        PROVE  Consumer!Next
    BY <1>2, ExpiryForgets DEF Consumer!Next
  <1>3. ASSUME NEW w \in Workers, Poll(w)
        PROVE  UNCHANGED Consumer!vars
    <2>1. PICK p \in Partitions, next \in {"ackDeadLetter", "ackPoison", "stage"} : Take(w, p, next)
      BY <1>3 DEF Poll, PollDeadLetter, PollPoison, PollTrade
    <2>2. /\ pc[w] \notin Past /\ pc'[w] \notin Past
          /\ \A v \in Workers \ {w} : pc'[v] = pc[v] /\ cur'[v] = cur[v] /\ leg'[v] = leg[v]
          /\ UNCHANGED <<owner, committed, key, handled>>
      BY <2>1 DEF Take, Deliverable, TypeOK, Past
    <2>3. \A q \in Partitions : Progress(q)' = Progress(q)
      BY <1>0, <2>2, ProgressStep
    <2> QED BY <1>0, <2>2, <2>3, OrderedStutter DEF DataKept, Done
  <1>4. ASSUME NEW w \in Workers, Stage(w) \/ Get(w)
        PROVE  UNCHANGED Consumer!vars
    <2>1. /\ pc[w] \notin Past /\ (pc'[w] \in Past => leg'[w] = 0)
          /\ \A v \in Workers \ {w} : pc'[v] = pc[v] /\ leg'[v] = leg[v]
          /\ UNCHANGED <<owner, cur, committed, handled>>
      BY <1>4 DEF Stage, Get, Process, TypeOK, Past
    <2>2. \A q \in Partitions : Progress(q)' = Progress(q)
      BY <1>0, <2>1, ProgressStep
    <2>3. Done' = Done
      BY <1>4 DEF Stage, Get, Done, TypeOK
    <2> QED BY <1>0, <2>1, <2>2, <2>3, OrderedStutter DEF DataKept
  <1>5. ASSUME NEW w \in Workers, ProcessLeg(w)
        PROVE  Consumer!Next
    <2>1. Busy(w) /\ pc[w] = "legs" /\ leg[w] \in 0 .. 1 /\ Trade(w) \in Trades
      BY <1>5 DEF ProcessLeg, Busy, Handling, Shape, TypeOK
    <2>2. PICK p \in Partitions, t \in Trades : p = Part(w) /\ t = Trade(w)
      BY <1>0, <2>1, AtNext
    <2>3. Consumer!NextTrade(p, t) /\ owner[p] = w
      BY <1>0, <2>1, <2>2, AtNext DEF Consumer!NextTrade, ForwardInv, Handling, Trade
    <2>4. /\ pc'[w] \in {"legs", "commitKey"} /\ leg'[w] = leg[w] + 1
          /\ \A v \in Workers \ {w} : pc'[v] = pc[v] /\ leg'[v] = leg[v]
          /\ handled' = [handled EXCEPT ![t] = @ \cup {leg[w] + 1}]
          /\ UNCHANGED <<owner, cur, committed, key>>
      BY <1>5, <2>2 DEF ProcessLeg, TypeOK
    <2>5. \A q \in Partitions : Progress(q)' = IF q = p THEN leg[w] + 1 ELSE Progress(q)
      BY <1>0, <2>1, <2>2, <2>3, <2>4, ProgressStep DEF Past
    <2>6. Progress(p) = leg[w]
      BY <1>0, <2>1, <2>2, <2>3, ControlAssumption DEF Progress
    <2>7. [q \in Partitions |-> Progress(q)]'
            = [[q \in Partitions |-> Progress(q)] EXCEPT ![p] = @ + 1]
      BY <2>5, <2>6
    <2>8. t \notin {u \in Trades : key[u] = "committed"}
      BY <1>0, <2>1, <2>2 DEF LegsInv
    <2>9. [q \in Partitions |-> Progress(q)][p] = leg[w] /\ leg[w] < 2
      BY <2>1, <2>6
    <2>10. {u \in Trades : key'[u] = "committed"} = {u \in Trades : key[u] = "committed"}
      BY <2>4
    <2>11. Consumer!Work(p, t)
      BY <1>0, <2>3, <2>4, <2>7, <2>8, <2>9, <2>10 DEF Consumer!Work
    <2> QED BY <2>11 DEF Consumer!Next
  <1>6. ASSUME NEW w \in Workers, CommitKey(w)
        PROVE  Consumer!Next
    <2>1. /\ Busy(w) /\ pc[w] = "commitKey" /\ Trade(w) \in Trades
          /\ leg[w] = 2 /\ handled[Trade(w)] = Legs
      BY <1>6 DEF CommitKey, Busy, Handling, Shape, LegInv, KeyInv
    <2>2. PICK p \in Partitions, t \in Trades : p = Part(w) /\ t = Trade(w)
      BY <1>0, <2>1, AtNext
    <2>3. Consumer!NextTrade(p, t) /\ owner[p] = w
      BY <1>0, <2>1, <2>2, AtNext DEF Consumer!NextTrade, ForwardInv, Handling, Trade
    <2>4. /\ pc'[w] = "ackTrade" /\ leg'[w] = leg[w]
          /\ \A v \in Workers \ {w} : pc'[v] = pc[v] /\ leg'[v] = leg[v]
          /\ UNCHANGED <<owner, cur, committed, handled>>
      BY <1>6 DEF CommitKey, TypeOK
    <2>5. Progress(p) = 2
      BY <1>0, <2>1, <2>2, <2>3, ControlAssumption DEF Progress
    <2>6. \A q \in Partitions : Progress(q)' = Progress(q)
      BY <1>0, <2>1, <2>2, <2>3, <2>4, <2>5, ProgressStep DEF Past
    <2>7. {u \in Trades : key'[u] = "committed"} = {u \in Trades : key[u] = "committed"} \cup {t}
      BY <1>6, <2>2 DEF CommitKey, TypeOK
    <2>8. Consumer!Finish(p, t)
      BY <1>0, <2>1, <2>2, <2>3, <2>4, <2>5, <2>6, <2>7
      DEF Consumer!Finish, Consumer!Wallets, Legs
    <2> QED BY <2>8 DEF Consumer!Next
  <1>7. ASSUME NEW w \in Workers, AckDeadLetter(w) \/ AckSkipped(w) \/ AckTrade(w)
        PROVE  Consumer!Next
    BY <1>0, <1>7, OrderedAcknowledge DEF Consumer!Next
  <1>8. ASSUME NEW w \in Workers
        PROVE  ~Raise(w)
    <2>1. pc[w] \in Ack => owner[Part(w)] = w
      BY <1>0 DEF OwnInv, Busy
    <2> QED BY <1>0, <2>1 DEF Raise, StageFails, LegRaises, CommitKeyFails, AckRaises, AckFenced,
                              Disturbing, SkippingFaults
  <1>9. ASSUME NEW w \in Workers, Lifecycle(w)
        PROVE  [Consumer!Next]_Consumer!vars
    <2>1. CASE Crash(w) \/ Close(w) \/ DrainTimeout(w)
      <3>1. Die(w)
        BY <2>1 DEF Crash, Close, DrainTimeout
      <3> QED BY <1>0, <3>1, OrderedDeath DEF Consumer!Next
    <2>2. CASE RequestShutdown(w) \/ Restart(w) \/ \E p \in Partitions : Assign(w, p)
      <3>1. /\ pc[w] \notin Past => pc'[w] \notin Past
            /\ pc[w] \in Past => pc'[w] = pc[w]
            /\ \A v \in Workers \ {w} : pc'[v] = pc[v]
            /\ UNCHANGED <<cur, leg, committed, key, handled>>
        BY <2>2 DEF RequestShutdown, Restart, Assign, TypeOK, Past
      <3>2. \A q \in Partitions :
              \/ owner'[q] = owner[q]
              \/ owner[q] = Nobody /\ owner'[q] = w /\ pc'[w] \notin Past
        BY <2>2 DEF RequestShutdown, Restart, Assign, TypeOK, Past
      <3>3. pc[w] \in Past => UNCHANGED owner
        BY <2>2 DEF RequestShutdown, Restart, Assign, Past
      <3>4. ASSUME NEW q \in Partitions
            PROVE  Progress(q)' = Progress(q)
        <4>1. Progress(q)' =
                IF pc[w] \in Past /\ Part(w) = q /\ owner[q] = w
                THEN IF pc'[w] \in Past /\ owner'[q] = w THEN leg'[w] ELSE 0
                ELSE Progress(q)
          BY <1>0, <3>1, <3>2, ProgressStep
        <4> QED BY <1>0, <3>1, <3>3, <4>1, ControlAssumption DEF Progress, Past
      <3> QED BY <1>0, <3>1, <3>4, OrderedStutter DEF DataKept, Done
    <2>3. ~PollIntervalExceeded(w) /\ ~\E p \in Partitions : Revoke(w, p)
      BY <1>0 DEF PollIntervalExceeded, Revoke, Disturbing
    <2> QED BY <1>9, <2>1, <2>2, <2>3 DEF Lifecycle
  <1> QED BY <1>1, <1>2, <1>3, <1>4, <1>5, <1>6, <1>7, <1>8, <1>9 DEF Next, Advance, PollNothing

\* However many members share the partitions, and whatever happens to them, the
\* consumer group is one sequential reader of each partition, as far as the
\* faults so far leave the run ordered; after them it is still a reader that
\* loses nothing, unless processing or the dedup backend has raised.
THEOREM GroupReadsLikeOneConsumer == Spec => ReadsLikeOneConsumer
  <1>1. Init => Consumer!Init
    <2> SUFFICES ASSUME Init PROVE Consumer!Init
      OBVIOUS
    <2>1. Mode = "ordered"
      BY DEF Init, Mode, None, FaultKinds
    <2>2. \A p \in Partitions : Progress(p) = 0
      BY DEF Init, Progress
    <2>3. {t \in Trades : key[t] = "committed"} = {}
      BY DEF Init
    <2> QED BY <2>1, <2>2, <2>3 DEF Init, Consumer!Init, Consumer!NoProgress
  <1>2. ConsumerInv /\ ConsumerInv' /\ [Next]_vars => [Consumer!Next]_Consumer!vars
    BY OrderedStep, DegradedStep
  <1> QED BY ConsumerInvariant, <1>1, <1>2, PTL DEF Spec, ReadsLikeOneConsumer, Consumer!Spec
==============================================================================
