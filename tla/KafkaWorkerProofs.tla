-------------------------- MODULE KafkaWorkerProofs --------------------------
(***************************************************************************)
(* Theorems about KafkaWorker for every set of workers and partitions,     *)
(* every log, every watermark and every number of faults.                  *)
(***************************************************************************)
EXTENDS KafkaWorker, TLAPS

\* What a worker is working on, by the place it has reached.
Shape ==
  \A w \in Workers :
    /\ Busy(w) => cur[w] \in Messages
    /\ pc[w] \in Handling \cup {"ackTrade", "ackDuplicate"} => Trade(w) \in Trades
    /\ pc[w] = "ackPoison" => Trade(w) = Poison
    /\ pc[w] = "ackDeadLetter" => Part(w) \in DeadLetter
    /\ pc[w] = "legs" => leg[w] < 2

------------------------------------------------------------------------------
\* A message is a partition and a position in that partition's log.
LEMMA MessageFacts ==
  ASSUME NEW m \in Messages
  PROVE  /\ m = <<m[1], m[2]>>
         /\ m[1] \in Partitions
         /\ m[2] \in Nat
         /\ m[2] \in 1 .. Len(Log[m[1]])
         /\ Log[m[1]][m[2]] \in Trades \cup {Poison}
  <1>1. PICK p \in Partitions : m \in {p} \X (1 .. Len(Log[p]))
    BY DEF Messages
  <1>2. m[1] = p /\ m[2] \in 1 .. Len(Log[p]) /\ m = <<m[1], m[2]>>
    BY <1>1
  <1>3. Log[p] \in Seq(Trades \cup {Poison})
    BY LogAssumption
  <1>4. Log[p][m[2]] \in Trades \cup {Poison}
    BY <1>2, <1>3
  <1> QED BY <1>2, <1>3, <1>4

\* poll returns a message of the log.
LEMMA MessageIntro ==
  ASSUME NEW p \in Partitions, NEW n \in Nat, n < Len(Log[p])
  PROVE  /\ <<p, n + 1>> \in Messages
         /\ <<p, n + 1>>[1] = p
         /\ <<p, n + 1>>[2] = n + 1
  <1>1. Len(Log[p]) \in Nat
    BY LogAssumption
  <1>2. n + 1 \in 1 .. Len(Log[p])
    BY <1>1
  <1>3. <<p, n + 1>> \in {p} \X (1 .. Len(Log[p]))
    BY <1>2
  <1> QED BY <1>3 DEF Messages

\* The marker for no message is not a message.
LEMMA NoMessageNotMessage == NoMessage \notin Messages
  <1> SUFFICES ASSUME NoMessage \in Messages PROVE FALSE
    OBVIOUS
  <1>1. PICK p \in Partitions : <<>> \in {p} \X (1 .. Len(Log[p]))
    BY DEF Messages, NoMessage
  <1> QED BY <1>1

\* check_and_apply keeps the two pause sets well typed.
LEMMA CheckAndApplyType ==
  ASSUME TypeOK, NEW w \in Workers, NEW p \in Partitions, NEW d,
         CheckAndApply(w, p, d)
  PROVE  /\ bpPaused' \in [Workers -> SUBSET Partitions]
         /\ fetchPaused' \in [Workers -> SUBSET Partitions]
  BY DEF TypeOK, CheckAndApply

\* record_failure keeps the retry counts and the dead-letter set well typed.
LEMMA RecordFailureType ==
  ASSUME TypeOK, NEW w \in Workers, NEW m \in Messages, RecordFailure(w, m)
  PROVE  /\ retries' \in [Workers -> [Messages -> Nat]]
         /\ dlt' \in SUBSET Messages
  <1>1. dlt' \in SUBSET Messages
    BY DEF TypeOK, RecordFailure
  <1>2. retries \in [Workers -> [Messages -> Nat]] /\ retries[w][m] + 1 \in Nat
    BY DEF TypeOK
  <1>3. retries' = [retries EXCEPT ![w][m] = 0] \/ retries' = [retries EXCEPT ![w][m] = retries[w][m] + 1]
    BY DEF RecordFailure
  <1>4. retries' \in [Workers -> [Messages -> Nat]]
    BY <1>2, <1>3
  <1> QED BY <1>1, <1>4

\* A group that has not started is well typed and in shape.
LEMMA InitShape == Init => TypeOK /\ Shape
  <1> SUFFICES ASSUME Init PROVE TypeOK /\ Shape
    OBVIOUS
  <1>1. \A p \in Partitions : Len(Log[p]) \in Nat
    BY LogAssumption
  <1>2. TypeOK
    BY <1>1 DEF Init, TypeOK, Legs
  <1>3. Shape
    BY DEF Init, Shape, Busy, Handling, Ack
  <1> QED BY <1>2, <1>3

\* What the guard of each kind of step says about the message at hand.
LEMMA BusyFacts ==
  ASSUME TypeOK, Shape, NEW w \in Workers, Busy(w)
  PROVE  /\ cur[w] \in Messages
         /\ cur[w] = <<Part(w), Offset(w)>>
         /\ Part(w) \in Partitions
         /\ Offset(w) \in Nat
         /\ Offset(w) \in 1 .. Len(Log[Part(w)])
         /\ Len(Log[Part(w)]) \in Nat
  <1>1. cur[w] \in Messages
    BY DEF Shape
  <1>2. Part(w) \in Partitions
    BY <1>1, MessageFacts DEF Part
  <1> QED BY <1>1, <1>2, MessageFacts, LogAssumption DEF Part, Offset

\* The next state of the worker that takes a step decides Shape.
LEMMA ShapeFrame ==
  ASSUME Shape, NEW w \in Workers,
         \A v \in Workers \ {w} :
           pc'[v] = pc[v] /\ cur'[v] = cur[v] /\ leg'[v] = leg[v],
         Busy(w)' => cur'[w] \in Messages,
         pc'[w] \in Handling \cup {"ackTrade", "ackDuplicate"} => Trade(w)' \in Trades,
         pc'[w] = "ackPoison" => Trade(w)' = Poison,
         pc'[w] = "ackDeadLetter" => Part(w)' \in DeadLetter,
         pc'[w] = "legs" => leg'[w] < 2
  PROVE  Shape'
  BY DEF Shape, Busy, Trade, Part, Offset

\* poll moves the worker to the message it returns.
LEMMA TakeStep ==
  ASSUME TypeOK, Shape, NEW w \in Workers, NEW p \in Partitions,
         NEW next \in {"ackDeadLetter", "ackPoison", "stage"},
         Take(w, p, next),
         next = "ackDeadLetter" => p \in DeadLetter,
         next = "ackPoison" => Log[p][pos[w][p] + 1] = Poison,
         next = "stage" => Log[p][pos[w][p] + 1] \in Trades
  PROVE  /\ Shape'
         /\ cur' \in [Workers -> Messages \cup {NoMessage}]
         /\ pos' \in [Workers -> [Partitions -> Nat]]
         /\ pc' \in [Workers -> {"down", "poll"} \cup Handling \cup Ack]
         /\ <<p, pos[w][p] + 1>> \in Messages
  <1>1. pos[w][p] \in Nat /\ pos[w][p] < Len(Log[p])
    BY DEF Take, Deliverable, TypeOK
  <1>2. /\ <<p, pos[w][p] + 1>> \in Messages
        /\ <<p, pos[w][p] + 1>>[1] = p
        /\ <<p, pos[w][p] + 1>>[2] = pos[w][p] + 1
    BY <1>1, MessageIntro
  <1>3. /\ cur'[w] = <<p, pos[w][p] + 1>> /\ pc'[w] = next
        /\ \A v \in Workers \ {w} : pc'[v] = pc[v] /\ cur'[v] = cur[v] /\ leg'[v] = leg[v]
    BY DEF Take, TypeOK
  <1>4. Shape'
    BY <1>2, <1>3, ShapeFrame DEF Busy, Handling, Ack, Trade, Part, Offset
  <1>5. cur' \in [Workers -> Messages \cup {NoMessage}]
    BY <1>2 DEF Take, TypeOK
  <1>6. pos' \in [Workers -> [Partitions -> Nat]]
    BY DEF Take, TypeOK
  <1>7. pc' \in [Workers -> {"down", "poll"} \cup Handling \cup Ack]
    BY DEF Take, TypeOK, Handling, Ack
  <1> QED BY <1>2, <1>4, <1>5, <1>6, <1>7

\* Entering process_message keeps _in_flight well typed.
LEMMA EnterType ==
  ASSUME TypeOK, NEW w \in Workers, NEW p \in Partitions, Enter(w, p)
  PROVE  /\ inFlight' \in [Workers -> [Partitions -> Nat]]
         /\ bpPaused' \in [Workers -> SUBSET Partitions]
         /\ fetchPaused' \in [Workers -> SUBSET Partitions]
  <1>1. inFlight' \in [Workers -> [Partitions -> Nat]]
    BY DEF Enter, TypeOK
  <1> QED BY <1>1, CheckAndApplyType DEF Enter

\* max(0, n - 1) keeps _in_flight well typed.
LEMMA LeaveFlightType ==
  ASSUME TypeOK, NEW w \in Workers, LeaveFlight(w)
  PROVE  inFlight' \in [Workers -> [Partitions -> Nat]]
  <1>1. \A n \in Nat : LessOne(n) \in Nat
    BY DEF LessOne
  <1>2. Part(w) \in Partitions => LessOne(inFlight[w][Part(w)]) \in Nat
    BY <1>1 DEF TypeOK
  <1> QED BY <1>2 DEF LeaveFlight, TypeOK

\* Returning to the loop, by return or exception, drops the message.
LEMMA BackToPollStep ==
  ASSUME TypeOK, Shape, NEW w \in Workers, BackToPoll(w)
  PROVE  /\ Shape'
         /\ pc' \in [Workers -> {"down", "poll"} \cup Handling \cup Ack]
         /\ cur' \in [Workers -> Messages \cup {NoMessage}]
         /\ leg' \in [Workers -> 0 .. 2]
  <1>1. /\ pc'[w] = "poll"
        /\ \A v \in Workers \ {w} : pc'[v] = pc[v] /\ cur'[v] = cur[v] /\ leg'[v] = leg[v]
    BY DEF BackToPoll, TypeOK
  <1>2. Shape'
    BY <1>1, ShapeFrame DEF Busy, Handling, Ack
  <1> QED BY <1>2 DEF BackToPoll, TypeOK

\* A fenced offset commit stays within the partition's log.
LEMMA CommitOffsetType ==
  ASSUME TypeOK, Shape, NEW w \in Workers, Busy(w), CommitOffset(w)
  PROVE  /\ committed' \in [Partitions -> Nat]
         /\ \A p \in Partitions : committed'[p] <= Len(Log[p])
  <1>1. Part(w) \in Partitions /\ Offset(w) \in Nat /\ Offset(w) <= Len(Log[Part(w)])
    BY BusyFacts
  <1> QED BY <1>1 DEF CommitOffset, TypeOK

\* The poll steps preserve type and shape.
LEMMA PollType ==
  ASSUME TypeOK, Shape, NEW w \in Workers, Poll(w)
  PROVE  TypeOK' /\ Shape'
  <1>1. PICK p \in Partitions : PollDeadLetter(w, p) \/ PollPoison(w, p) \/ PollTrade(w, p)
    BY DEF Poll
  <1>2. CASE PollDeadLetter(w, p)
    <2>1. Take(w, p, "ackDeadLetter") /\ p \in DeadLetter
      BY <1>2 DEF PollDeadLetter
    <2>2. UNCHANGED <<inFlight, controlVars, retries, dlt>>
      BY <1>2 DEF PollDeadLetter
    <2>3. UNCHANGED <<brokerVars, leg, stopping, buffer, key, handled, faults>>
      BY <2>1 DEF Take
    <2> QED BY <2>1, <2>2, <2>3, TakeStep DEF TypeOK, controlVars, brokerVars
  <1>3. CASE PollPoison(w, p)
    <2>1. Take(w, p, "ackPoison") /\ Log[p][pos[w][p] + 1] = Poison
      BY <1>3 DEF PollPoison
    <2>2. Enter(w, p) /\ RecordFailure(w, <<p, pos[w][p] + 1>>)
      BY <1>3 DEF PollPoison
    <2>3. UNCHANGED <<brokerVars, leg, stopping, buffer, key, handled, faults>>
      BY <2>1 DEF Take
    <2>4. /\ Shape'
          /\ cur' \in [Workers -> Messages \cup {NoMessage}]
          /\ pos' \in [Workers -> [Partitions -> Nat]]
          /\ pc' \in [Workers -> {"down", "poll"} \cup Handling \cup Ack]
          /\ <<p, pos[w][p] + 1>> \in Messages
      BY <2>1, TakeStep
    <2> QED BY <2>2, <2>3, <2>4, EnterType, RecordFailureType DEF TypeOK, brokerVars
  <1>4. CASE PollTrade(w, p)
    <2>1. Take(w, p, "stage") /\ Log[p][pos[w][p] + 1] \in Trades
      BY <1>4 DEF PollTrade
    <2>2. Enter(w, p) /\ UNCHANGED <<retries, dlt>>
      BY <1>4 DEF PollTrade
    <2>3. UNCHANGED <<brokerVars, leg, stopping, buffer, key, handled, faults>>
      BY <2>1 DEF Take
    <2> QED BY <2>1, <2>2, <2>3, TakeStep, EnterType DEF TypeOK, brokerVars
  <1> QED BY <1>1, <1>2, <1>3, <1>4

\* Starting on the wallets preserves type and shape.
LEMMA ProcessStep ==
  ASSUME TypeOK, Shape, NEW w \in Workers, Process(w), pc[w] \in Handling, UNCHANGED cur
  PROVE  /\ Shape'
         /\ pc' \in [Workers -> {"down", "poll"} \cup Handling \cup Ack]
         /\ leg' \in [Workers -> 0 .. 2]
         /\ buffer' \in [Workers -> SUBSET Trades]
  <1>1. /\ pc'[w] = "legs" /\ leg'[w] = 0
        /\ \A v \in Workers \ {w} : pc'[v] = pc[v] /\ cur'[v] = cur[v] /\ leg'[v] = leg[v]
    BY DEF Process, TypeOK
  <1>2. cur[w] \in Messages /\ Trade(w) \in Trades /\ Trade(w)' = Trade(w)
    BY DEF Shape, Busy, Trade, Part, Offset
  <1>3. Shape'
    BY <1>1, <1>2, ShapeFrame
  <1> QED BY <1>2, <1>3 DEF Process, TypeOK, Handling

\* The successful steps of process_message preserve type and shape.
LEMMA AdvanceType ==
  ASSUME TypeOK, Shape, NEW w \in Workers, Advance(w)
  PROVE  TypeOK' /\ Shape'
  <1> USE DEF brokerVars, controlVars
  <1>1. CASE Stage(w) /\ key[Trade(w)] = "absent"
    <2>1. Process(w) /\ pc[w] \in Handling /\ UNCHANGED cur
      BY <1>1 DEF Stage, Handling
    <2>2. key' \in [Trades -> {"absent", "staged", "committed"}]
      BY <1>1 DEF Stage, TypeOK
    <2> QED BY <1>1, <2>1, <2>2, ProcessStep DEF Stage, TypeOK
  <1>2. CASE Stage(w) /\ key[Trade(w)] # "absent"
    <2>1. /\ pc[w] = "stage" /\ pc' = [pc EXCEPT ![w] = "get"]
          /\ UNCHANGED <<brokerVars, pos, controlVars, cur, leg, stopping, inFlight,
                         buffer, retries, dlt, key, handled, faults>>
      BY <1>2 DEF Stage
    <2>2. pc'[w] = "get" /\ Trade(w)' = Trade(w) /\ Trade(w) \in Trades /\ cur[w] \in Messages
      BY <2>1 DEF Shape, TypeOK, Busy, Handling, Trade, Part, Offset
    <2>3. Shape'
      BY <2>1, <2>2, ShapeFrame DEF TypeOK
    <2> QED BY <2>1, <2>3 DEF TypeOK, Handling
  <1>3. CASE Get(w) /\ key[Trade(w)] = "committed"
    <2>1. /\ pc[w] = "get" /\ pc' = [pc EXCEPT ![w] = "ackDuplicate"]
          /\ UNCHANGED <<brokerVars, pos, controlVars, cur, leg, stopping, inFlight,
                         buffer, retries, dlt, key, handled, faults>>
      BY <1>3 DEF Get
    <2>2. /\ pc'[w] = "ackDuplicate" /\ Trade(w)' = Trade(w)
          /\ Trade(w) \in Trades /\ cur[w] \in Messages
      BY <2>1 DEF Shape, TypeOK, Busy, Handling, Trade, Part, Offset
    <2>3. Shape'
      BY <2>1, <2>2, ShapeFrame DEF TypeOK
    <2> QED BY <2>1, <2>3 DEF TypeOK, Ack
  <1>4. CASE Get(w) /\ key[Trade(w)] # "committed"
    <2>1. Process(w) /\ pc[w] \in Handling /\ UNCHANGED cur
      BY <1>4 DEF Get, Handling
    <2> QED BY <1>4, <2>1, ProcessStep DEF Get, TypeOK
  <1>5. CASE ProcessLeg(w)
    <2>1. /\ cur[w] \in Messages /\ Trade(w) \in Trades /\ leg[w] < 2 /\ leg[w] \in 0 .. 2
          /\ Trade(w)' = Trade(w) /\ cur'[w] = cur[w]
      BY <1>5 DEF ProcessLeg, Shape, TypeOK, Busy, Handling, Trade, Part, Offset
    <2>2. leg' \in [Workers -> 0 .. 2]
      BY <1>5, <2>1 DEF ProcessLeg, TypeOK
    <2>3. handled' \in [Trades -> SUBSET Legs]
      <3>1. leg[w] + 1 \in Legs
        BY <2>1 DEF Legs
      <3> QED BY <1>5, <3>1 DEF ProcessLeg, TypeOK
    <2>4. pc' \in [Workers -> {"down", "poll"} \cup Handling \cup Ack]
      BY <1>5 DEF ProcessLeg, TypeOK, Handling
    <2>5. Shape'
      <3>1. /\ pc'[w] \in {"legs", "commitKey"} /\ (pc'[w] = "legs" => leg'[w] < 2)
            /\ \A v \in Workers \ {w} : pc'[v] = pc[v] /\ cur'[v] = cur[v] /\ leg'[v] = leg[v]
        BY <1>5, <2>1 DEF ProcessLeg, TypeOK
      <3> QED BY <2>1, <3>1, ShapeFrame
    <2> QED BY <1>5, <2>2, <2>3, <2>4, <2>5 DEF ProcessLeg, TypeOK
  <1>6. CASE CommitKey(w)
    <2>1. /\ cur[w] \in Messages /\ Trade(w) \in Trades
          /\ Trade(w)' = Trade(w) /\ cur'[w] = cur[w]
      BY <1>6 DEF CommitKey, Shape, TypeOK, Busy, Handling, Trade, Part, Offset
    <2>2. key' \in [Trades -> {"absent", "staged", "committed"}]
      BY <1>6 DEF CommitKey, TypeOK
    <2>3. Shape'
      <3>1. /\ pc'[w] = "ackTrade"
            /\ \A v \in Workers \ {w} : pc'[v] = pc[v] /\ cur'[v] = cur[v] /\ leg'[v] = leg[v]
        BY <1>6 DEF CommitKey, TypeOK
      <3> QED BY <2>1, <3>1, ShapeFrame
    <2> QED BY <1>6, <2>2, <2>3 DEF CommitKey, TypeOK, Ack
  <1>7. CASE AckDeadLetter(w)
    <2>1. Busy(w) /\ CommitOffset(w) /\ BackToPoll(w)
      BY <1>7 DEF AckDeadLetter, Busy, Ack
    <2> QED BY <1>7, <2>1, CommitOffsetType, BackToPollStep DEF AckDeadLetter, TypeOK
  <1>8. CASE AckSkipped(w)
    <2>1. Busy(w) /\ CommitOffset(w) /\ BackToPoll(w) /\ LeaveFlight(w)
      BY <1>8 DEF AckSkipped, Busy, Ack
    <2> QED BY <1>8, <2>1, CommitOffsetType, BackToPollStep, LeaveFlightType DEF AckSkipped, TypeOK
  <1>9. CASE AckTrade(w)
    <2>1. Busy(w) /\ CommitOffset(w) /\ BackToPoll(w) /\ LeaveFlight(w)
      BY <1>9 DEF AckTrade, Busy, Ack
    <2>2. Part(w) \in Partitions
      BY <2>1, BusyFacts
    <2>3. CheckAndApply(w, Part(w), LessOne(inFlight[w][Part(w)]))
      BY <1>9 DEF AckTrade
    <2> QED BY <1>9, <2>1, <2>2, <2>3, CommitOffsetType, BackToPollStep, LeaveFlightType,
               CheckAndApplyType DEF AckTrade, TypeOK
  <1> QED BY <1>1, <1>2, <1>3, <1>4, <1>5, <1>6, <1>7, <1>8, <1>9 DEF Advance

\* Counting a fault keeps the counts natural.
LEMMA FaultType ==
  ASSUME TypeOK, NEW k, Fault(k)
  PROVE  faults' \in [FaultKinds -> Nat]
  BY ControlAssumption DEF Fault, TypeOK

\* The exits of process_message that raise preserve type and shape.
LEMMA RaiseType ==
  ASSUME TypeOK, Shape, NEW w \in Workers, Raise(w)
  PROVE  TypeOK' /\ Shape'
  <1> USE DEF brokerVars, controlVars
  <1>1. CASE StageFails(w)
    <2>1. key' \in [Trades -> {"absent", "staged", "committed"}]
      BY <1>1 DEF StageFails, TypeOK
    <2> QED BY <1>1, <2>1, LeaveFlightType, BackToPollStep, FaultType DEF StageFails, TypeOK
  <1>2. CASE LegRaises(w)
    BY <1>2, BackToPollStep, FaultType DEF LegRaises, TypeOK
  <1>3. CASE CommitKeyFails(w)
    <2>1. key' \in [Trades -> {"absent", "staged", "committed"}]
      BY <1>3 DEF CommitKeyFails, TypeOK
    <2> QED BY <1>3, <2>1, LeaveFlightType, BackToPollStep, FaultType DEF CommitKeyFails, TypeOK
  <1>4. CASE AckRaises(w)
    <2>1. Busy(w)
      BY <1>4 DEF AckRaises, Busy
    <2>2. committed' \in [Partitions -> Nat] /\ \A p \in Partitions : committed'[p] <= Len(Log[p])
      BY <1>4, <2>1, CommitOffsetType DEF AckRaises, TypeOK
    <2> QED BY <1>4, <2>2, BackToPollStep, FaultType DEF AckRaises, TypeOK
  <1>5. CASE AckFenced(w)
    BY <1>5, BackToPollStep DEF AckFenced, TypeOK
  <1> QED BY <1>1, <1>2, <1>3, <1>4, <1>5 DEF Raise

\* The end of a process preserves type and shape.
LEMMA DieStep ==
  ASSUME TypeOK, Shape, NEW w \in Workers, Die(w), faults' \in [FaultKinds -> Nat]
  PROVE  TypeOK' /\ Shape'
  <1>1. owner' \in [Partitions -> Workers \cup {Nobody}]
    BY DEF Die, Release, TypeOK
  <1>2. /\ pc' \in [Workers -> {"down", "poll"} \cup Handling \cup Ack]
        /\ cur' \in [Workers -> Messages \cup {NoMessage}]
        /\ leg' \in [Workers -> 0 .. 2]
        /\ stopping' \in [Workers -> BOOLEAN]
    BY DEF Die, TypeOK
  <1>3. /\ inFlight' \in [Workers -> [Partitions -> Nat]]
        /\ buffer' \in [Workers -> SUBSET Trades]
        /\ retries' \in [Workers -> [Messages -> Nat]]
    BY DEF Die, TypeOK
  <1>4. /\ bpPaused' \in [Workers -> SUBSET Partitions]
        /\ fetchPaused' \in [Workers -> SUBSET Partitions]
    BY DEF Die, TypeOK
  <1>5. Shape'
    <2>1. /\ pc'[w] = "down"
          /\ \A v \in Workers \ {w} : pc'[v] = pc[v] /\ cur'[v] = cur[v] /\ leg'[v] = leg[v]
      BY DEF Die, TypeOK
    <2> QED BY <2>1, ShapeFrame DEF Busy, Handling, Ack
  <1> QED BY <1>1, <1>2, <1>3, <1>4, <1>5 DEF Die, TypeOK

\* Shutdowns, restarts and rebalances preserve type and shape.
LEMMA LifecycleType ==
  ASSUME TypeOK, Shape, NEW w \in Workers, Lifecycle(w)
  PROVE  TypeOK' /\ Shape'
  <1> USE DEF brokerVars, controlVars
  <1>0. UNCHANGED <<pc, cur, leg>> => Shape'
    BY DEF Shape, Busy, Trade, Part, Offset
  <1>1. CASE Crash(w)
    BY <1>1, DieStep, FaultType DEF Crash
  <1>2. CASE RequestShutdown(w)
    BY <1>0, <1>2, FaultType DEF RequestShutdown, TypeOK
  <1>3. CASE Close(w)
    BY <1>3, DieStep DEF Close, TypeOK
  <1>4. CASE DrainTimeout(w)
    BY <1>4, DieStep DEF DrainTimeout, TypeOK
  <1>5. CASE Restart(w)
    <2>1. /\ pc'[w] = "poll"
          /\ \A v \in Workers \ {w} : pc'[v] = pc[v] /\ cur'[v] = cur[v] /\ leg'[v] = leg[v]
      BY <1>5 DEF Restart, TypeOK
    <2>2. Shape'
      BY <2>1, ShapeFrame DEF Busy, Handling, Ack
    <2> QED BY <1>5, <2>2 DEF Restart, TypeOK
  <1>6. CASE PollIntervalExceeded(w)
    BY <1>0, <1>6, FaultType DEF PollIntervalExceeded, Release, TypeOK
  <1>7. CASE \E p \in Partitions : Assign(w, p)
    <2>1. PICK p \in Partitions : Assign(w, p)
      BY <1>7
    <2>2. pos' \in [Workers -> [Partitions -> Nat]] /\ owner' \in [Partitions -> Workers \cup {Nobody}]
      BY <2>1 DEF Assign, TypeOK
    <2>3. fetchPaused' \in [Workers -> SUBSET Partitions]
      BY <2>1 DEF Assign, TypeOK
    <2> QED BY <1>0, <2>1, <2>2, <2>3 DEF Assign, TypeOK
  <1>8. CASE \E p \in Partitions : Revoke(w, p)
    BY <1>0, <1>8, FaultType DEF Revoke, TypeOK
  <1> QED BY <1>1, <1>2, <1>3, <1>4, <1>5, <1>6, <1>7, <1>8 DEF Lifecycle

\* Every step preserves type and shape.
LEMMA TypeStep ==
  ASSUME TypeOK, Shape, [Next]_vars
  PROVE  TypeOK' /\ Shape'
  <1>1. CASE UNCHANGED vars
    BY <1>1 DEF vars, TypeOK, Shape, Busy, Trade, Part, Offset
  <1>2. CASE \E t \in Trades : ExpireKey(t)
    <2>1. UNCHANGED <<pc, cur, leg>> => Shape'
      BY DEF Shape, Busy, Trade, Part, Offset
    <2> QED BY <1>2, <2>1, FaultType DEF ExpireKey, TypeOK, brokerVars, controlVars
  <1>3. CASE \E w \in Workers : PollNothing(w)
    BY <1>1, <1>3 DEF PollNothing
  <1>4. CASE \E w \in Workers : Poll(w) \/ Advance(w) \/ Raise(w) \/ Lifecycle(w)
    BY <1>4, PollType, AdvanceType, RaiseType, LifecycleType
  <1> QED BY <1>1, <1>2, <1>3, <1>4 DEF Next

\* Every reachable state is well typed: in particular the committed offset
\* never passes the end of a partition's log.
THEOREM TypeCorrect == Spec => []TypeOK
  <1>1. Init => TypeOK /\ Shape
    BY InitShape
  <1>2. TypeOK /\ Shape /\ [Next]_vars => TypeOK' /\ Shape'
    BY TypeStep
  <1> QED BY <1>1, <1>2, PTL DEF Spec

------------------------------------------------------------------------------
(* The dedup key *)

\* CommittedMeansHandled made inductive: what has been handled by the time
\* a worker has reached each place.
KeyInv ==
  /\ CommittedMeansHandled
  /\ \A w \in Workers :
       /\ pc[w] = "legs" => 1 .. leg[w] \subseteq handled[Trade(w)]
       /\ pc[w] \in {"commitKey", "ackTrade", "ackDuplicate"} => handled[Trade(w)] = Legs

\* Steps that leave the dedup key and the wallets alone: enough is known if the
\* moving worker does not enter a place KeyInv speaks about.
LEMMA KeyFrame ==
  ASSUME KeyInv, NEW w \in Workers, handled' = handled,
         \A t \in Trades : key'[t] = "committed" => key[t] = "committed",
         \A v \in Workers \ {w} :
           pc'[v] = pc[v] /\ cur'[v] = cur[v] /\ leg'[v] = leg[v],
         pc'[w] \notin {"legs", "commitKey", "ackTrade", "ackDuplicate"}
  PROVE  KeyInv'
  BY DEF KeyInv, CommittedMeansHandled, Trade, Part, Offset

\* KeyInv depends on four variables only.
LEMMA KeyUnmoved ==
  ASSUME KeyInv, handled' = handled, UNCHANGED <<pc, cur, leg>>,
         \A t \in Trades : key'[t] = "committed" => key[t] = "committed"
  PROVE  KeyInv'
  BY DEF KeyInv, CommittedMeansHandled, Trade, Part, Offset

\* Starting on the wallets after staging preserves KeyInv.
LEMMA KeyProcess ==
  ASSUME TypeOK, KeyInv, NEW w \in Workers, Process(w), UNCHANGED <<cur, handled>>,
         \A t \in Trades : key'[t] = "committed" => key[t] = "committed"
  PROVE  KeyInv'
  <1>1. /\ pc'[w] = "legs" /\ leg'[w] = 0
        /\ \A v \in Workers \ {w} : pc'[v] = pc[v] /\ cur'[v] = cur[v] /\ leg'[v] = leg[v]
    BY DEF Process, TypeOK
  <1>2. \A v \in Workers : Trade(v)' = Trade(v)
    BY DEF Trade, Part, Offset
  <1>3. CommittedMeansHandled'
    BY DEF KeyInv, CommittedMeansHandled
  <1>4. ASSUME NEW v \in Workers
        PROVE  /\ pc'[v] = "legs" => 1 .. leg'[v] \subseteq handled'[Trade(v)']
               /\ pc'[v] \in {"commitKey", "ackTrade", "ackDuplicate"} => handled'[Trade(v)'] = Legs
    <2>1. CASE v = w
      BY <1>1, <2>1
    <2>2. CASE v # w
      BY <1>1, <1>2, <2>2 DEF KeyInv
    <2> QED BY <2>1, <2>2
  <1> QED BY <1>3, <1>4 DEF KeyInv

\* Every step preserves KeyInv: the key is committed after both wallets only.
LEMMA KeyStep ==
  ASSUME TypeOK, Shape, KeyInv, [Next]_vars
  PROVE  KeyInv'
  <1> USE DEF brokerVars, controlVars
  <1>1. CASE UNCHANGED vars
    BY <1>1, KeyUnmoved DEF vars
  <1>2. CASE \E t \in Trades : ExpireKey(t)
    BY <1>2, KeyUnmoved DEF ExpireKey, TypeOK
  <1>3. ASSUME NEW w \in Workers, Poll(w)
        PROVE  KeyInv'
    <2>1. PICK p \in Partitions, next \in {"ackDeadLetter", "ackPoison", "stage"} : Take(w, p, next)
      BY <1>3 DEF Poll, PollDeadLetter, PollPoison, PollTrade
    <2> QED BY <2>1, KeyFrame DEF Take, TypeOK
  <1>4. ASSUME NEW w \in Workers, Advance(w)
        PROVE  KeyInv'
    <2>1. CASE Stage(w) /\ key[Trade(w)] = "absent"
      BY <2>1, KeyProcess DEF Stage, TypeOK
    <2>2. CASE Stage(w) /\ key[Trade(w)] # "absent"
      BY <2>2, KeyFrame DEF Stage, TypeOK
    <2>3. CASE Get(w) /\ key[Trade(w)] = "committed"
      <3>1. Trade(w) \in Trades
        BY <2>3 DEF Get, Shape, Handling
      <3>2. handled[Trade(w)] = Legs
        BY <2>3, <3>1 DEF KeyInv, CommittedMeansHandled
      <3> QED BY <2>3, <3>2 DEF Get, TypeOK, KeyInv, CommittedMeansHandled, Trade, Part, Offset
    <2>4. CASE Get(w) /\ key[Trade(w)] # "committed"
      BY <2>4, KeyProcess DEF Get
    <2>5. CASE ProcessLeg(w)
      <3>1. /\ Trade(w) \in Trades /\ leg[w] \in 0 .. 1 /\ pc[w] = "legs"
            /\ \A v \in Workers : Trade(v)' = Trade(v)
        BY <2>5 DEF ProcessLeg, Shape, TypeOK, Handling, Trade, Part, Offset
      <3>2. /\ handled'[Trade(w)] = handled[Trade(w)] \cup {leg[w] + 1}
            /\ \A t \in Trades : handled[t] \subseteq handled'[t] /\ handled'[t] \subseteq Legs
        <4>1. leg[w] + 1 \in Legs
          BY <3>1 DEF Legs
        <4> QED BY <2>5, <3>1, <4>1 DEF ProcessLeg, TypeOK
      <3>3. 1 .. leg[w] \subseteq handled[Trade(w)]
        BY <3>1 DEF KeyInv
      <3>4. 1 .. (leg[w] + 1) \subseteq handled'[Trade(w)]
        BY <3>1, <3>2, <3>3
      <3>5. CommittedMeansHandled'
        BY <2>5, <3>2 DEF KeyInv, CommittedMeansHandled, ProcessLeg
      <3>6. ASSUME NEW v \in Workers
            PROVE  /\ pc'[v] = "legs" => 1 .. leg'[v] \subseteq handled'[Trade(v)']
                   /\ pc'[v] \in {"commitKey", "ackTrade", "ackDuplicate"} => handled'[Trade(v)'] = Legs
        <4>1. CASE v = w
          <5>1. leg'[w] = leg[w] + 1 /\ Trade(w)' = Trade(w)
            BY <2>5, <3>1 DEF ProcessLeg, TypeOK
          <5>2. pc'[w] = "commitKey" => leg[w] + 1 = 2
            BY <2>5 DEF ProcessLeg, TypeOK
          <5>3. pc'[w] \in {"legs", "commitKey"}
            BY <2>5 DEF ProcessLeg, TypeOK
          <5>4. pc'[w] = "commitKey" => handled'[Trade(w)] = Legs
            BY <3>1, <3>2, <3>4, <5>2 DEF Legs
          <5> QED BY <4>1, <3>4, <5>1, <5>3, <5>4
        <4>2. CASE v # w
          <5>1. pc'[v] = pc[v] /\ leg'[v] = leg[v] /\ Trade(v)' = Trade(v)
            BY <2>5, <3>1, <4>2 DEF ProcessLeg, TypeOK
          <5>2. pc[v] \in Handling \cup {"ackTrade", "ackDuplicate"} => Trade(v) \in Trades
            BY DEF Shape
          <5> QED BY <3>2, <5>1, <5>2 DEF KeyInv, Handling
        <4> QED BY <4>1, <4>2
      <3> QED BY <3>5, <3>6 DEF KeyInv
    <2>6. CASE CommitKey(w)
      <3>1. Trade(w) \in Trades /\ handled[Trade(w)] = Legs
        BY <2>6 DEF CommitKey, Shape, KeyInv, Handling
      <3> QED BY <2>6, <3>1 DEF CommitKey, TypeOK, KeyInv, CommittedMeansHandled, Trade, Part, Offset
    <2>7. CASE AckDeadLetter(w) \/ AckSkipped(w) \/ AckTrade(w)
      <3>1. BackToPoll(w) /\ UNCHANGED <<key, handled>>
        BY <2>7 DEF AckDeadLetter, AckSkipped, AckTrade
      <3> QED BY <3>1, KeyFrame DEF BackToPoll, TypeOK
    <2> QED BY <1>4, <2>1, <2>2, <2>3, <2>4, <2>5, <2>6, <2>7 DEF Advance
  <1>5. ASSUME NEW w \in Workers, Raise(w)
        PROVE  KeyInv'
    <2>1. BackToPoll(w) /\ UNCHANGED handled
      BY <1>5 DEF Raise, StageFails, LegRaises, CommitKeyFails, AckRaises, AckFenced
    <2>2. /\ pc'[w] = "poll"
          /\ \A v \in Workers \ {w} : pc'[v] = pc[v] /\ cur'[v] = cur[v] /\ leg'[v] = leg[v]
      BY <2>1 DEF BackToPoll, TypeOK
    <2>3. CASE CommitKeyFails(w)
      <3>1. Trade(w) \in Trades /\ handled[Trade(w)] = Legs
        BY <2>3 DEF CommitKeyFails, Shape, KeyInv, Handling
      <3>2. CommittedMeansHandled'
        BY <2>1, <2>3, <3>1 DEF CommitKeyFails, TypeOK, KeyInv, CommittedMeansHandled
      <3> QED BY <2>1, <2>2, <3>2 DEF KeyInv, Trade, Part, Offset
    <2>4. CASE ~CommitKeyFails(w)
      <3>1. \A t \in Trades : key'[t] = "committed" => key[t] = "committed"
        BY <1>5, <2>4 DEF Raise, StageFails, LegRaises, AckRaises, AckFenced, TypeOK
      <3> QED BY <2>1, <2>2, <3>1, KeyFrame
    <2> QED BY <2>3, <2>4
  <1>6. ASSUME NEW w \in Workers, Lifecycle(w)
        PROVE  KeyInv'
    <2>1. CASE Crash(w) \/ Close(w) \/ DrainTimeout(w)
      <3>1. Die(w)
        BY <2>1 DEF Crash, Close, DrainTimeout
      <3> QED BY <3>1, KeyFrame DEF Die, TypeOK
    <2>2. CASE Restart(w)
      BY <2>2, KeyFrame DEF Restart, TypeOK
    <2>3. CASE ~(Crash(w) \/ Close(w) \/ DrainTimeout(w) \/ Restart(w))
      <3>1. UNCHANGED <<pc, cur, leg, handled, key>>
        BY <1>6, <2>3 DEF Lifecycle, RequestShutdown, PollIntervalExceeded, Assign, Revoke
      <3> QED BY <3>1, KeyUnmoved
    <2> QED BY <2>1, <2>2, <2>3
  <1>7. CASE \E w \in Workers : PollNothing(w)
    BY <1>1, <1>7 DEF PollNothing
  <1> QED BY <1>1, <1>2, <1>3, <1>4, <1>5, <1>6, <1>7 DEF Next

\* Under every fault the model has, the dedup key reads COMMITTED only for a
\* trade both of whose wallets have been scored and dispatched.
THEOREM KeyCommittedMeansHandled == Spec => []CommittedMeansHandled
  <1>1. Init => TypeOK /\ Shape /\ KeyInv
    <2>1. Init => KeyInv
      BY DEF Init, KeyInv, CommittedMeansHandled
    <2> QED BY <2>1, InitShape
  <1>2. TypeOK /\ Shape /\ KeyInv /\ [Next]_vars => TypeOK' /\ Shape' /\ KeyInv'
    BY TypeStep, KeyStep
  <1>3. KeyInv => CommittedMeansHandled
    BY DEF KeyInv
  <1> QED BY <1>1, <1>2, <1>3, PTL DEF Spec

------------------------------------------------------------------------------
(* Offsets *)

\* A member that owns a partition is at or past the committed offset, and the
\* message it is working on is the last one it was given.
PosInv ==
  \A p \in Partitions, w \in Workers :
    owner[p] = w =>
      /\ committed[p] <= pos[w][p]
      /\ Busy(w) /\ Part(w) = p => Offset(w) = pos[w][p] /\ committed[p] < Offset(w)

\* How any step moves the offsets and the place of each worker.
Quiet(w) ==     \* w goes on with the message it has, or stays without one
  /\ UNCHANGED <<owner, committed, pos, cur>>
  /\ Busy(w)' <=> Busy(w)
  /\ \A v \in Workers \ {w} : pc'[v] = pc[v]

Fetched(w) ==   \* w is given the next message of a partition it owns
  \E p \in Partitions :
    /\ owner[p] = w /\ ~Busy(w)
    /\ pos' = [pos EXCEPT ![w][p] = @ + 1]
    /\ cur' = [cur EXCEPT ![w] = <<p, pos[w][p] + 1>>]
    /\ cur'[w][1] = p /\ cur'[w][2] = pos[w][p] + 1
    /\ Busy(w)'
    /\ \A v \in Workers \ {w} : pc'[v] = pc[v]
    /\ UNCHANGED <<owner, committed>>

Finished(w) ==  \* w is done with its message: it has committed it, has raised, or is gone
  /\ ~Busy(w)'
  /\ \A v \in Workers \ {w} : pc'[v] = pc[v] /\ cur'[v] = cur[v]
  /\ UNCHANGED pos
  /\ \/ Busy(w) /\ CommitOffset(w) /\ UNCHANGED owner
     \/ /\ UNCHANGED <<committed, owner>> /\ Busy(w)
        /\ owner[Part(w)] # w \/ \E k \in {"dispatch", "dedup", "offset"} : Fault(k)
     \/ Release(w) /\ UNCHANGED committed

Moved(w) ==     \* a partition is taken from w or given to it
  /\ UNCHANGED <<committed, pc, cur>>
  /\ \/ /\ UNCHANGED pos
        /\ Fault("rebalance")
        /\ \A p \in Partitions : owner'[p] = owner[p] \/ owner'[p] = Nobody
     \/ \E p \in Partitions :
          /\ owner[p] = Nobody /\ ~Busy(w)
          /\ owner' = [owner EXCEPT ![p] = w]
          /\ pos' = [pos EXCEPT ![w][p] = committed[p]]

\* What a step may do to owners, offsets and positions: every action is of one of these kinds.
LEMMA StepKinds ==
  ASSUME TypeOK, Shape, [Next]_vars
  PROVE  \/ UNCHANGED <<owner, committed, pos, pc, cur>>
         \/ \E w \in Workers : Quiet(w) \/ Fetched(w) \/ Finished(w) \/ Moved(w)
  <1> USE DEF brokerVars, controlVars
  <1>1. CASE UNCHANGED vars
    BY <1>1 DEF vars
  <1>2. CASE \E t \in Trades : ExpireKey(t)
    BY <1>2 DEF ExpireKey
  <1>3. CASE \E w \in Workers : PollNothing(w)
    BY <1>1, <1>3 DEF PollNothing
  <1>4. ASSUME NEW w \in Workers, Poll(w)
        PROVE  Fetched(w)
    <2>1. PICK p \in Partitions, next \in {"ackDeadLetter", "ackPoison", "stage"} : Take(w, p, next)
      BY <1>4 DEF Poll, PollDeadLetter, PollPoison, PollTrade
    <2>2. pos[w][p] \in Nat /\ pos[w][p] < Len(Log[p])
      BY <2>1 DEF Take, Deliverable, TypeOK
    <2>3. /\ <<p, pos[w][p] + 1>>[1] = p
          /\ <<p, pos[w][p] + 1>>[2] = pos[w][p] + 1
      BY <2>2, MessageIntro
    <2>4. /\ owner[p] = w /\ ~Busy(w)
          /\ pos' = [pos EXCEPT ![w][p] = @ + 1]
          /\ cur' = [cur EXCEPT ![w] = <<p, pos[w][p] + 1>>]
          /\ UNCHANGED <<owner, committed>>
      BY <2>1 DEF Take, Deliverable, Busy, Handling, Ack
    <2>5. cur'[w] = <<p, pos[w][p] + 1>>
      BY <2>4 DEF TypeOK
    <2>6. Busy(w)' /\ \A v \in Workers \ {w} : pc'[v] = pc[v]
      BY <2>1 DEF Take, TypeOK, Busy, Handling, Ack
    <2> QED BY <2>3, <2>4, <2>5, <2>6 DEF Fetched
  <1>5. ASSUME NEW w \in Workers, Advance(w)
        PROVE  Quiet(w) \/ Finished(w)
    <2>1. CASE Stage(w) \/ Get(w) \/ ProcessLeg(w) \/ CommitKey(w)
      <3>1. UNCHANGED <<owner, committed, pos, cur>> /\ Busy(w)
        BY <2>1 DEF Stage, Get, ProcessLeg, CommitKey, Busy, Handling
      <3>2. \A v \in Workers \ {w} : pc'[v] = pc[v]
        BY <2>1 DEF Stage, Get, ProcessLeg, CommitKey, Process, TypeOK
      <3>3. Busy(w)'
        BY <2>1 DEF Stage, Get, ProcessLeg, CommitKey, Process, TypeOK, Busy, Handling, Ack
      <3> QED BY <3>1, <3>2, <3>3 DEF Quiet
    <2>2. CASE AckDeadLetter(w) \/ AckSkipped(w) \/ AckTrade(w)
      <3>1. BackToPoll(w) /\ CommitOffset(w) /\ Busy(w) /\ UNCHANGED <<owner, pos>>
        BY <2>2 DEF AckDeadLetter, AckSkipped, AckTrade, Busy, Ack
      <3>2. ~Busy(w)' /\ \A v \in Workers \ {w} : pc'[v] = pc[v] /\ cur'[v] = cur[v]
        BY <3>1 DEF BackToPoll, TypeOK, Busy, Handling, Ack
      <3> QED BY <3>1, <3>2 DEF Finished
    <2> QED BY <1>5, <2>1, <2>2 DEF Advance
  <1>6. ASSUME NEW w \in Workers, Raise(w)
        PROVE  Finished(w)
    <2>1. /\ BackToPoll(w) /\ UNCHANGED <<owner, pos>>
          /\ Busy(w)
          /\ \/ CommitOffset(w)
             \/ /\ UNCHANGED committed
                /\ owner[Part(w)] # w \/ \E k \in {"dispatch", "dedup", "offset"} : Fault(k)
      BY <1>6 DEF Raise, StageFails, LegRaises, CommitKeyFails, AckRaises, AckFenced, Busy, Handling
    <2>2. ~Busy(w)' /\ \A v \in Workers \ {w} : pc'[v] = pc[v] /\ cur'[v] = cur[v]
      BY <2>1 DEF BackToPoll, TypeOK, Busy, Handling, Ack
    <2> QED BY <2>1, <2>2 DEF Finished
  <1>7. ASSUME NEW w \in Workers, Lifecycle(w)
        PROVE  Quiet(w) \/ Finished(w) \/ Moved(w)
    <2>1. CASE Crash(w) \/ Close(w) \/ DrainTimeout(w)
      <3>1. Die(w)
        BY <2>1 DEF Crash, Close, DrainTimeout
      <3>2. ~Busy(w)' /\ \A v \in Workers \ {w} : pc'[v] = pc[v] /\ cur'[v] = cur[v]
        BY <3>1 DEF Die, TypeOK, Busy, Handling, Ack
      <3> QED BY <3>1, <3>2 DEF Finished, Die
    <2>2. CASE RequestShutdown(w)
      BY <2>2 DEF RequestShutdown, Quiet, Busy
    <2>3. CASE Restart(w)
      <3>1. ~Busy(w) /\ ~Busy(w)' /\ \A v \in Workers \ {w} : pc'[v] = pc[v]
        BY <2>3 DEF Restart, TypeOK, Busy, Handling, Ack
      <3> QED BY <2>3, <3>1 DEF Restart, Quiet
    <2>4. CASE PollIntervalExceeded(w)
      BY <2>4 DEF PollIntervalExceeded, Release, Moved
    <2>5. CASE \E p \in Partitions : Assign(w, p)
      BY <2>5 DEF Assign, Moved, Busy, Handling, Ack
    <2>6. CASE \E p \in Partitions : Revoke(w, p)
      <3>1. PICK p \in Partitions : Revoke(w, p)
        BY <2>6
      <3>2. \A q \in Partitions : owner'[q] = owner[q] \/ owner'[q] = Nobody
        BY <3>1 DEF Revoke, TypeOK
      <3> QED BY <3>1, <3>2 DEF Revoke, Moved
    <2> QED BY <1>7, <2>1, <2>2, <2>3, <2>4, <2>5, <2>6 DEF Lifecycle
  <1> QED BY <1>1, <1>2, <1>3, <1>4, <1>5, <1>6, <1>7 DEF Next

\* Every step preserves PosInv.
LEMMA PosStep ==
  ASSUME TypeOK, Shape, PosInv, [Next]_vars
  PROVE  PosInv' /\ \A p \in Partitions : committed'[p] >= committed[p]
  <1>0. /\ committed \in [Partitions -> Nat] /\ pos \in [Workers -> [Partitions -> Nat]]
        /\ owner \in [Partitions -> Workers \cup {Nobody}] /\ cur \in [Workers -> Messages \cup {NoMessage}]
        /\ Nobody \notin Workers
    BY ControlAssumption DEF TypeOK
  <1>1. CASE UNCHANGED <<owner, committed, pos, pc, cur>>
    BY <1>0, <1>1 DEF PosInv, Busy, Part, Offset
  <1>2. ASSUME NEW w \in Workers, Quiet(w)
        PROVE  PosInv' /\ \A p \in Partitions : committed'[p] >= committed[p]
    <2>1. \A v \in Workers : Busy(v)' => Busy(v)
      BY <1>2 DEF Quiet, Busy
    <2> QED BY <1>0, <1>2, <2>1 DEF Quiet, PosInv, Part, Offset
  <1>3. ASSUME NEW w \in Workers, Fetched(w)
        PROVE  PosInv' /\ \A p \in Partitions : committed'[p] >= committed[p]
    <2>1. PICK q \in Partitions :
            /\ owner[q] = w /\ ~Busy(w)
            /\ pos' = [pos EXCEPT ![w][q] = @ + 1]
            /\ cur' = [cur EXCEPT ![w] = <<q, pos[w][q] + 1>>]
            /\ cur'[w][1] = q /\ cur'[w][2] = pos[w][q] + 1
            /\ \A v \in Workers \ {w} : pc'[v] = pc[v]
            /\ UNCHANGED <<owner, committed>>
      BY <1>3 DEF Fetched
    <2>2. ASSUME NEW p \in Partitions, NEW v \in Workers, owner'[p] = v
          PROVE  /\ committed'[p] <= pos'[v][p]
                 /\ Busy(v)' /\ Part(v)' = p => Offset(v)' = pos'[v][p] /\ committed'[p] < Offset(v)'
      <3>1. committed[p] <= pos[v][p]
        BY <2>1, <2>2 DEF PosInv
      <3>2. CASE v = w
        BY <1>0, <2>1, <3>1, <3>2 DEF Part, Offset
      <3>3. CASE v # w
        <4>1. cur'[v] = cur[v] /\ pos'[v][p] = pos[v][p] /\ pc'[v] = pc[v]
          BY <1>0, <2>1, <3>3
        <4>2. Busy(v)' = Busy(v) /\ Part(v)' = Part(v) /\ Offset(v)' = Offset(v)
          BY <4>1 DEF Busy, Part, Offset
        <4> QED BY <2>1, <2>2, <4>1, <4>2 DEF PosInv
      <3> QED BY <3>2, <3>3
    <2> QED BY <1>0, <2>1, <2>2 DEF PosInv
  <1>4. ASSUME NEW w \in Workers, Finished(w)
        PROVE  PosInv' /\ \A p \in Partitions : committed'[p] >= committed[p]
    <2>1. /\ ~Busy(w)'
          /\ \A v \in Workers \ {w} : Busy(v)' = Busy(v) /\ Part(v)' = Part(v) /\ Offset(v)' = Offset(v)
          /\ UNCHANGED pos
      BY <1>4 DEF Finished, Busy, Part, Offset
    <2>2. CASE UNCHANGED committed /\ \A p \in Partitions : owner'[p] = owner[p] \/ owner'[p] = Nobody
      BY <1>0, <2>1, <2>2 DEF PosInv
    <2>3. CASE Busy(w) /\ CommitOffset(w) /\ UNCHANGED owner
      <3>1. Part(w) \in Partitions /\ Offset(w) \in Nat
        BY <2>3, BusyFacts
      <3>2. owner[Part(w)] = w /\ committed' = [committed EXCEPT ![Part(w)] = Offset(w)]
        BY <2>3 DEF CommitOffset
      <3>3. Offset(w) = pos[w][Part(w)] /\ committed[Part(w)] < Offset(w)
        BY <2>3, <3>1, <3>2 DEF PosInv
      <3>4. \A p \in Partitions : committed'[p] = IF p = Part(w) THEN Offset(w) ELSE committed[p]
        BY <1>0, <3>2
      <3> QED BY <1>0, <2>1, <2>3, <3>1, <3>2, <3>3, <3>4 DEF PosInv
    <2> QED BY <1>4, <2>2, <2>3 DEF Finished, Release
  <1>5. ASSUME NEW w \in Workers, Moved(w)
        PROVE  PosInv' /\ \A p \in Partitions : committed'[p] >= committed[p]
    <2>1. /\ \A v \in Workers : Busy(v)' = Busy(v) /\ Part(v)' = Part(v) /\ Offset(v)' = Offset(v)
          /\ UNCHANGED committed
      BY <1>5 DEF Moved, Busy, Part, Offset
    <2>2. CASE UNCHANGED pos /\ \A p \in Partitions : owner'[p] = owner[p] \/ owner'[p] = Nobody
      BY <1>0, <2>1, <2>2 DEF PosInv
    <2>3. CASE \E p \in Partitions :
                 /\ owner[p] = Nobody /\ ~Busy(w)
                 /\ owner' = [owner EXCEPT ![p] = w]
                 /\ pos' = [pos EXCEPT ![w][p] = committed[p]]
      BY <1>0, <2>1, <2>3 DEF PosInv
    <2> QED BY <1>5, <2>2, <2>3 DEF Moved
  <1> QED BY <1>1, <1>2, <1>3, <1>4, <1>5, StepKinds

\* The committed offset of a partition never goes back, whatever workers that
\* have lost the partition still try to commit.
THEOREM OffsetMonotone == Spec => OffsetNeverMovesBack
  <1>1. Init => TypeOK /\ Shape /\ PosInv
    <2>1. Init => PosInv
      BY ControlAssumption DEF Init, PosInv
    <2> QED BY <2>1, InitShape
  <1>2. TypeOK /\ Shape /\ PosInv /\ [Next]_vars => TypeOK' /\ Shape' /\ PosInv'
    BY TypeStep, PosStep
  <1>3. TypeOK /\ Shape /\ PosInv /\ [Next]_vars
          => [\A p \in Partitions : committed'[p] >= committed[p]]_committed
    BY PosStep
  <1> QED BY <1>1, <1>2, <1>3, PTL DEF Spec, OffsetNeverMovesBack

------------------------------------------------------------------------------
(* No message is lost *)

\* The exceptions after which run() polls past a message it has not processed.
SkippingFaults == {"dispatch", "dedup"}

\* NoSilentLoss made inductive: a member has settled every message it was
\* given of a partition it owns, except the one it is working on.
LossInv ==
  /\ NoSilentLoss
  /\ \A p \in Partitions, w \in Workers :
       owner[p] = w =>
         /\ pos[w][p] <= Len(Log[p])
         /\ \A o \in 1 .. pos[w][p] :
              Settled(p, o) \/ (Busy(w) /\ Part(w) = p /\ Offset(w) = o)

\* What has been settled stays settled.
LEMMA SettledStays ==
  ASSUME TypeOK, Shape, [Next]_vars,
         NEW p \in Partitions, NEW o \in 1 .. Len(Log[p]), Settled(p, o)
  PROVE  Settled(p, o)'
  <1>1. Log[p][o] \in Trades \cup {Poison}
    BY LogAssumption
  <1>2. CASE UNCHANGED handled
    BY <1>2 DEF Settled
  <1>3. ASSUME NEW w \in Workers, ProcessLeg(w)
        PROVE  Settled(p, o)'
    <2>0. leg[w] \in 0 .. 1 /\ Trade(w) \in Trades
      BY <1>3 DEF ProcessLeg, Shape, TypeOK, Handling
    <2>1. leg[w] + 1 \in Legs
      BY <2>0 DEF Legs
    <2>2. \A t \in Trades : handled[t] = Legs => handled'[t] = Legs
      BY <1>3, <2>1 DEF ProcessLeg, TypeOK
    <2> QED BY <1>1, <2>2 DEF Settled
  <1>4. UNCHANGED handled \/ \E w \in Workers : ProcessLeg(w)
    <2>1. ASSUME NEW w \in Workers, Poll(w) \/ PollNothing(w)
          PROVE  UNCHANGED handled
      BY <2>1 DEF Poll, PollDeadLetter, PollPoison, PollTrade, Take, PollNothing, vars
    <2>2. ASSUME NEW w \in Workers, Advance(w), ~ProcessLeg(w)
          PROVE  UNCHANGED handled
      BY <2>2 DEF Advance, Stage, Get, CommitKey, AckDeadLetter, AckSkipped, AckTrade
    <2>3. ASSUME NEW w \in Workers, Raise(w)
          PROVE  UNCHANGED handled
      BY <2>3 DEF Raise, StageFails, LegRaises, CommitKeyFails, AckRaises, AckFenced
    <2>4. ASSUME NEW w \in Workers, Lifecycle(w)
          PROVE  UNCHANGED handled
      BY <2>4 DEF Lifecycle, Crash, RequestShutdown, Close, DrainTimeout, Restart,
                  PollIntervalExceeded, Assign, Revoke, Die
    <2>5. ASSUME NEW t \in Trades, ExpireKey(t)
          PROVE  UNCHANGED handled
      BY <2>5 DEF ExpireKey
    <2> QED BY <2>1, <2>2, <2>3, <2>4, <2>5 DEF Next, vars
  <1> QED BY <1>2, <1>3, <1>4

\* A step is a fault of one kind, which is counted, or no fault.
LEMMA FaultKindOfStep ==
  ASSUME [Next]_vars
  PROVE  UNCHANGED faults \/ \E k \in FaultKinds : Fault(k)
  <1> USE DEF FaultKinds
  <1>1. ASSUME NEW w \in Workers, Poll(w) \/ PollNothing(w)
        PROVE  UNCHANGED faults
    BY <1>1 DEF Poll, PollDeadLetter, PollPoison, PollTrade, Take, PollNothing, vars
  <1>2. ASSUME NEW w \in Workers, Advance(w)
        PROVE  UNCHANGED faults
    BY <1>2 DEF Advance, Stage, Get, ProcessLeg, CommitKey, AckDeadLetter, AckSkipped, AckTrade
  <1>3. ASSUME NEW w \in Workers, Raise(w)
        PROVE  UNCHANGED faults \/ \E k \in FaultKinds : Fault(k)
    BY <1>3 DEF Raise, StageFails, LegRaises, CommitKeyFails, AckRaises, AckFenced
  <1>4. ASSUME NEW w \in Workers, Lifecycle(w)
        PROVE  UNCHANGED faults \/ \E k \in FaultKinds : Fault(k)
    BY <1>4 DEF Lifecycle, Crash, RequestShutdown, Close, DrainTimeout, Restart,
                PollIntervalExceeded, Assign, Revoke
  <1>5. ASSUME NEW t \in Trades, ExpireKey(t)
        PROVE  Fault("expire")
    BY <1>5 DEF ExpireKey
  <1> QED BY <1>1, <1>2, <1>3, <1>4, <1>5 DEF Next, vars

\* So a fault that has not happened yet had not happened before the step.
LEMMA FaultsAreRemembered ==
  ASSUME TypeOK, [Next]_vars, NEW kinds \in SUBSET FaultKinds, None(kinds)'
  PROVE  None(kinds)
  <1>1. ASSUME NEW k \in FaultKinds, Fault(k)
        PROVE  None(kinds)
    BY <1>1 DEF Fault, None, TypeOK
  <1>2. CASE UNCHANGED faults
    BY <1>2 DEF None
  <1> QED BY <1>1, <1>2, FaultKindOfStep

LEMMA SkippingIsRemembered ==
  ASSUME TypeOK, [Next]_vars, None(SkippingFaults)'
  PROVE  None(SkippingFaults)
  <1>1. SkippingFaults \in SUBSET FaultKinds
    BY DEF SkippingFaults, FaultKinds
  <1> QED BY <1>1, FaultsAreRemembered

\* Without skipping faults, a member that ends its work on a message of a
\* partition it keeps has settled that message.
LEMMA FinishSettles ==
  ASSUME None(SkippingFaults)', TypeOK, Shape, KeyInv, [Next]_vars,
         NEW w \in Workers, Busy(w), ~Busy(w)', owner'[Part(w)] = w
  PROVE  Settled(Part(w), Offset(w))
  <1> USE DEF brokerVars, controlVars
  <1>0. Part(w) \in Partitions /\ w # Nobody
    BY BusyFacts, ControlAssumption
  <1>1. pc[w] \in Ack => Settled(Part(w), Offset(w))
    BY DEF Ack, Settled, Shape, KeyInv, Trade
  <1>2. pc'[w] # pc[w]
    BY DEF Busy
  <1>3. CASE \E v \in Workers : Poll(v)
    <2>1. PICK v \in Workers, p \in Partitions, next \in {"ackDeadLetter", "ackPoison", "stage"} :
            Take(v, p, next)
      BY <1>3 DEF Poll, PollDeadLetter, PollPoison, PollTrade
    <2>2. v = w
      BY <1>2, <2>1 DEF Take, TypeOK
    <2> QED BY <2>1, <2>2 DEF Take, Deliverable, Busy, Handling, Ack
  <1>4. ASSUME NEW v \in Workers, Advance(v)
        PROVE  Settled(Part(w), Offset(w))
    <2>1. CASE Stage(v) \/ Get(v) \/ ProcessLeg(v) \/ CommitKey(v)
      <3>1. pc' = [pc EXCEPT ![v] = pc'[v]] /\ pc'[v] \in Handling \cup Ack
        BY <2>1 DEF Stage, Get, ProcessLeg, CommitKey, Process, TypeOK, Handling, Ack
      <3>2. v = w
        BY <1>2, <3>1 DEF TypeOK
      <3> QED BY <3>1, <3>2 DEF Busy
    <2>2. CASE AckDeadLetter(v) \/ AckSkipped(v) \/ AckTrade(v)
      <3>1. BackToPoll(v) /\ pc[v] \in Ack
        BY <2>2 DEF AckDeadLetter, AckSkipped, AckTrade, Ack
      <3>2. v = w
        BY <1>2, <3>1 DEF BackToPoll, TypeOK
      <3> QED BY <1>1, <3>1, <3>2
    <2> QED BY <1>4, <2>1, <2>2 DEF Advance
  <1>5. ASSUME NEW v \in Workers, Raise(v)
        PROVE  Settled(Part(w), Offset(w))
    <2>1. ~StageFails(v) /\ ~LegRaises(v) /\ ~CommitKeyFails(v)
      <3>1. ASSUME NEW k \in SkippingFaults
            PROVE  ~Fault(k)
        BY DEF Fault, None, SkippingFaults, TypeOK, FaultKinds
      <3>2. ~Fault("dispatch") /\ ~Fault("dedup")
        BY <3>1 DEF SkippingFaults
      <3> QED BY <3>2 DEF StageFails, LegRaises, CommitKeyFails
    <2>2. BackToPoll(v) /\ pc[v] \in Ack
      BY <1>5, <2>1 DEF Raise, AckRaises, AckFenced
    <2>3. v = w
      BY <1>2, <2>2 DEF BackToPoll, TypeOK
    <2> QED BY <1>1, <2>2, <2>3
  <1>6. ASSUME NEW v \in Workers, Lifecycle(v)
        PROVE  Settled(Part(w), Offset(w))
    <2>1. CASE Crash(v) \/ Close(v) \/ DrainTimeout(v)
      <3>1. Die(v)
        BY <2>1 DEF Crash, Close, DrainTimeout
      <3>2. v = w
        BY <1>2, <3>1 DEF Die, TypeOK
      <3>3. owner'[Part(w)] # w
        BY <1>0, <3>1, <3>2 DEF Die, Release
      <3> QED BY <3>3
    <2>2. CASE Restart(v)
      <3>1. v = w /\ pc[v] = "down"
        BY <1>2, <2>2 DEF Restart, TypeOK
      <3> QED BY <3>1 DEF Busy, Handling, Ack
    <2>3. CASE ~(Crash(v) \/ Close(v) \/ DrainTimeout(v) \/ Restart(v))
      <3>1. UNCHANGED pc
        BY <1>6, <2>3 DEF Lifecycle, RequestShutdown, PollIntervalExceeded, Assign, Revoke
      <3> QED BY <1>2, <3>1
    <2> QED BY <2>1, <2>2, <2>3
  <1>7. CASE UNCHANGED pc
    BY <1>2, <1>7
  <1>8. UNCHANGED pc \/ \E v \in Workers : Poll(v) \/ Advance(v) \/ Raise(v) \/ Lifecycle(v)
    BY DEF Next, PollNothing, ExpireKey, vars
  <1> QED BY <1>3, <1>4, <1>5, <1>6, <1>7, <1>8

\* Every step preserves LossInv.
LEMMA LossStep ==
  ASSUME None(SkippingFaults)', TypeOK, Shape, KeyInv, PosInv, LossInv, [Next]_vars
  PROVE  LossInv'
  <1>0. /\ committed \in [Partitions -> Nat] /\ pos \in [Workers -> [Partitions -> Nat]]
        /\ owner \in [Partitions -> Workers \cup {Nobody}] /\ cur \in [Workers -> Messages \cup {NoMessage}]
        /\ Nobody \notin Workers
        /\ \A p \in Partitions : Len(Log[p]) \in Nat /\ committed[p] <= Len(Log[p])
    BY ControlAssumption, LogAssumption DEF TypeOK
  <1>1. \A p \in Partitions : \A o \in 1 .. committed[p] : Settled(p, o)'
    <2> SUFFICES ASSUME NEW p \in Partitions, NEW o \in 1 .. committed[p]
                 PROVE  Settled(p, o)'
      OBVIOUS
    <2>1. Settled(p, o) /\ o \in 1 .. Len(Log[p])
      BY <1>0 DEF LossInv, NoSilentLoss
    <2> QED BY <2>1, SettledStays
  <1>2. ASSUME NEW p \in Partitions, NEW v \in Workers, owner[p] = v, NEW o \in 1 .. pos[v][p],
               ~(Busy(v) /\ Part(v) = p /\ Offset(v) = o)
        PROVE  Settled(p, o)'
    <2>1. Settled(p, o) /\ pos[v][p] <= Len(Log[p])
      BY <1>2 DEF LossInv
    <2>2. o \in 1 .. Len(Log[p])
      BY <1>0, <2>1
    <2> QED BY <2>1, <2>2, SettledStays
  <1>3. CASE UNCHANGED <<owner, committed, pos, pc, cur>>
    <2>1. \A v \in Workers : Busy(v)' = Busy(v) /\ Part(v)' = Part(v) /\ Offset(v)' = Offset(v)
      BY <1>3 DEF Busy, Part, Offset
    <2> QED BY <1>1, <1>2, <1>3, <2>1 DEF LossInv, NoSilentLoss
  <1>4. ASSUME NEW w \in Workers, Quiet(w)
        PROVE  LossInv'
    <2>1. \A v \in Workers : Part(v)' = Part(v) /\ Offset(v)' = Offset(v)
      BY <1>4 DEF Quiet, Part, Offset
    <2>2. ASSUME NEW p \in Partitions, NEW v \in Workers, owner'[p] = v
          PROVE  /\ pos'[v][p] <= Len(Log[p])
                 /\ \A o \in 1 .. pos'[v][p] :
                      Settled(p, o)' \/ (Busy(v)' /\ Part(v)' = p /\ Offset(v)' = o)
      <3>1. owner[p] = v /\ pos' = pos
        BY <1>4, <2>2 DEF Quiet
      <3>2. pos[v][p] <= Len(Log[p])
        BY <3>1 DEF LossInv
      <3>3. ASSUME NEW o \in 1 .. pos[v][p], ~(Busy(v)' /\ Part(v)' = p /\ Offset(v)' = o)
            PROVE  Settled(p, o)'
        <4>1. CASE ~(Busy(v) /\ Part(v) = p /\ Offset(v) = o)
          BY <1>2, <3>1, <4>1
        <4>2. CASE Busy(v) /\ Part(v) = p /\ Offset(v) = o
          <5>1. ~Busy(v)'
            BY <2>1, <3>3, <4>2
          <5>2. Settled(Part(v), Offset(v))
            BY <2>2, <4>2, <5>1, FinishSettles
          <5>3. o \in 1 .. Len(Log[p])
            BY <1>0, <3>2
          <5> QED BY <4>2, <5>2, <5>3, SettledStays
        <4> QED BY <4>1, <4>2
      <3> QED BY <3>1, <3>2, <3>3
    <2> QED BY <1>1, <1>4, <2>2 DEF LossInv, NoSilentLoss, Quiet
  <1>5. ASSUME NEW w \in Workers, Fetched(w)
        PROVE  LossInv'
    <2>1. PICK q \in Partitions :
            /\ owner[q] = w /\ ~Busy(w)
            /\ pos' = [pos EXCEPT ![w][q] = @ + 1]
            /\ cur' = [cur EXCEPT ![w] = <<q, pos[w][q] + 1>>]
            /\ cur'[w][1] = q /\ cur'[w][2] = pos[w][q] + 1
            /\ Busy(w)'
            /\ \A v \in Workers \ {w} : pc'[v] = pc[v]
            /\ UNCHANGED <<owner, committed>>
      BY <1>5 DEF Fetched
    <2>2. ASSUME NEW p \in Partitions, NEW v \in Workers, owner'[p] = v
          PROVE  /\ pos'[v][p] <= Len(Log[p])
                 /\ \A o \in 1 .. pos'[v][p] :
                      Settled(p, o)' \/ (Busy(v)' /\ Part(v)' = p /\ Offset(v)' = o)
      <3>0. owner[p] = v /\ pos[v][p] \in Nat
        BY <1>0, <2>1, <2>2
      <3>1. CASE v = w /\ p = q
        <4>1. pos'[v][p] = pos[v][p] + 1 /\ Part(v)' = p /\ Offset(v)' = pos[v][p] + 1 /\ Busy(v)'
          BY <1>0, <2>1, <3>1 DEF Part, Offset
        <4>2. cur'[v] \in Messages
          <5>1. Shape'
            BY TypeStep
          <5> QED BY <4>1, <5>1 DEF Shape
        <4>3. Offset(v)' \in 1 .. Len(Log[p])
          BY <4>1, <4>2, MessageFacts DEF Part, Offset
        <4>4. \A o \in 1 .. pos[v][p] : Settled(p, o)'
          BY <1>2, <2>1, <3>0, <3>1
        <4> QED BY <1>0, <3>0, <4>1, <4>3, <4>4
      <3>2. CASE v = w /\ p # q
        <4>1. pos'[v][p] = pos[v][p] /\ pos[v][p] <= Len(Log[p])
          BY <1>0, <2>1, <3>0, <3>2 DEF LossInv
        <4> QED BY <1>2, <2>1, <3>0, <3>2, <4>1
      <3>3. CASE v # w
        <4>1. cur'[v] = cur[v] /\ pos'[v][p] = pos[v][p] /\ pc'[v] = pc[v]
          BY <1>0, <2>1, <3>3
        <4>2. Busy(v)' = Busy(v) /\ Part(v)' = Part(v) /\ Offset(v)' = Offset(v)
          BY <4>1 DEF Busy, Part, Offset
        <4>3. pos[v][p] <= Len(Log[p])
          BY <3>0 DEF LossInv
        <4> QED BY <1>2, <3>0, <4>1, <4>2, <4>3
      <3> QED BY <3>1, <3>2, <3>3
    <2> QED BY <1>1, <2>1, <2>2 DEF LossInv, NoSilentLoss
  <1>6. ASSUME NEW w \in Workers, Finished(w)
        PROVE  LossInv'
    <2>1. /\ ~Busy(w)'
          /\ \A v \in Workers \ {w} : Busy(v)' = Busy(v) /\ Part(v)' = Part(v) /\ Offset(v)' = Offset(v)
          /\ UNCHANGED pos
      BY <1>6 DEF Finished, Busy, Part, Offset
    <2>2. \A p \in Partitions : owner'[p] = owner[p] \/ owner'[p] = Nobody
      BY <1>6 DEF Finished, Release
    <2>3. ASSUME NEW p \in Partitions, NEW v \in Workers, owner'[p] = v
          PROVE  /\ owner[p] = v /\ pos'[v][p] = pos[v][p] /\ pos[v][p] <= Len(Log[p])
                 /\ \A o \in 1 .. pos[v][p] :
                      Settled(p, o)' \/ (Busy(v)' /\ Part(v)' = p /\ Offset(v)' = o)
      <3>1. owner[p] = v /\ pos'[v][p] = pos[v][p]
        BY <1>0, <2>1, <2>2, <2>3
      <3>2. pos[v][p] <= Len(Log[p])
        BY <3>1 DEF LossInv
      <3>3. ASSUME NEW o \in 1 .. pos[v][p], Busy(v), Part(v) = p, Offset(v) = o, v = w
            PROVE  Settled(p, o)'
        <4>1. Settled(Part(w), Offset(w))
          BY <2>1, <2>3, <3>3, FinishSettles
        <4>2. o \in 1 .. Len(Log[p])
          BY <1>0, <3>2
        <4> QED BY <3>3, <4>1, <4>2, SettledStays
      <3> QED BY <1>2, <2>1, <3>1, <3>2, <3>3
    <2>4. NoSilentLoss'
      <3>1. CASE UNCHANGED committed
        BY <1>1, <3>1 DEF NoSilentLoss
      <3>2. CASE Busy(w) /\ CommitOffset(w) /\ UNCHANGED owner
        <4>1. Part(w) \in Partitions /\ Offset(w) \in Nat /\ owner[Part(w)] = w
          BY <3>2, BusyFacts DEF CommitOffset
        <4>2. PICK q \in Partitions, n \in Nat : q = Part(w) /\ n = Offset(w)
          BY <4>1
        <4>3. n = pos[w][q] /\ owner'[q] = w
          BY <3>2, <4>1, <4>2 DEF PosInv
        <4>4. \A o \in 1 .. n : Settled(q, o)'
          BY <2>1, <2>3, <4>3
        <4>5. \A p \in Partitions : committed'[p] = IF p = q THEN n ELSE committed[p]
          BY <1>0, <3>2, <4>2 DEF CommitOffset
        <4> QED BY <1>1, <4>4, <4>5 DEF NoSilentLoss
      <3> QED BY <1>6, <3>1, <3>2 DEF Finished
    <2> QED BY <2>3, <2>4 DEF LossInv
  <1>7. ASSUME NEW w \in Workers, Moved(w)
        PROVE  LossInv'
    <2>1. /\ \A v \in Workers : Busy(v)' = Busy(v) /\ Part(v)' = Part(v) /\ Offset(v)' = Offset(v)
          /\ UNCHANGED committed
      BY <1>7 DEF Moved, Busy, Part, Offset
    <2>2. NoSilentLoss'
      BY <1>1, <2>1 DEF NoSilentLoss
    <2>3. CASE UNCHANGED pos /\ \A p \in Partitions : owner'[p] = owner[p] \/ owner'[p] = Nobody
      <3>1. ASSUME NEW p \in Partitions, NEW v \in Workers, owner'[p] = v
            PROVE  owner[p] = v /\ pos[v][p] <= Len(Log[p])
        BY <1>0, <2>3, <3>1 DEF LossInv
      <3> QED BY <1>2, <2>1, <2>2, <2>3, <3>1 DEF LossInv
    <2>4. CASE \E p \in Partitions :
                 /\ owner[p] = Nobody /\ ~Busy(w)
                 /\ owner' = [owner EXCEPT ![p] = w]
                 /\ pos' = [pos EXCEPT ![w][p] = committed[p]]
      <3>1. PICK q \in Partitions :
                 /\ owner[q] = Nobody /\ ~Busy(w)
                 /\ owner' = [owner EXCEPT ![q] = w]
                 /\ pos' = [pos EXCEPT ![w][q] = committed[q]]
        BY <2>4
      <3>2. ASSUME NEW p \in Partitions, NEW v \in Workers, owner'[p] = v
            PROVE  /\ pos'[v][p] <= Len(Log[p])
                   /\ \A o \in 1 .. pos'[v][p] :
                        Settled(p, o)' \/ (Busy(v)' /\ Part(v)' = p /\ Offset(v)' = o)
        <4>1. CASE p = q
          <5>1. v = w /\ pos'[v][p] = committed[p]
            BY <1>0, <3>1, <3>2, <4>1
          <5> QED BY <1>0, <1>1, <5>1
        <4>2. CASE p # q
          <5>1. owner[p] = v /\ pos'[v][p] = pos[v][p]
            BY <1>0, <3>1, <3>2, <4>2
          <5>2. pos[v][p] <= Len(Log[p])
            BY <5>1 DEF LossInv
          <5> QED BY <1>2, <2>1, <5>1, <5>2
        <4> QED BY <4>1, <4>2
      <3> QED BY <2>2, <3>2 DEF LossInv
    <2> QED BY <1>7, <2>3, <2>4 DEF Moved
  <1> QED BY <1>3, <1>4, <1>5, <1>6, <1>7, StepKinds

\* As long as neither dispatch nor the dedup backend raises, no crash, restart,
\* shutdown, rebalance, key expiry or failed offset commit ever puts the
\* committed offset past a trade with an unprocessed wallet.
THEOREM NoMessageLost == Spec => []NoLossWithoutSkipping
  <1> DEFINE Guarded == None(SkippingFaults) => LossInv
  <1>1. Init => TypeOK /\ Shape /\ KeyInv /\ PosInv /\ Guarded
    <2>1. Init => KeyInv /\ PosInv /\ LossInv
      BY ControlAssumption DEF Init, KeyInv, CommittedMeansHandled, PosInv, LossInv, NoSilentLoss
    <2> QED BY <2>1, InitShape
  <1>2. TypeOK /\ Shape /\ KeyInv /\ PosInv /\ Guarded /\ [Next]_vars
          => TypeOK' /\ Shape' /\ KeyInv' /\ PosInv' /\ Guarded'
    BY TypeStep, KeyStep, PosStep, LossStep, SkippingIsRemembered
  <1>3. Guarded => NoLossWithoutSkipping
    BY DEF LossInv, NoLossWithoutSkipping, SkippingFaults
  <1> QED BY <1>1, <1>2, <1>3, PTL DEF Spec

------------------------------------------------------------------------------
(* One member per trade *)

\* A member is only ever at work on a partition it owns.
OwnInv == \A w \in Workers : Busy(w) => owner[Part(w)] = w

\* No message of a dead-letter topic gets past the poll.
ForwardInv == \A w \in Workers : pc[w] \in Handling => Part(w) \notin DeadLetter

\* While a trade's wallets are scored and dispatched, its key is not COMMITTED.
LegsInv == \A w \in Workers : pc[w] = "legs" => key[Trade(w)] # "committed"

\* Every step in which no partition is taken from a live member preserves OwnInv.
LEMMA OwnStep ==
  ASSUME TypeOK, Shape, OwnInv, [Next]_vars, ~Fault("rebalance")
  PROVE  OwnInv'
  <1>0. /\ owner \in [Partitions -> Workers \cup {Nobody}]
        /\ cur \in [Workers -> Messages \cup {NoMessage}]
        /\ Nobody \notin Workers
        /\ \A w \in Workers : Busy(w) => Part(w) \in Partitions
    BY ControlAssumption, BusyFacts DEF TypeOK
  <1>1. CASE UNCHANGED <<owner, committed, pos, pc, cur>>
    BY <1>1 DEF OwnInv, Busy, Part
  <1>2. ASSUME NEW w \in Workers, Quiet(w)
        PROVE  OwnInv'
    BY <1>2 DEF Quiet, OwnInv, Busy, Part
  <1>3. ASSUME NEW w \in Workers, Fetched(w)
        PROVE  OwnInv'
    <2>1. /\ UNCHANGED owner /\ owner[cur'[w][1]] = w
          /\ \A v \in Workers \ {w} : pc'[v] = pc[v] /\ cur'[v] = cur[v]
      BY <1>0, <1>3 DEF Fetched
    <2> QED BY <2>1 DEF OwnInv, Busy, Part
  <1>4. ASSUME NEW w \in Workers, Finished(w)
        PROVE  OwnInv'
    <2>1. /\ ~Busy(w)'
          /\ \A v \in Workers \ {w} : pc'[v] = pc[v] /\ cur'[v] = cur[v]
          /\ \A p \in Partitions : owner[p] # w => owner'[p] = owner[p]
      BY <1>4 DEF Finished, Release
    <2> QED BY <1>0, <2>1 DEF OwnInv, Busy, Part
  <1>5. ASSUME NEW w \in Workers, Moved(w)
        PROVE  OwnInv'
    <2>1. /\ UNCHANGED <<pc, cur>>
          /\ \A p \in Partitions : owner[p] # Nobody => owner'[p] = owner[p]
      BY <1>0, <1>5 DEF Moved
    <2> QED BY <1>0, <2>1 DEF OwnInv, Busy, Part
  <1> QED BY <1>1, <1>2, <1>3, <1>4, <1>5, StepKinds

\* A member that is past the poll with a message was past it before, with the
\* same message, or has just polled a trade.
LEMMA HandlingKinds ==
  ASSUME TypeOK, Shape, [Next]_vars, NEW w \in Workers, pc'[w] \in Handling
  PROVE  \/ pc[w] \in Handling /\ cur'[w] = cur[w]
         \/ \E p \in Partitions : PollTrade(w, p)
  <1>1. CASE UNCHANGED <<pc, cur>>
    BY <1>1
  <1>2. ASSUME NEW v \in Workers, Poll(v)
        PROVE  \/ pc[w] \in Handling /\ cur'[w] = cur[w]
               \/ \E p \in Partitions : PollTrade(w, p)
    BY <1>2 DEF Poll, PollDeadLetter, PollPoison, PollTrade, Take, TypeOK, Handling
  <1>3. ASSUME NEW v \in Workers, Advance(v)
        PROVE  pc[w] \in Handling /\ cur'[w] = cur[w]
    <2>1. CASE Stage(v) \/ Get(v) \/ ProcessLeg(v) \/ CommitKey(v)
      BY <2>1 DEF Stage, Get, ProcessLeg, CommitKey, Process, TypeOK, Handling
    <2>2. CASE AckDeadLetter(v) \/ AckSkipped(v) \/ AckTrade(v)
      <3>1. BackToPoll(v)
        BY <2>2 DEF AckDeadLetter, AckSkipped, AckTrade
      <3> QED BY <3>1 DEF BackToPoll, TypeOK, Handling
    <2> QED BY <1>3, <2>1, <2>2 DEF Advance
  <1>4. ASSUME NEW v \in Workers, Raise(v)
        PROVE  pc[w] \in Handling /\ cur'[w] = cur[w]
    <2>1. BackToPoll(v)
      BY <1>4 DEF Raise, StageFails, LegRaises, CommitKeyFails, AckRaises, AckFenced
    <2> QED BY <2>1 DEF BackToPoll, TypeOK, Handling
  <1>5. ASSUME NEW v \in Workers, Lifecycle(v)
        PROVE  pc[w] \in Handling /\ cur'[w] = cur[w]
    <2>1. CASE Crash(v) \/ Close(v) \/ DrainTimeout(v)
      BY <2>1 DEF Crash, Close, DrainTimeout, Die, TypeOK, Handling
    <2>2. CASE Restart(v)
      BY <2>2 DEF Restart, TypeOK, Handling
    <2>3. CASE ~(Crash(v) \/ Close(v) \/ DrainTimeout(v) \/ Restart(v))
      BY <1>1, <1>5, <2>3 DEF Lifecycle, RequestShutdown, PollIntervalExceeded, Assign, Revoke
    <2> QED BY <2>1, <2>2, <2>3
  <1> QED BY <1>1, <1>2, <1>3, <1>4, <1>5 DEF Next, PollNothing, ExpireKey, vars

\* Every step preserves ForwardInv.
LEMMA ForwardStep ==
  ASSUME TypeOK, Shape, ForwardInv, [Next]_vars
  PROVE  ForwardInv'
  <1> SUFFICES ASSUME NEW w \in Workers, pc'[w] \in Handling
               PROVE  Part(w)' \notin DeadLetter
    BY DEF ForwardInv
  <1>1. CASE pc[w] \in Handling /\ cur'[w] = cur[w]
    BY <1>1 DEF ForwardInv, Part
  <1>2. ASSUME NEW p \in Partitions, PollTrade(w, p)
        PROVE  Part(w)' \notin DeadLetter
    <2>1. Take(w, p, "stage") /\ p \notin DeadLetter
      BY <1>2 DEF PollTrade, Enter
    <2>2. pos[w][p] \in Nat /\ pos[w][p] < Len(Log[p])
      BY <2>1 DEF Take, Deliverable, TypeOK
    <2>3. cur'[w] = <<p, pos[w][p] + 1>>
      BY <2>1 DEF Take, TypeOK
    <2> QED BY <2>1, <2>2, <2>3, MessageIntro DEF Part
  <1> QED BY <1>1, <1>2, HandlingKinds

\* Two members at work on the same trade are the same member: its copies are
\* all in one partition, and that partition has one owner.
LEMMA OneMember ==
  ASSUME TypeOK, Shape, OwnInv, ForwardInv,
         NEW v \in Workers, NEW w \in Workers,
         pc[v] \in Handling, pc[w] \in Handling, Trade(v) = Trade(w)
  PROVE  v = w
  <1>1. Busy(v) /\ Busy(w)
    BY DEF Busy
  <1>2. /\ Part(v) \in Partitions \ DeadLetter /\ Offset(v) \in 1 .. Len(Log[Part(v)])
        /\ Part(w) \in Partitions \ DeadLetter /\ Offset(w) \in 1 .. Len(Log[Part(w)])
    BY <1>1, BusyFacts DEF ForwardInv
  <1>3. Trade(v) \in Trades
    BY DEF Shape
  <1>4. Part(v) = Part(w)
    BY <1>2, <1>3, KeyedAssumption DEF Trade
  <1> QED BY <1>1, <1>4 DEF OwnInv

\* A key becomes COMMITTED by the commit of a member at work on its trade, which
\* is then past it.
LEMMA KeyCommits ==
  ASSUME TypeOK, Shape, [Next]_vars, NEW t \in Trades, key'[t] = "committed"
  PROVE  \/ key[t] = "committed"
         \/ \E v \in Workers : pc[v] = "commitKey" /\ pc'[v] # "legs" /\ Trade(v) = t
  <1> USE DEF brokerVars, controlVars
  <1>1. CASE UNCHANGED key
    BY <1>1
  <1>2. ASSUME NEW v \in Workers, Poll(v)
        PROVE  UNCHANGED key
    BY <1>2 DEF Poll, PollDeadLetter, PollPoison, PollTrade, Take
  <1>3. ASSUME NEW v \in Workers, Stage(v) \/ StageFails(v)
        PROVE  key[t] = "committed"
    BY <1>3 DEF Stage, StageFails, TypeOK
  <1>4. ASSUME NEW v \in Workers, CommitKey(v) \/ CommitKeyFails(v)
        PROVE  \/ key[t] = "committed"
               \/ pc[v] = "commitKey" /\ pc'[v] # "legs" /\ Trade(v) = t
    BY <1>4 DEF CommitKey, CommitKeyFails, BackToPoll, TypeOK
  <1>5. ASSUME NEW v \in Workers,
               Get(v) \/ ProcessLeg(v) \/ AckDeadLetter(v) \/ AckSkipped(v) \/ AckTrade(v)
        PROVE  UNCHANGED key
    BY <1>5 DEF Get, ProcessLeg, AckDeadLetter, AckSkipped, AckTrade
  <1>6. ASSUME NEW v \in Workers, LegRaises(v) \/ AckRaises(v) \/ AckFenced(v)
        PROVE  UNCHANGED key
    BY <1>6 DEF LegRaises, AckRaises, AckFenced
  <1>7. ASSUME NEW v \in Workers, Lifecycle(v)
        PROVE  UNCHANGED key
    BY <1>7 DEF Lifecycle, Crash, RequestShutdown, Close, DrainTimeout, Restart,
                PollIntervalExceeded, Assign, Revoke, Die
  <1>8. ASSUME NEW u \in Trades, ExpireKey(u)
        PROVE  key[t] = "committed"
    BY <1>8 DEF ExpireKey, TypeOK
  <1> QED BY <1>1, <1>2, <1>3, <1>4, <1>5, <1>6, <1>7, <1>8
          DEF Next, Advance, Raise, PollNothing, vars

\* A member that is at a trade's wallets was there before, or its key allowed it.
LEMMA LegsKinds ==
  ASSUME TypeOK, Shape, [Next]_vars, NEW w \in Workers, pc'[w] = "legs"
  PROVE  /\ cur'[w] = cur[w]
         /\ pc[w] = "legs" \/ (pc[w] \in Handling \ {"commitKey"} /\ key[Trade(w)] # "committed")
  <1>1. pc[w] \in Handling /\ cur'[w] = cur[w]
    <2>1. \A p \in Partitions : ~PollTrade(w, p)
      BY DEF PollTrade, Take, TypeOK
    <2> QED BY <2>1, HandlingKinds DEF Handling
  <1>2. CASE UNCHANGED pc
    BY <1>1, <1>2
  <1>3. ASSUME NEW v \in Workers, Poll(v)
        PROVE  pc[w] = "legs"
    BY <1>3 DEF Poll, PollDeadLetter, PollPoison, PollTrade, Take, TypeOK
  <1>4. ASSUME NEW v \in Workers, Advance(v)
        PROVE  pc[w] = "legs" \/ (pc[w] \in Handling \ {"commitKey"} /\ key[Trade(w)] # "committed")
    <2>1. CASE Stage(v)
      BY <2>1 DEF Stage, Process, TypeOK, Handling
    <2>2. CASE Get(v)
      BY <2>2 DEF Get, Process, TypeOK, Handling
    <2>3. CASE ProcessLeg(v) \/ CommitKey(v)
      BY <2>3 DEF ProcessLeg, CommitKey, TypeOK
    <2>4. CASE AckDeadLetter(v) \/ AckSkipped(v) \/ AckTrade(v)
      <3>1. BackToPoll(v)
        BY <2>4 DEF AckDeadLetter, AckSkipped, AckTrade
      <3> QED BY <3>1 DEF BackToPoll, TypeOK
    <2> QED BY <1>4, <2>1, <2>2, <2>3, <2>4 DEF Advance
  <1>5. ASSUME NEW v \in Workers, Raise(v)
        PROVE  pc[w] = "legs"
    <2>1. BackToPoll(v)
      BY <1>5 DEF Raise, StageFails, LegRaises, CommitKeyFails, AckRaises, AckFenced
    <2> QED BY <2>1 DEF BackToPoll, TypeOK
  <1>6. ASSUME NEW v \in Workers, Lifecycle(v)
        PROVE  pc[w] = "legs"
    <2>1. CASE Crash(v) \/ Close(v) \/ DrainTimeout(v)
      BY <2>1 DEF Crash, Close, DrainTimeout, Die, TypeOK
    <2>2. CASE Restart(v)
      BY <2>2 DEF Restart, TypeOK
    <2>3. CASE ~(Crash(v) \/ Close(v) \/ DrainTimeout(v) \/ Restart(v))
      BY <1>6, <2>3 DEF Lifecycle, RequestShutdown, PollIntervalExceeded, Assign, Revoke
    <2> QED BY <2>1, <2>2, <2>3
  <1> QED BY <1>1, <1>2, <1>3, <1>4, <1>5, <1>6 DEF Next, PollNothing, ExpireKey, vars

\* Every step preserves LegsInv while each member owns what it works on: the
\* only member that could commit the key is the one that is not there yet.
LEMMA LegsStep ==
  ASSUME TypeOK, Shape, OwnInv, ForwardInv, LegsInv, [Next]_vars
  PROVE  LegsInv'
  <1> SUFFICES ASSUME NEW w \in Workers, pc'[w] = "legs"
               PROVE  key'[Trade(w)'] # "committed"
    BY DEF LegsInv
  <1>1. /\ cur'[w] = cur[w]
        /\ pc[w] = "legs" \/ (pc[w] \in Handling \ {"commitKey"} /\ key[Trade(w)] # "committed")
    BY LegsKinds
  <1>2. pc[w] \in Handling /\ pc[w] # "commitKey"
    BY <1>1 DEF Handling
  <1>3. Trade(w)' = Trade(w) /\ Trade(w) \in Trades
    BY <1>1, <1>2 DEF Shape, Trade, Part, Offset
  <1>4. key[Trade(w)] # "committed"
    BY <1>1 DEF LegsInv
  <1>5. ASSUME NEW v \in Workers, pc[v] = "commitKey", Trade(v) = Trade(w)
        PROVE  FALSE
    BY <1>2, <1>5, OneMember DEF Handling
  <1> QED BY <1>3, <1>4, <1>5, KeyCommits

\* Only ProcessLeg moves on to the next wallet.
LEMMA LegMoves ==
  ASSUME TypeOK, Shape, [Next]_vars, NEW w \in Workers, leg'[w] > leg[w]
  PROVE  pc[w] = "legs"
  <1> USE DEF brokerVars, controlVars
  <1>0. leg \in [Workers -> 0 .. 2] /\ leg[w] \in 0 .. 2 /\ leg'[w] # leg[w] /\ ~(0 > leg[w])
    BY DEF TypeOK
  <1>1. CASE UNCHANGED leg
    BY <1>0, <1>1
  <1>2. ASSUME NEW v \in Workers, Poll(v)
        PROVE  UNCHANGED leg
    BY <1>2 DEF Poll, PollDeadLetter, PollPoison, PollTrade, Take
  <1>3. ASSUME NEW v \in Workers, leg' = [leg EXCEPT ![v] = 0]
        PROVE  FALSE
    BY <1>0, <1>3
  <1>4. ASSUME NEW v \in Workers, Advance(v)
        PROVE  pc[w] = "legs"
    BY <1>0, <1>3, <1>4 DEF Advance, Stage, Get, Process, ProcessLeg, CommitKey,
                            AckDeadLetter, AckSkipped, AckTrade, BackToPoll
  <1>5. ASSUME NEW v \in Workers, Raise(v)
        PROVE  FALSE
    BY <1>3, <1>5 DEF Raise, StageFails, LegRaises, CommitKeyFails, AckRaises, AckFenced, BackToPoll
  <1>6. ASSUME NEW v \in Workers, Lifecycle(v)
        PROVE  FALSE
    BY <1>0, <1>3, <1>6 DEF Lifecycle, Crash, RequestShutdown, Close, DrainTimeout, Restart,
                            PollIntervalExceeded, Assign, Revoke, Die
  <1> QED BY <1>1, <1>2, <1>4, <1>5, <1>6 DEF Next, PollNothing, ExpireKey, vars

\* As long as the coordinator takes no partition from a live member, whatever
\* else fails, two members are never at work on copies of the same trade.
OneMemberPerTrade ==
  None({"rebalance"}) =>
    \A v, w \in Workers :
      pc[v] \in Handling /\ pc[w] \in Handling /\ Trade(v) = Trade(w) => v = w

\* What the two theorems of this section rest on.
MemberInv ==
  /\ TypeOK /\ Shape /\ ForwardInv
  /\ None({"rebalance"}) => OwnInv /\ LegsInv

LEMMA MemberInvariant == Spec => []MemberInv
  <1>1. Init => MemberInv
    BY InitShape DEF Init, MemberInv, OwnInv, ForwardInv, LegsInv, Busy, Handling, Ack
  <1>2. MemberInv /\ [Next]_vars => MemberInv'
    <2> SUFFICES ASSUME MemberInv, [Next]_vars PROVE MemberInv'
      OBVIOUS
    <2>1. TypeOK' /\ Shape' /\ ForwardInv'
      BY TypeStep, ForwardStep DEF MemberInv
    <2>2. ASSUME None({"rebalance"})'
          PROVE  OwnInv' /\ LegsInv'
      <3>1. None({"rebalance"})
        BY <2>2, FaultsAreRemembered DEF MemberInv, FaultKinds
      <3>2. ~Fault("rebalance")
        BY <2>2 DEF Fault, None, MemberInv, TypeOK, FaultKinds
      <3> QED BY <3>1, <3>2, OwnStep, LegsStep DEF MemberInv
    <2> QED BY <2>1, <2>2 DEF MemberInv
  <1> QED BY <1>1, <1>2, PTL DEF Spec

\* Partition assignment is what makes the two-phase key safe to read and then
\* act on: one member at a time is at work on a trade.
THEOREM SingleMemberPerTrade == Spec => []OneMemberPerTrade
  <1>1. MemberInv => OneMemberPerTrade
    BY OneMember DEF MemberInv, OneMemberPerTrade
  <1> QED BY <1>1, MemberInvariant, PTL

\* So no wallet is scored and dispatched again once its trade's key is COMMITTED.
THEOREM NoRedispatch == Spec => NoDispatchAfterCommit
  <1> DEFINE Held ==
        \A w \in Workers :
          None({"rebalance"}) /\ leg'[w] > leg[w] => key[Trade(w)] # "committed"
  <1>1. MemberInv /\ [Next]_vars => [Held]_leg
    BY LegMoves DEF MemberInv, LegsInv
  <1> QED BY <1>1, MemberInvariant, PTL DEF Spec, NoDispatchAfterCommit

------------------------------------------------------------------------------
(* The in-flight depth *)

\* The faults whose exits leave _in_flight as it is.
LeakingFaults == {"dispatch", "offset", "rebalance"}

\* What _in_flight of w counts: the message w is processing, if any.
Depth(w) ==
  \A p \in Partitions :
    inFlight[w][p] = IF Busy(w) /\ pc[w] # "ackDeadLetter" /\ Part(w) = p THEN 1 ELSE 0

\* The depth is exact and a busy worker still owns its partition, so that its
\* offset commit is not fenced.
DepthInv == \A w \in Workers : Depth(w) /\ (Busy(w) => owner[Part(w)] = w)

\* The workers that do not take the step keep the invariant.
LEMMA DepthFrame ==
  ASSUME TypeOK, Shape, DepthInv, NEW w \in Workers,
         \A v \in Workers \ {w} : pc'[v] = pc[v] /\ cur'[v] = cur[v] /\ inFlight'[v] = inFlight[v],
         \A p \in Partitions : owner'[p] # owner[p] => owner[p] \in {w, Nobody},
         Depth(w)', Busy(w)' => owner'[Part(w)'] = w
  PROVE  DepthInv'
  <1>1. ASSUME NEW v \in Workers, v # w
        PROVE  Depth(v)' /\ (Busy(v)' => owner'[Part(v)'] = v)
    <2>1. pc'[v] = pc[v] /\ cur'[v] = cur[v] /\ inFlight'[v] = inFlight[v]
      BY <1>1
    <2>2. Busy(v)' = Busy(v) /\ Part(v)' = Part(v) /\ Depth(v)' = Depth(v)
      BY <2>1 DEF Busy, Part, Depth
    <2>3. Busy(v) => Part(v) \in Partitions /\ owner[Part(v)] = v
      BY BusyFacts DEF DepthInv
    <2>4. Depth(v)
      BY DEF DepthInv
    <2>5. v # Nobody
      BY ControlAssumption
    <2> QED BY <1>1, <2>2, <2>3, <2>4, <2>5
  <1> QED BY <1>1 DEF DepthInv

\* A message enters flight when it is polled; dead letters do not.
LEMMA DepthPoll ==
  ASSUME TypeOK, Shape, DepthInv, NEW w \in Workers, Poll(w)
  PROVE  DepthInv'
  <1>1. PICK p \in Partitions, next \in {"ackDeadLetter", "ackPoison", "stage"} :
          /\ Take(w, p, next)
          /\ IF next = "ackDeadLetter" THEN UNCHANGED inFlight
             ELSE inFlight' = [inFlight EXCEPT ![w][p] = @ + 1]
    BY DEF Poll, PollDeadLetter, PollPoison, PollTrade, Enter
  <1>2. pos[w][p] \in Nat /\ pos[w][p] < Len(Log[p])
    BY <1>1 DEF Take, Deliverable, TypeOK
  <1>3. <<p, pos[w][p] + 1>>[1] = p
    BY <1>2, MessageIntro
  <1>4. /\ owner[p] = w /\ UNCHANGED owner /\ ~Busy(w)
        /\ pc'[w] = next /\ cur'[w] = <<p, pos[w][p] + 1>>
        /\ \A v \in Workers \ {w} : pc'[v] = pc[v] /\ cur'[v] = cur[v]
    BY <1>1 DEF Take, Deliverable, TypeOK, Busy, Handling, Ack, brokerVars
  <1>5. Busy(w)' /\ Part(w)' = p
    BY <1>3, <1>4 DEF Busy, Part, Handling, Ack
  <1>6. \A q \in Partitions : inFlight[w][q] = 0
    BY <1>4 DEF DepthInv, Depth
  <1>7. inFlight \in [Workers -> [Partitions -> Nat]]
    BY DEF TypeOK
  <1>8. /\ \A v \in Workers \ {w} : inFlight'[v] = inFlight[v]
        /\ \A q \in Partitions :
             inFlight'[w][q] = IF next # "ackDeadLetter" /\ q = p THEN 1 ELSE 0
    BY <1>1, <1>6, <1>7
  <1>9. Depth(w)'
    BY <1>4, <1>5, <1>8 DEF Depth
  <1> QED BY <1>4, <1>5, <1>8, <1>9, DepthFrame

\* The steps in the middle of a message move nothing the depth depends on.
LEMMA DepthKeep ==
  ASSUME TypeOK, Shape, DepthInv, NEW w \in Workers,
         Stage(w) \/ Get(w) \/ ProcessLeg(w) \/ CommitKey(w)
  PROVE  DepthInv'
  <1>1. /\ UNCHANGED <<owner, cur, inFlight>> /\ Busy(w) /\ pc[w] # "ackDeadLetter"
        /\ Busy(w)' /\ pc'[w] # "ackDeadLetter"
    BY DEF Stage, Get, ProcessLeg, CommitKey, Process, TypeOK, Busy, Handling, Ack, brokerVars
  <1>2. \A v \in Workers \ {w} : pc'[v] = pc[v]
    BY DEF Stage, Get, ProcessLeg, CommitKey, Process, TypeOK
  <1>3. Part(w)' = Part(w)
    BY <1>1 DEF Part
  <1>4. Depth(w)'
    BY <1>1, <1>3 DEF Depth, DepthInv
  <1>5. owner'[Part(w)'] = w
    BY <1>1, <1>3 DEF DepthInv
  <1> QED BY <1>1, <1>2, <1>4, <1>5, DepthFrame

\* A message that leaves flight was the one that was counted.
LEMMA DepthLeave ==
  ASSUME TypeOK, Shape, DepthInv, NEW w \in Workers, Busy(w),
         BackToPoll(w), UNCHANGED owner,
         IF pc[w] = "ackDeadLetter" THEN UNCHANGED inFlight ELSE LeaveFlight(w)
  PROVE  DepthInv'
  <1>1. /\ ~Busy(w)'
        /\ \A v \in Workers \ {w} : pc'[v] = pc[v] /\ cur'[v] = cur[v]
    BY DEF BackToPoll, TypeOK, Busy, Handling, Ack
  <1>2. Part(w) \in Partitions
    BY BusyFacts
  <1>3. \A p \in Partitions :
          inFlight[w][p] = IF pc[w] # "ackDeadLetter" /\ p = Part(w) THEN 1 ELSE 0
    BY DEF DepthInv, Depth
  <1>4. inFlight \in [Workers -> [Partitions -> Nat]]
    BY DEF TypeOK
  <1>5. LessOne(1) = 0
    BY DEF LessOne
  <1>6. /\ \A v \in Workers \ {w} : inFlight'[v] = inFlight[v]
        /\ \A p \in Partitions : inFlight'[w][p] = 0
    <2>1. CASE pc[w] = "ackDeadLetter"
      BY <1>3, <2>1
    <2>2. CASE pc[w] # "ackDeadLetter"
      <3>1. inFlight' = [inFlight EXCEPT ![w][Part(w)] = 0]
        BY <1>2, <1>3, <1>4, <1>5, <2>2 DEF LeaveFlight
      <3> QED BY <1>2, <1>3, <1>4, <2>2, <3>1
    <2> QED BY <2>1, <2>2
  <1>7. Depth(w)'
    BY <1>1, <1>6 DEF Depth
  <1> QED BY <1>1, <1>6, <1>7, DepthFrame

\* A process that ends takes its counts with it.
LEMMA DepthDie ==
  ASSUME TypeOK, Shape, DepthInv, NEW w \in Workers, Die(w)
  PROVE  DepthInv'
  <1>1. /\ ~Busy(w)'
        /\ \A v \in Workers \ {w} :
             pc'[v] = pc[v] /\ cur'[v] = cur[v] /\ inFlight'[v] = inFlight[v]
        /\ \A p \in Partitions : inFlight'[w][p] = 0
    BY DEF Die, TypeOK, Busy, Handling, Ack
  <1>2. \A p \in Partitions : owner'[p] # owner[p] => owner[p] \in {w, Nobody}
    BY DEF Die, Release
  <1>3. Depth(w)'
    BY <1>1 DEF Depth
  <1> QED BY <1>1, <1>2, <1>3, DepthFrame

\* Every step that is not one of the leaking faults keeps the depth exact.
LEMMA DepthStep ==
  ASSUME TypeOK, Shape, DepthInv, [Next]_vars, None(LeakingFaults)'
  PROVE  DepthInv'
  <1>0. ASSUME NEW k \in LeakingFaults
        PROVE  ~Fault(k)
    BY <1>0 DEF Fault, None, TypeOK, LeakingFaults, FaultKinds
  <1>1. CASE UNCHANGED <<owner, pc, cur, inFlight>>
    BY <1>1 DEF DepthInv, Depth, Busy, Part
  <1>2. ASSUME NEW w \in Workers, Advance(w)
        PROVE  DepthInv'
    <2>1. CASE Stage(w) \/ Get(w) \/ ProcessLeg(w) \/ CommitKey(w)
      BY <2>1, DepthKeep
    <2>2. CASE AckDeadLetter(w) \/ AckSkipped(w) \/ AckTrade(w)
      <3>1. /\ Busy(w) /\ BackToPoll(w) /\ UNCHANGED owner
            /\ IF pc[w] = "ackDeadLetter" THEN UNCHANGED inFlight ELSE LeaveFlight(w)
        BY <2>2 DEF AckDeadLetter, AckSkipped, AckTrade, Busy, Ack
      <3> QED BY <3>1, DepthLeave
    <2> QED BY <1>2, <2>1, <2>2 DEF Advance
  <1>3. ASSUME NEW w \in Workers, Raise(w)
        PROVE  DepthInv'
    <2>1. CASE StageFails(w) \/ CommitKeyFails(w)
      <3>1. /\ Busy(w) /\ BackToPoll(w) /\ UNCHANGED owner
            /\ pc[w] # "ackDeadLetter" /\ LeaveFlight(w)
        BY <2>1 DEF StageFails, CommitKeyFails, Busy, Handling, brokerVars
      <3> QED BY <3>1, DepthLeave
    <2>2. ~LegRaises(w) /\ ~AckRaises(w)
      BY <1>0 DEF LegRaises, AckRaises, LeakingFaults
    <2>3. ~AckFenced(w)
      BY DEF AckFenced, DepthInv, Busy
    <2> QED BY <1>3, <2>1, <2>2, <2>3 DEF Raise
  <1>4. ASSUME NEW w \in Workers, Lifecycle(w)
        PROVE  DepthInv'
    <2>1. CASE Crash(w) \/ Close(w) \/ DrainTimeout(w)
      BY <2>1, DepthDie DEF Crash, Close, DrainTimeout
    <2>2. CASE RequestShutdown(w)
      BY <1>1, <2>2 DEF RequestShutdown, brokerVars
    <2>3. CASE Restart(w)
      <3>1. /\ UNCHANGED <<owner, cur, inFlight>> /\ ~Busy(w) /\ ~Busy(w)'
            /\ \A v \in Workers \ {w} : pc'[v] = pc[v]
        BY <2>3 DEF Restart, TypeOK, Busy, Handling, Ack, brokerVars
      <3>2. Depth(w)'
        BY <3>1 DEF Depth, DepthInv
      <3> QED BY <3>1, <3>2, DepthFrame
    <2>4. ~PollIntervalExceeded(w)
      BY <1>0 DEF PollIntervalExceeded, LeakingFaults
    <2>5. ASSUME NEW p \in Partitions, Assign(w, p)
          PROVE  DepthInv'
      <3>1. /\ UNCHANGED <<pc, cur, inFlight>> /\ ~Busy(w) /\ ~Busy(w)'
            /\ \A q \in Partitions : owner'[q] # owner[q] => owner[q] = Nobody
        BY <2>5 DEF Assign, TypeOK, Busy, Handling, Ack
      <3>2. Depth(w)'
        BY <3>1 DEF Depth, DepthInv
      <3> QED BY <3>1, <3>2, DepthFrame
    <2>6. \A p \in Partitions : ~Revoke(w, p)
      BY <1>0 DEF Revoke, LeakingFaults
    <2> QED BY <1>4, <2>1, <2>2, <2>3, <2>4, <2>5, <2>6 DEF Lifecycle
  <1>5. ASSUME NEW w \in Workers, PollNothing(w)
        PROVE  UNCHANGED <<owner, pc, cur, inFlight>>
    BY <1>5 DEF PollNothing, vars
  <1>6. ASSUME NEW t \in Trades, ExpireKey(t)
        PROVE  UNCHANGED <<owner, pc, cur, inFlight>>
    BY <1>6 DEF ExpireKey, brokerVars
  <1>7. CASE UNCHANGED vars
    BY <1>1, <1>7 DEF vars
  <1> QED BY <1>1, <1>2, <1>3, <1>4, <1>5, <1>6, <1>7, DepthPoll DEF Next

\* As long as no dispatch and no offset commit raised and no partition moved
\* under a member, _in_flight is exactly the message being processed.
THEOREM DepthExact == Spec => []DepthIsExact
  <1> DEFINE Guarded == None(LeakingFaults) => DepthInv
  <1>1. Init => TypeOK /\ Shape /\ Guarded
    <2>1. Init => DepthInv
      BY DEF Init, DepthInv, Depth, Busy, Handling, Ack
    <2> QED BY <2>1, InitShape
  <1>2. TypeOK /\ Shape /\ Guarded /\ [Next]_vars => TypeOK' /\ Shape' /\ Guarded'
    <2>1. LeakingFaults \in SUBSET FaultKinds
      BY DEF LeakingFaults, FaultKinds
    <2> QED BY <2>1, TypeStep, DepthStep, FaultsAreRemembered
  <1>3. Guarded => DepthIsExact
    BY DEF DepthInv, Depth, DepthIsExact, LeakingFaults
  <1> QED BY <1>1, <1>2, <1>3, PTL DEF Spec

------------------------------------------------------------------------------
(* The dead-letter topic *)

Rebalances == faults["rebalance"]

\* The failures one process has counted against a message: one per rebalance
\* and one more, which is the message its consumer is past.
RetryInv ==
  /\ \A w \in Workers, m \in Messages :
       /\ retries[w][m] <= Rebalances + 1
       /\ retries[w][m] > Rebalances => owner[m[1]] = w /\ pos[w][m[1]] >= m[2]
  /\ DeadLetterNeedsRebalances

\* A message that is polled has been counted at most once per rebalance.
LEMMA RetryPoll ==
  ASSUME TypeOK, Shape, RetryInv, NEW w \in Workers, Poll(w)
  PROVE  RetryInv'
  <1>1. PICK p \in Partitions, next \in {"ackDeadLetter", "ackPoison", "stage"} :
          /\ Take(w, p, next)
          /\ UNCHANGED <<retries, dlt>> \/ RecordFailure(w, <<p, pos[w][p] + 1>>)
    BY DEF Poll, PollDeadLetter, PollPoison, PollTrade
  <1>2. pos[w][p] \in Nat /\ pos[w][p] < Len(Log[p]) /\ owner[p] = w
    BY <1>1 DEF Take, Deliverable, TypeOK
  <1> DEFINE n == <<p, pos[w][p] + 1>>
  <1>3. n \in Messages /\ n[1] = p /\ n[2] = pos[w][p] + 1
    BY <1>2, MessageIntro
  <1>4. /\ retries \in [Workers -> [Messages -> Nat]]
        /\ pos \in [Workers -> [Partitions -> Nat]]
        /\ Rebalances \in Nat /\ MaxRetries \in Nat
    BY ControlAssumption DEF TypeOK, Rebalances, FaultKinds
  <1>5. retries[w][n] <= Rebalances
    BY <1>2, <1>3, <1>4 DEF RetryInv
  <1>6. UNCHANGED <<owner, faults>> /\ pos' = [pos EXCEPT ![w][p] = @ + 1]
    BY <1>1 DEF Take, brokerVars
  <1>7. \A v \in Workers, m \in Messages :
          \/ retries'[v][m] = retries[v][m] \/ retries'[v][m] = 0
          \/ v = w /\ m = n /\ retries'[v][m] = retries[v][m] + 1
    <2>1. \/ UNCHANGED retries
          \/ retries' = [retries EXCEPT ![w][n] = 0]
          \/ retries' = [retries EXCEPT ![w][n] = @ + 1]
      BY <1>1 DEF RecordFailure
    <2>2. n \in Messages
      BY <1>3
    <2> HIDE DEF n
    <2> QED BY <1>4, <2>1, <2>2
  <1>8. dlt' # dlt => retries[w][n] + 1 > MaxRetries
    BY <1>1 DEF RecordFailure
  <1>9. DeadLetterNeedsRebalances'
    BY <1>3, <1>4, <1>5, <1>6, <1>8 DEF RetryInv, DeadLetterNeedsRebalances, Rebalances
  <1>10. ASSUME NEW v \in Workers, NEW m \in Messages
         PROVE  /\ retries'[v][m] <= Rebalances + 1
                /\ retries'[v][m] > Rebalances => owner[m[1]] = v /\ pos'[v][m[1]] >= m[2]
    <2>1. m[1] \in Partitions /\ m[2] \in Nat
      BY MessageFacts
    <2>2. pos'[v][m[1]] >= pos[v][m[1]] /\ pos'[w][p] = pos[w][p] + 1
      BY <1>4, <1>6, <2>1
    <2>3. /\ retries[v][m] \in Nat /\ pos[v][m[1]] \in Nat /\ pos'[v][m[1]] \in Nat
      BY <1>4, <1>6, <2>1
    <2>4. /\ retries[v][m] <= Rebalances + 1
          /\ retries[v][m] > Rebalances => owner[m[1]] = v /\ pos[v][m[1]] >= m[2]
      BY DEF RetryInv
    <2>5. CASE retries'[v][m] = retries[v][m]
      BY <2>1, <2>2, <2>3, <2>4, <2>5
    <2>6. CASE retries'[v][m] = 0
      BY <1>4, <2>6
    <2>7. CASE v = w /\ m = n /\ retries'[v][m] = retries[v][m] + 1
      <3>1. retries[v][m] <= Rebalances
        BY <1>5, <2>7
      <3>2. m[1] = p /\ m[2] = pos[w][p] + 1
        BY <1>3, <2>7
      <3>3. owner[m[1]] = v /\ pos'[v][m[1]] >= m[2]
        BY <1>2, <2>2, <2>7, <3>2
      <3> QED BY <1>4, <2>3, <2>7, <3>1, <3>3
    <2> QED BY <1>7, <2>5, <2>6, <2>7
  <1> QED BY <1>6, <1>9, <1>10 DEF RetryInv, Rebalances

\* A process that ends forgets its counts; the others keep what they own.
LEMMA RetryDie ==
  ASSUME TypeOK, Shape, RetryInv, NEW w \in Workers, Die(w), Rebalances' = Rebalances
  PROVE  RetryInv'
  <1>1. Rebalances \in Nat
    BY DEF TypeOK, Rebalances, FaultKinds
  <1>2. /\ \A m \in Messages : retries'[w][m] = 0
        /\ \A v \in Workers \ {w} : retries'[v] = retries[v]
        /\ UNCHANGED <<pos, dlt>>
        /\ \A p \in Partitions : owner[p] # w => owner'[p] = owner[p]
    BY DEF Die, Release, TypeOK
  <1>3. DeadLetterNeedsRebalances'
    BY <1>2 DEF RetryInv, DeadLetterNeedsRebalances, Rebalances
  <1>4. ASSUME NEW v \in Workers, NEW m \in Messages
        PROVE  /\ retries'[v][m] <= Rebalances + 1
               /\ retries'[v][m] > Rebalances => owner'[m[1]] = v /\ pos'[v][m[1]] >= m[2]
    <2>1. m[1] \in Partitions
      BY MessageFacts
    <2>2. CASE v = w
      BY <1>1, <1>2, <2>2
    <2>3. CASE v # w
      BY <1>2, <2>1, <2>3 DEF RetryInv
    <2> QED BY <2>2, <2>3
  <1> QED BY <1>3, <1>4 DEF RetryInv

\* A partition is assigned only when nobody owns it: no count is beyond the
\* rebalances then.
LEMMA RetryAssign ==
  ASSUME TypeOK, Shape, RetryInv, NEW w \in Workers, NEW p \in Partitions, Assign(w, p)
  PROVE  RetryInv'
  <1>1. /\ owner[p] = Nobody /\ UNCHANGED <<retries, dlt, faults>>
        /\ \A q \in Partitions \ {p} :
             owner'[q] = owner[q] /\ \A v \in Workers : pos'[v][q] = pos[v][q]
    BY DEF Assign, TypeOK
  <1>2. Nobody \notin Workers
    BY ControlAssumption
  <1>3. DeadLetterNeedsRebalances'
    BY <1>1 DEF RetryInv, DeadLetterNeedsRebalances
  <1>4. ASSUME NEW v \in Workers, NEW m \in Messages
        PROVE  retries[v][m] > Rebalances => owner'[m[1]] = v /\ pos'[v][m[1]] >= m[2]
    <2>1. m[1] \in Partitions
      BY MessageFacts
    <2>2. CASE m[1] = p
      BY <1>1, <1>2, <2>2 DEF RetryInv
    <2>3. CASE m[1] # p
      BY <1>1, <2>1, <2>3 DEF RetryInv
    <2> QED BY <2>2, <2>3
  <1> QED BY <1>1, <1>3, <1>4 DEF RetryInv, Rebalances

\* Every step keeps the counts within the rebalances.
LEMMA RetryStep ==
  ASSUME TypeOK, Shape, RetryInv, [Next]_vars
  PROVE  RetryInv'
  <1> USE DEF brokerVars
  <1>0. /\ retries \in [Workers -> [Messages -> Nat]] /\ Rebalances \in Nat
        /\ faults \in [FaultKinds -> Nat]
    BY DEF TypeOK, Rebalances, FaultKinds
  <1>1. CASE UNCHANGED <<owner, pos, retries, dlt>> /\ Rebalances' = Rebalances
    BY <1>1 DEF RetryInv, DeadLetterNeedsRebalances, Rebalances
  <1>2. ASSUME NEW k, Fault(k), k # "rebalance"
        PROVE  Rebalances' = Rebalances
    BY <1>0, <1>2 DEF Fault, Rebalances, FaultKinds
  <1>3. CASE Fault("rebalance") /\ UNCHANGED <<pos, retries, dlt>>
    <2>1. Rebalances' = Rebalances + 1
      BY <1>0, <1>3 DEF Fault, Rebalances, FaultKinds
    <2>2. \A w \in Workers, m \in Messages :
            retries'[w][m] \in Nat /\ retries'[w][m] <= Rebalances + 1
      BY <1>0, <1>3 DEF RetryInv
    <2>3. DeadLetterNeedsRebalances'
      BY <1>0, <1>3, <2>1, ControlAssumption DEF RetryInv, DeadLetterNeedsRebalances, Rebalances
    <2>4. \A w \in Workers, m \in Messages :
            retries'[w][m] <= Rebalances' + 1 /\ ~(retries'[w][m] > Rebalances')
      BY <1>0, <2>1, <2>2
    <2> QED BY <2>3, <2>4 DEF RetryInv
  <1>4. ASSUME NEW w \in Workers, Advance(w)
        PROVE  UNCHANGED <<owner, pos, retries, dlt, faults>>
    BY <1>4 DEF Advance, Stage, Get, ProcessLeg, CommitKey, AckDeadLetter, AckSkipped, AckTrade
  <1>5. ASSUME NEW w \in Workers, Raise(w)
        PROVE  UNCHANGED <<owner, pos, retries, dlt>> /\ Rebalances' = Rebalances
    <2>1. UNCHANGED <<owner, pos, retries, dlt>>
      BY <1>5 DEF Raise, StageFails, LegRaises, CommitKeyFails, AckRaises, AckFenced
    <2>2. UNCHANGED faults \/ Fault("dedup") \/ Fault("dispatch") \/ Fault("offset")
      BY <1>5 DEF Raise, StageFails, LegRaises, CommitKeyFails, AckRaises, AckFenced
    <2> QED BY <1>2, <2>1, <2>2 DEF Rebalances
  <1>6. ASSUME NEW w \in Workers, Lifecycle(w)
        PROVE  RetryInv'
    <2>1. CASE Crash(w) \/ Close(w) \/ DrainTimeout(w)
      <3>1. Die(w)
        BY <2>1 DEF Crash, Close, DrainTimeout
      <3>2. UNCHANGED faults \/ Fault("crash")
        BY <2>1 DEF Crash, Close, DrainTimeout
      <3>3. Rebalances' = Rebalances
        BY <1>2, <3>2 DEF Rebalances
      <3> QED BY <3>1, <3>3, RetryDie
    <2>2. CASE RequestShutdown(w)
      <3>1. Rebalances' = Rebalances
        BY <1>2, <2>2 DEF RequestShutdown
      <3> QED BY <1>1, <2>2, <3>1 DEF RequestShutdown
    <2>3. CASE Restart(w)
      BY <1>1, <2>3 DEF Restart, Rebalances
    <2>4. CASE PollIntervalExceeded(w)
      BY <1>3, <2>4 DEF PollIntervalExceeded
    <2>5. CASE \E p \in Partitions : Assign(w, p)
      BY <2>5, RetryAssign
    <2>6. CASE \E p \in Partitions : Revoke(w, p)
      BY <1>3, <2>6 DEF Revoke
    <2> QED BY <1>6, <2>1, <2>2, <2>3, <2>4, <2>5, <2>6 DEF Lifecycle
  <1>7. ASSUME NEW t \in Trades, ExpireKey(t)
        PROVE  UNCHANGED <<owner, pos, retries, dlt>> /\ Rebalances' = Rebalances
    BY <1>2, <1>7 DEF ExpireKey
  <1>8. CASE UNCHANGED vars \/ \E w \in Workers : PollNothing(w)
    BY <1>1, <1>8 DEF PollNothing, vars, Rebalances
  <1>9. CASE \E w \in Workers : Advance(w)
    BY <1>1, <1>4, <1>9 DEF Rebalances
  <1> QED BY <1>1, <1>5, <1>6, <1>7, <1>8, <1>9, RetryPoll DEF Next

\* A poison pill is routed to the dead-letter topic only after at least
\* MaxRetries rebalances, for any number of failed commits and crashes.
THEOREM DeadLettersNeedRebalances == Spec => []DeadLetterNeedsRebalances
  <1>1. Init => TypeOK /\ Shape /\ RetryInv
    <2>1. Init => RetryInv
      BY DEF Init, RetryInv, DeadLetterNeedsRebalances, Rebalances, FaultKinds
    <2> QED BY <2>1, InitShape
  <1>2. TypeOK /\ Shape /\ RetryInv /\ [Next]_vars => TypeOK' /\ Shape' /\ RetryInv'
    BY TypeStep, RetryStep
  <1>3. RetryInv => DeadLetterNeedsRebalances
    BY DEF RetryInv
  <1> QED BY <1>1, <1>2, <1>3, PTL DEF Spec

==============================================================================
