----------------------------- MODULE KafkaWorker -----------------------------
(***************************************************************************)
(* The scale-out half of the streaming backend: the members of one Kafka   *)
(* consumer group (streaming/kafka_worker.py), each running the poll loop  *)
(* of KafkaWorker.run over the partitions it is assigned, with the         *)
(* two-phase Redis dedup key (pipeline/exactly_once.py), the back-pressure *)
(* controller, graceful shutdown, crashes and rebalances.                  *)
(*                                                                         *)
(* One message is processed in the steps another process can see between:  *)
(*   poll+decode -> SET NX -> (GET) -> base wallet -> counter wallet       *)
(*   -> SET COMMITTED -> offset commit                                     *)
(*                                                                         *)
(* Scores, prices and wallets are abstracted away: what is kept of a       *)
(* message is which trade it carries (its dedup key) or that it does not   *)
(* decode, and of a trade which of its two wallets ("legs") have been      *)
(* scored and dispatched.  The broker, the group coordinator and Redis are *)
(* external; they are modelled from the calls the worker makes.            *)
(***************************************************************************)
EXTENDS Naturals, Sequences, FiniteSets

CONSTANTS
  Workers,       \* the processes of the consumer group
  Partitions,    \* the topic partitions matched by KAFKA_TOPIC_PATTERN
  Trades,        \* dedup keys: (ledger_sequence, trade_id)
  Log,           \* Log[p] is the sequence of messages in partition p
  Poison,        \* a message whose Avro decode or validation fails
  DeadLetter,    \* the partitions of the DLQ/DLT topics
  HWM, LWM,      \* KAFKA_BACKPRESSURE_HWM and KAFKA_BACKPRESSURE_LWM
  MaxRetries,    \* KAFKA_MAX_RETRIES
  Nobody,        \* the owner of an unassigned partition
  Faults,        \* the kinds of fault this instance exhibits
  MaxFaults      \* bound on the number of faults in a behaviour

FaultKinds ==
  {"dispatch",   \* scoring or AlertDispatcher.dispatch raises
   "dedup",      \* Redis unreachable: DedupBackendUnavailableError
   "offset",     \* consumer.commit raises KafkaException
   "crash",      \* the process dies
   "stop",       \* SIGTERM or stop()
   "rebalance",  \* the group coordinator takes partitions away
   "expire"}     \* a dedup key outlives its TTL

ASSUME LogAssumption ==
  /\ Log \in [Partitions -> Seq(Trades \cup {Poison})]
  /\ Poison \notin Trades
  /\ DeadLetter \subseteq Partitions

\* produce_trade: the topic is that of the trade's pair and the partition key
\* its base account, so every copy of a trade is in the same partition.
ASSUME KeyedAssumption ==
  \A p, q \in Partitions \ DeadLetter :
    \A i \in 1 .. Len(Log[p]), j \in 1 .. Len(Log[q]) :
      Log[p][i] \in Trades /\ Log[p][i] = Log[q][j] => p = q

ASSUME ControlAssumption ==
  /\ HWM \in Nat
  /\ LWM \in Nat
  /\ MaxRetries \in Nat
  /\ MaxFaults \in Nat
  /\ Faults \subseteq FaultKinds
  /\ Nobody \notin Workers

VARIABLES
  \* the broker and the group coordinator
  owner,        \* owner[p]: the member that partition p is assigned to
  committed,    \* committed[p]: the group's committed offset, as a count
  \* the consumer object inside each worker
  pos,          \* pos[w][p]: how many messages of p this consumer has returned
  fetchPaused,  \* fetchPaused[w]: the partitions paused with consumer.pause
  \* the worker
  pc,           \* where the run loop is
  cur,          \* the message being processed, or NoMessage
  leg,          \* how many wallets of cur have been scored and dispatched
  stopping,     \* _shutdown_requested is set, or _running is False
  inFlight,     \* _in_flight[p]
  buffer,       \* the trades FeatureBuffer has folded in
  \* the back-pressure controller
  bpPaused,     \* BackPressureController._paused
  retries,      \* BackPressureController._retry_counts
  dlt,          \* the messages produced to the dead-letter topic
  \* Redis
  key,          \* key[t]: the dedup key of trade t
  \* history and bounds
  handled,      \* handled[t]: the wallets of t whose processing has returned
  faults        \* faults[k]: number of faults of kind k so far

brokerVars == <<owner, committed>>
controlVars == <<bpPaused, fetchPaused>>
vars == <<owner, committed, pos, fetchPaused, pc, cur, leg, stopping, inFlight,
          buffer, bpPaused, retries, dlt, key, handled, faults>>

Messages == UNION {{p} \X (1 .. Len(Log[p])) : p \in Partitions}
NoMessage == <<>>
Legs == 1 .. 2          \* 1: base_account, 2: counter_account

Ack == {"ackDeadLetter", "ackPoison", "ackDuplicate", "ackTrade"}
Handling == {"stage", "get", "legs", "commitKey"}

Part(w) == cur[w][1]
Offset(w) == cur[w][2]
Trade(w) == Log[Part(w)][Offset(w)]
Busy(w) == pc[w] \in Handling \cup Ack

TypeOK ==
  /\ owner \in [Partitions -> Workers \cup {Nobody}]
  /\ committed \in [Partitions -> Nat]
  /\ \A p \in Partitions : committed[p] <= Len(Log[p])
  /\ pos \in [Workers -> [Partitions -> Nat]]
  /\ fetchPaused \in [Workers -> SUBSET Partitions]
  /\ pc \in [Workers -> {"down", "poll"} \cup Handling \cup Ack]
  /\ cur \in [Workers -> Messages \cup {NoMessage}]
  /\ leg \in [Workers -> 0 .. 2]
  /\ stopping \in [Workers -> BOOLEAN]
  /\ inFlight \in [Workers -> [Partitions -> Nat]]
  /\ buffer \in [Workers -> SUBSET Trades]
  /\ bpPaused \in [Workers -> SUBSET Partitions]
  /\ retries \in [Workers -> [Messages -> Nat]]
  /\ dlt \in SUBSET Messages
  /\ key \in [Trades -> {"absent", "staged", "committed"}]
  /\ handled \in [Trades -> SUBSET Legs]
  /\ faults \in [FaultKinds -> Nat]

Init ==
  /\ owner = [p \in Partitions |-> Nobody]
  /\ committed = [p \in Partitions |-> 0]
  /\ pos = [w \in Workers |-> [p \in Partitions |-> 0]]
  /\ fetchPaused = [w \in Workers |-> {}]
  /\ pc = [w \in Workers |-> "down"]
  /\ cur = [w \in Workers |-> NoMessage]
  /\ leg = [w \in Workers |-> 0]
  /\ stopping = [w \in Workers |-> FALSE]
  /\ inFlight = [w \in Workers |-> [p \in Partitions |-> 0]]
  /\ buffer = [w \in Workers |-> {}]
  /\ bpPaused = [w \in Workers |-> {}]
  /\ retries = [w \in Workers |-> [m \in Messages |-> 0]]
  /\ dlt = {}
  /\ key = [t \in Trades |-> "absent"]
  /\ handled = [t \in Trades |-> {}]
  /\ faults = [k \in FaultKinds |-> 0]

FaultCount ==
  faults["dispatch"] + faults["dedup"] + faults["offset"] + faults["crash"]
  + faults["stop"] + faults["rebalance"] + faults["expire"]

Fault(kind) ==
  /\ kind \in Faults
  /\ FaultCount < MaxFaults
  /\ faults' = [faults EXCEPT ![kind] = @ + 1]

None(kinds) == \A k \in kinds : faults[k] = 0

------------------------------------------------------------------------------
(* Back-pressure: BackPressureController *)

PauseDue(w, p, depth) == depth >= HWM /\ p \notin bpPaused[w]
ResumeDue(w, p, depth) == depth <= LWM /\ p \in bpPaused[w]

\* check_and_apply: consumer.pause/resume and _paused move together.
CheckAndApply(w, p, depth) ==
  /\ bpPaused' = [bpPaused EXCEPT ![w] =
       IF PauseDue(w, p, depth) THEN @ \cup {p}
       ELSE IF ResumeDue(w, p, depth) THEN @ \ {p} ELSE @]
  /\ fetchPaused' = [fetchPaused EXCEPT ![w] =
       IF PauseDue(w, p, depth) THEN @ \cup {p}
       ELSE IF ResumeDue(w, p, depth) THEN @ \ {p} ELSE @]

\* Faulty variant of RecordFailure: one attempt too few.
RecordFailureTooSoon(w, m) ==
  IF retries[w][m] + 1 >= MaxRetries
  THEN /\ dlt' \in {dlt, dlt \cup {m}}
       /\ retries' = [retries EXCEPT ![w][m] = 0]
  ELSE /\ retries' = [retries EXCEPT ![w][m] = @ + 1]
       /\ UNCHANGED dlt

\* record_failure: past MaxRetries the message goes to the dead-letter topic
\* (best effort) and its count is dropped.
RecordFailure(w, m) ==
  IF retries[w][m] + 1 > MaxRetries
  THEN /\ dlt' \in {dlt, dlt \cup {m}}
       /\ retries' = [retries EXCEPT ![w][m] = 0]
  ELSE /\ retries' = [retries EXCEPT ![w][m] = @ + 1]
       /\ UNCHANGED dlt

LessOne(n) == IF n > 0 THEN n - 1 ELSE 0      \* max(0, n - 1)

------------------------------------------------------------------------------
(* The poll loop and process_message *)

Deliverable(w, p) ==
  /\ pc[w] = "poll"
  /\ ~stopping[w]
  /\ owner[p] = w
  /\ p \notin fetchPaused[w]
  /\ pos[w][p] < Len(Log[p])

\* Faulty variant of Take: enable.auto.commit, so that the offset is committed
\* with the poll instead of after the work.
TakeAutoCommits(w, p, next) ==
  /\ Deliverable(w, p)
  /\ pos' = [pos EXCEPT ![w][p] = @ + 1]
  /\ committed' = [committed EXCEPT ![p] = pos[w][p] + 1]
  /\ cur' = [cur EXCEPT ![w] = <<p, pos[w][p] + 1>>]
  /\ pc' = [pc EXCEPT ![w] = next]
  /\ UNCHANGED <<owner, leg, stopping, buffer, key, handled, faults>>

\* consumer.poll returns the next message of p.
Take(w, p, next) ==
  /\ Deliverable(w, p)
  /\ pos' = [pos EXCEPT ![w][p] = @ + 1]
  /\ cur' = [cur EXCEPT ![w] = <<p, pos[w][p] + 1>>]
  /\ pc' = [pc EXCEPT ![w] = next]
  /\ UNCHANGED <<brokerVars, leg, stopping, buffer, key, handled, faults>>

PollDeadLetter(w, p) ==
  /\ p \in DeadLetter
  /\ Take(w, p, "ackDeadLetter")
  /\ UNCHANGED <<inFlight, controlVars, retries, dlt>>

\* _in_flight += 1 and check_and_apply, then deserialize/validate.
Enter(w, p) ==
  /\ p \notin DeadLetter
  /\ inFlight' = [inFlight EXCEPT ![w][p] = @ + 1]
  /\ CheckAndApply(w, p, inFlight[w][p] + 1)

PollPoison(w, p) ==
  /\ Take(w, p, "ackPoison")
  /\ Log[p][pos[w][p] + 1] = Poison
  /\ Enter(w, p)
  /\ RecordFailure(w, <<p, pos[w][p] + 1>>)

PollTrade(w, p) ==
  /\ Take(w, p, "stage")
  /\ Log[p][pos[w][p] + 1] \in Trades
  /\ Enter(w, p)
  /\ UNCHANGED <<retries, dlt>>

\* poll(1.0) returned None: the loop goes round.
PollNothing(w) ==
  /\ pc[w] = "poll"
  /\ ~stopping[w]
  /\ \A p \in Partitions : ~Deliverable(w, p)
  /\ UNCHANGED vars

\* The key is ours to (re)process: buffer.update, then the wallets in turn.
Process(w) ==
  /\ pc' = [pc EXCEPT ![w] = "legs"]
  /\ leg' = [leg EXCEPT ![w] = 0]
  /\ buffer' = [buffer EXCEPT ![w] = @ \cup {Trade(w)}]

\* Faulty variant of Stage: the single-phase cache that marks the message
\* seen before its side effects have run.
StageMarksSeen(w) ==
  /\ pc[w] = "stage"
  /\ IF key[Trade(w)] = "absent"
     THEN /\ key' = [key EXCEPT ![Trade(w)] = "committed"]
          /\ Process(w)
     ELSE /\ pc' = [pc EXCEPT ![w] = "get"]
          /\ UNCHANGED <<key, leg, buffer>>
  /\ UNCHANGED <<brokerVars, pos, controlVars, cur, stopping, inFlight, retries,
                 dlt, handled, faults>>

\* check_and_stage, first half: SET key STAGED NX EX ttl.
Stage(w) ==
  /\ pc[w] = "stage"
  /\ IF key[Trade(w)] = "absent"
     THEN /\ key' = [key EXCEPT ![Trade(w)] = "staged"]
          /\ Process(w)
     ELSE /\ pc' = [pc EXCEPT ![w] = "get"]
          /\ UNCHANGED <<key, leg, buffer>>
  /\ UNCHANGED <<brokerVars, pos, controlVars, cur, stopping, inFlight, retries,
                 dlt, handled, faults>>

\* Faulty variants of Get: any existing key is a duplicate; none is.
GetSkipsStaged(w) ==
  /\ pc[w] = "get"
  /\ pc' = [pc EXCEPT ![w] = "ackDuplicate"]
  /\ UNCHANGED <<brokerVars, pos, controlVars, cur, leg, stopping, inFlight,
                 buffer, retries, dlt, key, handled, faults>>

GetRedoesCommitted(w) ==
  /\ pc[w] = "get"
  /\ Process(w)
  /\ UNCHANGED <<brokerVars, pos, controlVars, cur, stopping, inFlight, retries,
                 dlt, key, handled, faults>>

\* check_and_stage, second half: GET.  Only an explicit COMMITTED is a
\* duplicate; STAGED, and a key that expired since SET NX, are processed.
Get(w) ==
  /\ pc[w] = "get"
  /\ IF key[Trade(w)] = "committed"
     THEN /\ pc' = [pc EXCEPT ![w] = "ackDuplicate"]
          /\ UNCHANGED <<leg, buffer>>
     ELSE Process(w)
  /\ UNCHANGED <<brokerVars, pos, controlVars, cur, stopping, inFlight, retries,
                 dlt, key, handled, faults>>

\* score_wallet and dispatch for the next of the two wallets.
ProcessLeg(w) ==
  /\ pc[w] = "legs"
  /\ leg' = [leg EXCEPT ![w] = @ + 1]
  /\ handled' = [handled EXCEPT ![Trade(w)] = @ \cup {leg[w] + 1}]
  /\ pc' = [pc EXCEPT ![w] = IF leg[w] + 1 = 2 THEN "commitKey" ELSE "legs"]
  /\ UNCHANGED <<brokerVars, pos, controlVars, cur, stopping, inFlight, buffer,
                 retries, dlt, key, faults>>

\* dedup_cache.commit: SET key COMMITTED, whatever the key holds now.
CommitKey(w) ==
  /\ pc[w] = "commitKey"
  /\ key' = [key EXCEPT ![Trade(w)] = "committed"]
  /\ pc' = [pc EXCEPT ![w] = "ackTrade"]
  /\ UNCHANGED <<brokerVars, pos, controlVars, cur, leg, stopping, inFlight,
                 buffer, retries, dlt, handled, faults>>

\* process_message is over for this message; the loop polls again.
BackToPoll(w) ==
  /\ pc' = [pc EXCEPT ![w] = "poll"]
  /\ cur' = [cur EXCEPT ![w] = NoMessage]
  /\ leg' = [leg EXCEPT ![w] = 0]

LeaveFlight(w) == inFlight' = [inFlight EXCEPT ![w][Part(w)] = LessOne(@)]

\* Faulty variant of CommitOffset: one message too far.
CommitOffsetPastNext(w) ==
  /\ owner[Part(w)] = w
  /\ committed' = [committed EXCEPT ![Part(w)] = Offset(w) + 1]

\* consumer.commit(message=msg) as a member that still owns the partition.
CommitOffset(w) ==
  /\ owner[Part(w)] = w
  /\ committed' = [committed EXCEPT ![Part(w)] = Offset(w)]

AckDeadLetter(w) ==
  /\ pc[w] = "ackDeadLetter"
  /\ CommitOffset(w)
  /\ BackToPoll(w)
  /\ UNCHANGED <<owner, pos, controlVars, stopping, inFlight, buffer, retries,
                 dlt, key, handled, faults>>

\* Faulty variant of AckSkipped: a skipped message's offset is not committed.
AckSkippedNoCommit(w) ==
  /\ pc[w] \in {"ackPoison", "ackDuplicate"}
  /\ LeaveFlight(w)
  /\ BackToPoll(w)
  /\ UNCHANGED <<brokerVars, pos, controlVars, stopping, buffer, retries, dlt,
                 key, handled, faults>>

\* The poison and the duplicate path: no check_and_apply on the way out.
AckSkipped(w) ==
  /\ pc[w] \in {"ackPoison", "ackDuplicate"}
  /\ CommitOffset(w)
  /\ LeaveFlight(w)
  /\ BackToPoll(w)
  /\ UNCHANGED <<owner, pos, controlVars, stopping, buffer, retries, dlt, key,
                 handled, faults>>

AckTrade(w) ==
  /\ pc[w] = "ackTrade"
  /\ CommitOffset(w)
  /\ LeaveFlight(w)
  /\ CheckAndApply(w, Part(w), LessOne(inFlight[w][Part(w)]))
  /\ BackToPoll(w)
  /\ UNCHANGED <<owner, pos, stopping, buffer, retries, dlt, key, handled, faults>>

------------------------------------------------------------------------------
(* Exceptions: run() logs them and goes on polling *)

\* Faulty variant of StageFails: raises without leaving flight.
StageFailsInFlight(w) ==
  /\ pc[w] \in {"stage", "get"}
  /\ Fault("dedup")
  /\ BackToPoll(w)
  /\ UNCHANGED <<brokerVars, pos, controlVars, stopping, inFlight, buffer,
                 retries, dlt, key, handled>>

\* DedupBackendUnavailableError out of check_and_stage; SET NX may have been
\* applied before the connection was lost.
StageFails(w) ==
  /\ pc[w] \in {"stage", "get"}
  /\ Fault("dedup")
  /\ \/ UNCHANGED key
     \/ /\ pc[w] = "stage"
        /\ key[Trade(w)] = "absent"
        /\ key' = [key EXCEPT ![Trade(w)] = "staged"]
  /\ LeaveFlight(w)
  /\ BackToPoll(w)
  /\ UNCHANGED <<brokerVars, pos, controlVars, stopping, buffer, retries, dlt,
                 handled>>

\* score_wallet or dispatch raises: _in_flight is not decremented.
LegRaises(w) ==
  /\ pc[w] = "legs"
  /\ Fault("dispatch")
  /\ BackToPoll(w)
  /\ UNCHANGED <<brokerVars, pos, controlVars, stopping, inFlight, buffer,
                 retries, dlt, key, handled>>

\* DedupBackendUnavailableError out of commit; SET may have been applied.
CommitKeyFails(w) ==
  /\ pc[w] = "commitKey"
  /\ Fault("dedup")
  /\ \/ UNCHANGED key
     \/ key' = [key EXCEPT ![Trade(w)] = "committed"]
  /\ LeaveFlight(w)
  /\ BackToPoll(w)
  /\ UNCHANGED <<brokerVars, pos, controlVars, stopping, buffer, retries, dlt,
                 handled>>

\* consumer.commit raises before or after the broker applied it:
\* _in_flight is not decremented.
AckRaises(w) ==
  /\ pc[w] \in Ack
  /\ Fault("offset")
  /\ \/ UNCHANGED committed
     \/ CommitOffset(w)
  /\ BackToPoll(w)
  /\ UNCHANGED <<owner, pos, controlVars, stopping, inFlight, buffer, retries,
                 dlt, key, handled>>

\* consumer.commit raises because the broker fences a member that has lost
\* the partition since it polled the message.
AckFenced(w) ==
  /\ pc[w] \in Ack
  /\ owner[Part(w)] # w
  /\ BackToPoll(w)
  /\ UNCHANGED <<brokerVars, pos, controlVars, stopping, inFlight, buffer,
                 retries, dlt, key, handled, faults>>

------------------------------------------------------------------------------
(* Process lifecycle and group membership *)

Release(w) == owner' = [p \in Partitions |-> IF owner[p] = w THEN Nobody ELSE owner[p]]

\* Everything but Redis and the broker is process memory.
Die(w) ==
  /\ Release(w)
  /\ pc' = [pc EXCEPT ![w] = "down"]
  /\ cur' = [cur EXCEPT ![w] = NoMessage]
  /\ leg' = [leg EXCEPT ![w] = 0]
  /\ stopping' = [stopping EXCEPT ![w] = FALSE]
  /\ inFlight' = [inFlight EXCEPT ![w] = [p \in Partitions |-> 0]]
  /\ buffer' = [buffer EXCEPT ![w] = {}]
  /\ bpPaused' = [bpPaused EXCEPT ![w] = {}]
  /\ fetchPaused' = [fetchPaused EXCEPT ![w] = {}]
  /\ retries' = [retries EXCEPT ![w] = [m \in Messages |-> 0]]
  /\ UNCHANGED <<committed, pos, dlt, key, handled>>

Crash(w) ==
  /\ pc[w] # "down"
  /\ Fault("crash")
  /\ Die(w)

\* request_shutdown (SIGTERM) or stop(): the loop ends at its next test.
RequestShutdown(w) ==
  /\ pc[w] # "down"
  /\ ~stopping[w]
  /\ Fault("stop")
  /\ stopping' = [stopping EXCEPT ![w] = TRUE]
  /\ UNCHANGED <<brokerVars, pos, controlVars, pc, cur, leg, inFlight, buffer,
                 retries, dlt, key, handled>>

\* The loop has ended: close() leaves the group.
Close(w) ==
  /\ pc[w] = "poll"
  /\ stopping[w]
  /\ Die(w)
  /\ UNCHANGED faults

\* _on_drain_timeout: os._exit in the middle of a message.
DrainTimeout(w) ==
  /\ stopping[w]
  /\ Busy(w)
  /\ Die(w)
  /\ UNCHANGED faults

Restart(w) ==
  /\ pc[w] = "down"
  /\ pc' = [pc EXCEPT ![w] = "poll"]
  /\ UNCHANGED <<brokerVars, pos, controlVars, cur, leg, stopping, inFlight,
                 buffer, retries, dlt, key, handled, faults>>

\* Faulty variant of Assign: the group's committed offset is not used (a group
\* id that is not stable), so that every assignment starts from the beginning.
AssignFromStart(w, p) ==
  /\ owner[p] = Nobody
  /\ pc[w] = "poll"
  /\ ~stopping[w]
  /\ owner' = [owner EXCEPT ![p] = w]
  /\ pos' = [pos EXCEPT ![w][p] = 0]
  /\ fetchPaused' = [fetchPaused EXCEPT ![w] = @ \ {p}]
  /\ UNCHANGED <<committed, bpPaused, pc, cur, leg, stopping, inFlight, buffer,
                 retries, dlt, key, handled, faults>>

\* Inside poll(): p is assigned and fetching starts at the committed offset
\* (auto.offset.reset = earliest), unpaused.
Assign(w, p) ==
  /\ owner[p] = Nobody
  /\ pc[w] = "poll"
  /\ ~stopping[w]
  /\ owner' = [owner EXCEPT ![p] = w]
  /\ pos' = [pos EXCEPT ![w][p] = committed[p]]
  /\ fetchPaused' = [fetchPaused EXCEPT ![w] = @ \ {p}]
  /\ UNCHANGED <<committed, bpPaused, pc, cur, leg, stopping, inFlight, buffer,
                 retries, dlt, key, handled, faults>>

\* Inside poll(): p is revoked from an idle member.  There is no revocation
\* hook, so nothing else happens in the worker.
Revoke(w, p) ==
  /\ owner[p] = w
  /\ pc[w] = "poll"
  /\ Fault("rebalance")
  /\ owner' = [owner EXCEPT ![p] = Nobody]
  /\ UNCHANGED <<committed, pos, controlVars, pc, cur, leg, stopping, inFlight,
                 buffer, retries, dlt, key, handled>>

\* Processing outlasts max.poll.interval.ms: the member is put out of the
\* group and loses all its partitions while it is still working.
PollIntervalExceeded(w) ==
  /\ Busy(w)
  /\ \E p \in Partitions : owner[p] = w
  /\ Fault("rebalance")
  /\ Release(w)
  /\ UNCHANGED <<committed, pos, controlVars, pc, cur, leg, stopping, inFlight,
                 buffer, retries, dlt, key, handled>>

\* Redis drops a key whose TTL has run out.
ExpireKey(t) ==
  /\ key[t] # "absent"
  /\ Fault("expire")
  /\ key' = [key EXCEPT ![t] = "absent"]
  /\ UNCHANGED <<brokerVars, pos, controlVars, pc, cur, leg, stopping, inFlight,
                 buffer, retries, dlt, handled>>

------------------------------------------------------------------------------
Poll(w) == \E p \in Partitions : PollDeadLetter(w, p) \/ PollPoison(w, p) \/ PollTrade(w, p)

\* The steps of process_message that succeed.
Advance(w) ==
  \/ Stage(w) \/ Get(w) \/ ProcessLeg(w) \/ CommitKey(w)
  \/ AckDeadLetter(w) \/ AckSkipped(w) \/ AckTrade(w)

Raise(w) ==
  \/ StageFails(w) \/ LegRaises(w) \/ CommitKeyFails(w) \/ AckRaises(w)
  \/ AckFenced(w)

Lifecycle(w) ==
  \/ Crash(w) \/ RequestShutdown(w) \/ Close(w) \/ DrainTimeout(w) \/ Restart(w)
  \/ PollIntervalExceeded(w)
  \/ \E p \in Partitions : Assign(w, p) \/ Revoke(w, p)

Next ==
  \/ \E w \in Workers : Poll(w) \/ PollNothing(w) \/ Advance(w) \/ Raise(w) \/ Lifecycle(w)
  \/ \E t \in Trades : ExpireKey(t)

Spec == Init /\ [][Next]_vars

\* A live worker keeps running its loop, a fenced or stopped one leaves it, the
\* container is restarted and the coordinator hands out free partitions.
FairSpec ==
  /\ Spec
  /\ \A w \in Workers :
       /\ WF_vars(Poll(w))
       /\ WF_vars(Advance(w))
       /\ WF_vars(AckFenced(w))
       /\ WF_vars(Close(w))
       /\ WF_vars(Restart(w))
       /\ \A p \in Partitions : WF_vars(Assign(w, p))

------------------------------------------------------------------------------
(* Properties *)

\* A message needs no further processing: nobody is to process it, or both
\* wallets of its trade have been scored and dispatched.
Settled(p, o) ==
  \/ p \in DeadLetter
  \/ Log[p][o] = Poison
  \/ handled[Log[p][o]] = Legs

\* "A crash at any point results in redo the tail, never silently drop": the
\* group's committed offset never passes a trade with an unprocessed wallet.
NoSilentLoss ==
  \A p \in Partitions : \A o \in 1 .. committed[p] : Settled(p, o)

\* NoSilentLoss under crashes, drain timeouts, rebalances, key expiry and failed
\* offset commits, as long as process_message never raised because dispatch or
\* the dedup backend failed.
NoLossWithoutSkipping == None({"dispatch", "dedup"}) => NoSilentLoss

\* The dedup key says COMMITTED only when both wallets have been processed, in
\* whatever order two workers, their failures and key expiry interleave.
CommittedMeansHandled ==
  \A t \in Trades : key[t] = "committed" => handled[t] = Legs

\* The committed offset of a partition never goes back, although workers that
\* lost the partition still try to commit older messages.
OffsetNeverMovesBack ==
  [][\A p \in Partitions : committed'[p] >= committed[p]]_committed

\* As long as the coordinator took no partition from a live member, no wallet is
\* scored and dispatched while its trade's key is COMMITTED, whatever crashes,
\* failures and key expiries come before: a crash between the key commit and the
\* offset commit only re-reads the key.
NoDispatchAfterCommit ==
  [][\A w \in Workers :
       None({"rebalance"}) /\ leg'[w] > leg[w] => key[Trade(w)] # "committed"]_leg

\* How the run is going: after a skipping fault messages may be lost, after a
\* failed offset commit or a rebalance they may come again out of order.
Mode ==
  IF ~None({"dispatch", "dedup"}) THEN "lossy"
  ELSE IF ~None({"offset", "rebalance"}) THEN "lossless" ELSE "ordered"

\* The wallets that the attempt at p's next message is past.
Progress(p) ==
  LET w == owner[p]
  IN  IF Mode = "ordered" /\ w # Nobody /\ pc[w] \in {"legs", "commitKey", "ackTrade"} /\ Part(w) = p
      THEN leg[w] ELSE 0

\* "Exactly-once effects, at-least-once delivery": however many members share
\* the partitions, whichever crash, are stopped or drained, and whatever keys
\* expire, the group works like one sequential reader of each partition; failed
\* offset commits and rebalances cost the order, but lose nothing.
Consumer == INSTANCE SequentialConsumer
  WITH mode <- Mode,
       acked <- committed,
       progress <- [p \in Partitions |-> Progress(p)],
       done <- {t \in Trades : key[t] = "committed"}
ReadsLikeOneConsumer == Consumer!Spec

\* As long as neither dispatch nor an offset commit raised and no member was
\* fenced, _in_flight counts exactly the message being processed, so that the
\* depth the back-pressure controller sees is the real one.
DepthIsExact ==
  None({"dispatch", "offset", "rebalance"}) =>
    \A w \in Workers, p \in Partitions :
      inFlight[w][p] =
        IF Busy(w) /\ pc[w] # "ackDeadLetter" /\ Part(w) = p THEN 1 ELSE 0

\* The failures counted against a poison pill are attempts of one process: its
\* offset is committed, or its position moved on, at the first, so that only a
\* partition that is taken away and comes back brings it again.  A pill reaches
\* the dead-letter topic only after MaxRetries rebalances, however often the
\* offset commit fails and workers crash.
DeadLetterNeedsRebalances == dlt # {} => faults["rebalance"] >= MaxRetries

\* A paused partition of an idle worker: only processing a message of the
\* partition would resume it.
Stranded(w, p) == p \in fetchPaused[w] /\ ~Busy(w)

\* Every message is eventually behind the committed offset, whatever crashes,
\* shutdowns, rebalances and key expiries the group goes through; only a message
\* whose processing or commit raised, or a stranded partition, is left behind.
EverythingCommitted ==
  <>[](\/ \A p \in Partitions : committed[p] = Len(Log[p])
       \/ ~None({"dispatch", "dedup", "offset"})
       \/ \E w \in Workers, p \in Partitions : Stranded(w, p))

\* Back-pressure is temporary: a partition the controller paused is resumed
\* ("resumed after draining below low-water-mark").
PausedPartitionResumes ==
  \A w \in Workers, p \in Partitions :
    p \in fetchPaused[w] ~> p \notin fetchPaused[w]

==============================================================================
